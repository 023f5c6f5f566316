------------------------------- MODULE Interrupts ------------------------------
(***************************************************************************)
(* The interrupt simulation (machine/interrupt.cc) with simulated time, the*)
(* time-slice timer (machine/timer.cc) and a device that interrupts once   *)
(* per request, under threads that execute user instructions, trap into    *)
(* the kernel, disable interrupts, sleep and yield.                        *)
(*                                                                         *)
(* Times are kept relative to the clock: an entry of the pending list has  *)
(* the ticks left until it is due (zero or less: due), so that advancing   *)
(* totalTicks subtracts from every entry.  OneTick and Idle are cut at     *)
(* each CheckIfDue.  The scheduler is reduced to the set of ready threads. *)
(***************************************************************************)
EXTENDS Integers, Sequences

CONSTANTS
  Thread,         \* kernel threads, each with a user program
  SystemTick, UserTick,
  TimerDelay,     \* the delays TimeOfNextInterrupt may return
  DeviceDelay,    \* the delays with which the device schedules its interrupt
  MaxRequests     \* bound on the device's interrupts that are pending

\* The costs in machine/stats.h and the delays of the devices: time passes.
PositiveDelays ==
  /\ {SystemTick, UserTick} \subseteq Nat \ {0}
  /\ TimerDelay \subseteq Nat \ {0} /\ DeviceDelay \subseteq Nat \ {0}

VARIABLES
  pending,        \* the sorted list of [left, type]
  level,          \* IntOn or IntOff
  status,         \* SystemMode, UserMode, IdleMode; Halted after Halt
  yieldOnReturn,
  routine,        \* what the current thread is in: its code, OneTick, Idle
  currentThread,
  ready, blocked, \* the other threads
  saved,          \* for a thread that must tick before its code goes on: the "old"
                  \* its outermost OneTick restores
  mode            \* whether a thread's own code is user or kernel code

vars == <<pending, level, status, yieldOnReturn, routine, currentThread, ready,
          blocked, saved, mode>>

Entry == [left : Int, type : {"TimerInt", "DeviceInt"}]

\* The machine status, the list entries and the threads' places are well typed.
TypeOK ==
  /\ pending \in Seq(Entry)
  /\ level \in {"IntOn", "IntOff"}
  /\ status \in {"SystemMode", "UserMode", "IdleMode", "Halted"}
  /\ yieldOnReturn \in BOOLEAN
  /\ routine \in {"code", "OneTick", "Idle", "IdleMore"}
  /\ currentThread \in Thread
  /\ ready \subseteq Thread /\ blocked \subseteq Thread
  /\ saved \in [Thread -> {"none", "SystemMode", "UserMode"}]
  /\ mode \in [Thread -> {"SystemMode", "UserMode"}]

--------------------------------------------------------------------------------

\* List::SortedInsert: before the first entry that is due later, or last.
SortedInsert(list, e) ==
  LET later == {i \in DOMAIN list : e.left < list[i].left}
      k == IF later = {} THEN Len(list)
           ELSE (CHOOSE i \in later : \A j \in later : i <= j) - 1
  IN SubSeq(list, 1, k) \o <<e>> \o SubSeq(list, k + 1, Len(list))

\* Interrupt::Schedule.
Schedule(list, type, fromNow) == SortedInsert(list, [left |-> fromNow, type |-> type])

Advance(list, ticks) == [i \in DOMAIN list |-> [list[i] EXCEPT !.left = @ - ticks]]

\* The constructor, the Timer's, and the Enable() at the end of Initialize, whose
\* OneTick is the first step.
Init ==
  /\ \E d \in TimerDelay : pending = Schedule(<<>>, "TimerInt", d)
  /\ level = "IntOff"
  /\ status = "SystemMode"
  /\ yieldOnReturn = FALSE
  /\ routine = "code"
  /\ \E t \in Thread : currentThread = t /\ ready = Thread \ {t}
  /\ blocked = {}
  /\ saved = [t \in Thread |-> "SystemMode"]
  /\ mode = [t \in Thread |-> "SystemMode"]

--------------------------------------------------------------------------------
(***************************************************************************)
(* The current thread's code.                                              *)
(***************************************************************************)

Code ==
  /\ routine = "code"
  /\ status \in {"SystemMode", "UserMode"}
  /\ saved[currentThread] = "none"
Threads == <<currentThread, ready, blocked>>

\* OneTick up to its loop: advance the clock and turn interrupts off.
BeginTick ==
  /\ pending' = Advance(pending, IF status = "SystemMode" THEN SystemTick ELSE UserTick)
  /\ level' = "IntOff"
  /\ routine' = "OneTick"
  /\ UNCHANGED <<status, yieldOnReturn, Threads, saved, mode>>

\* SetLevel.  Turning interrupts on advances the clock.
Disable ==
  /\ Code /\ status = "SystemMode" /\ level = "IntOn"
  /\ level' = "IntOff"
  /\ UNCHANGED <<pending, status, yieldOnReturn, routine, Threads, saved, mode>>

Enable == routine = "code" /\ status = "SystemMode" /\ level = "IntOff" /\ BeginTick

\* Machine::Run: an instruction, then OneTick.
UserInstruction == Code /\ status = "UserMode" /\ BeginTick

\* Machine::Run and RaiseException change the status around user code.
EnterUser ==
  /\ Code /\ status = "SystemMode" /\ level = "IntOn"
  /\ status' = "UserMode"
  /\ mode' = [mode EXCEPT ![currentThread] = "UserMode"]
  /\ UNCHANGED <<pending, level, yieldOnReturn, routine, Threads, saved>>

RaiseException ==
  /\ Code /\ status = "UserMode"
  /\ status' = "SystemMode"
  /\ mode' = [mode EXCEPT ![currentThread] = "SystemMode"]
  /\ UNCHANGED <<pending, level, yieldOnReturn, routine, Threads, saved>>

\* A driver starts an operation of its device.
Request(d) ==
  /\ Code /\ status = "SystemMode"
  /\ Len(pending) <= MaxRequests   \* the timer's entry, and so many of devices
  /\ pending' = Schedule(pending, "DeviceInt", d)
  /\ UNCHANGED <<level, status, yieldOnReturn, routine, Threads, saved, mode>>

\* SWITCH to a ready thread, or back at once.
SwitchTo(others) ==
  IF ready = {} THEN UNCHANGED <<currentThread, ready>>
  ELSE \E t \in ready : currentThread' = t /\ ready' = (ready \ {t}) \cup others

\* Thread::Yield by kernel code; its SetLevel(oldLevel) is a tick.
Yield ==
  /\ Code /\ status = "SystemMode" /\ level = "IntOn"
  /\ level' = "IntOff"
  /\ saved' = [saved EXCEPT ![currentThread] = "SystemMode"]
  /\ SwitchTo({currentThread})
  /\ UNCHANGED <<pending, status, yieldOnReturn, routine, blocked, mode>>

\* Thread::Sleep: the next ready thread runs, or the machine idles.  A thread that
\* was switched out with interrupts on returns from SWITCH inside Yield or
\* ThreadRoot, which turn them on again: that tick is the next step.
Sleep ==
  /\ Code /\ status = "SystemMode" /\ level = "IntOff"
  /\ blocked' = blocked \cup {currentThread}
  /\ IF ready = {}
     THEN /\ routine' = "Idle"
          /\ status' = "IdleMode"
          /\ UNCHANGED <<currentThread, ready>>
     ELSE SwitchTo({}) /\ UNCHANGED <<routine, status>>
  /\ UNCHANGED <<pending, level, yieldOnReturn, saved, mode>>

--------------------------------------------------------------------------------
(***************************************************************************)
(* Interrupts.                                                             *)
(***************************************************************************)

\* CheckIfDue that quits for the timer whatever else is pending.
QuitForTimer(rest) == Head(pending).type = "TimerInt"

\* "Check if there is nothing more to do": only the time-slice daemon is left.
NothingMore(rest) == Head(pending).type = "TimerInt" /\ rest = <<>>

\* Due, or made due by advancing the clock.
Due(advanceClock) == pending # <<>> /\ (advanceClock \/ Head(pending).left <= 0)

Fires(advanceClock) ==
  /\ Due(advanceClock)
  /\ ~ (status = "IdleMode" /\ NothingMore(Tail(pending)))

Clock(advanceClock) ==
  IF advanceClock /\ Head(pending).left > 0 THEN Head(pending).left ELSE 0

\* Timer::TimerExpired arms the timer again and calls TimerInterruptHandler, which
\* finds the status SystemMode that CheckIfDue has set, never IdleMode.
TimerExpired(rest) ==
  /\ \E d \in TimerDelay : pending' = Schedule(rest, "TimerInt", d)
  /\ yieldOnReturn' = TRUE
  /\ UNCHANGED <<ready, blocked>>

\* A device's handler wakes a thread that waits for it, if there is one.
DeviceDone(rest) ==
  /\ pending' = rest
  /\ IF blocked = {} THEN UNCHANGED <<ready, blocked>>
     ELSE \E t \in blocked : ready' = ready \cup {t} /\ blocked' = blocked \ {t}
  /\ UNCHANGED yieldOnReturn

\* Interrupt::CheckIfDue when it calls a handler: TRUE.
Fire(advanceClock) ==
  /\ Fires(advanceClock)
  /\ LET rest == Advance(Tail(pending), Clock(advanceClock))
     IN IF Head(pending).type = "TimerInt" THEN TimerExpired(rest) ELSE DeviceDone(rest)
  /\ UNCHANGED <<level, status, currentThread, saved, mode>>

\* ... and when it puts the entry back, or finds none: FALSE.
PutBack(advanceClock) ==
  IF pending = <<>> THEN pending
  ELSE LET now == Advance(pending, IF Due(advanceClock) THEN Clock(advanceClock) ELSE 0)
       IN SortedInsert(Tail(now), Head(now))

\* The loop of OneTick.
TickFires == routine = "OneTick" /\ Fire(FALSE) /\ UNCHANGED routine

\* OneTick that returns without "status = old".
StatusKept == status

\* "status = old", for a thread that has yielded in OneTick.
StatusRestored == IF saved[currentThread] = "none" THEN status ELSE saved[currentThread]

\* After the loop without a time slice: return to the code, through the OneTick in
\* which the thread yielded if it is in one, which sets the status it had saved.
TickReturns ==
  /\ routine = "OneTick" /\ ~ Fires(FALSE) /\ ~ yieldOnReturn
  /\ pending' = PutBack(FALSE)
  /\ level' = "IntOn"
  /\ routine' = "code"
  /\ status' = StatusRestored
  /\ saved' = [saved EXCEPT ![currentThread] = "none"]
  /\ UNCHANGED <<yieldOnReturn, Threads, mode>>

\* "yield is a kernel routine".
YieldInSystemMode == status' = "SystemMode"

\* The time slice: Yield to the next ready thread, which comes back with
\* interrupts off and turns them on, or to nobody and turn them on at once.
TickYields ==
  /\ routine = "OneTick" /\ ~ Fires(FALSE) /\ yieldOnReturn
  /\ pending' = PutBack(FALSE)
  /\ yieldOnReturn' = FALSE
  /\ YieldInSystemMode
  /\ saved' = [saved EXCEPT ![currentThread] = IF @ = "none" THEN status ELSE @]
  /\ SwitchTo({currentThread})
  /\ routine' = "code"
  /\ UNCHANGED <<level, blocked, mode>>

\* Interrupt::Idle: advance the clock to the next interrupt, run what is due.
IdleFires ==
  /\ routine = "Idle" /\ status = "IdleMode" /\ Fire(TRUE)
  /\ routine' = "IdleMore"

IdleFiresMore == routine = "IdleMore" /\ Fire(FALSE) /\ UNCHANGED routine

\* "since there's nothing in the ready queue, the yield is automatic"
IdleClearsYield == yieldOnReturn' = FALSE

\* Idle returns to the loop of Sleep: a thread was woken and runs, or idle again.
IdleReturns ==
  /\ routine = "IdleMore" /\ ~ Fires(FALSE)
  /\ pending' = PutBack(FALSE)
  /\ IdleClearsYield
  /\ IF ready = {} THEN routine' = "Idle" /\ UNCHANGED <<status, currentThread, ready>>
     ELSE SwitchTo({}) /\ routine' = "code" /\ status' = "SystemMode"
  /\ UNCHANGED <<level, blocked, saved, mode>>

\* "No threads ready or runnable, and no pending interrupts."
IdleHalts ==
  /\ routine = "Idle" /\ status = "IdleMode" /\ ~ Fires(TRUE)
  /\ pending' = PutBack(TRUE)
  /\ status' = "Halted"
  /\ UNCHANGED <<level, yieldOnReturn, routine, Threads, saved, mode>>

Halted == status = "Halted" /\ UNCHANGED vars

Next ==
  \/ Disable \/ Enable \/ UserInstruction \/ EnterUser \/ RaiseException \/ Sleep
  \/ Yield
  \/ \E d \in DeviceDelay : Request(d)
  \/ TickFires \/ TickReturns \/ TickYields
  \/ IdleFires \/ IdleFiresMore \/ IdleReturns \/ IdleHalts \/ Halted

Spec == Init /\ [][Next]_vars

--------------------------------------------------------------------------------

\* The list stays sorted through insertions, removals and entries put back, so
\* that CheckIfDue may look at the first entry only; and when a thread's code runs
\* no device interrupt is overdue.  (The timer's can be: Idle puts it back when it
\* is the last one, although it is due.)
DueInOrder ==
  /\ \A i, j \in DOMAIN pending : i < j => pending[i].left <= pending[j].left
  /\ routine = "code" /\ level = "IntOn" =>
       \A i \in DOMAIN pending : pending[i].type = "DeviceInt" => pending[i].left > 0

\* TimerExpired arms the timer again and CheckIfDue puts it back: it is pending
\* exactly once, whatever path was taken, so time slices go on.
TimerArmed ==
  \E k \in DOMAIN pending : {i \in DOMAIN pending : pending[i].type = "TimerInt"} = {k}

\* OneTick saves the machine status in a local variable, gives the CPU away in
\* SystemMode and restores the status when the thread comes back, perhaps long
\* after: the status is always the mode of the code that is running.
StatusIsMode ==
  routine = "code" /\ status # "Halted" /\ saved[currentThread] = "none" =>
    status = mode[currentThread]

\* interrupt.cc:225-228: Idle halts only if no thread can run and nothing but the
\* time-slice timer is pending.
HaltsWhenDone ==
  status = "Halted" =>
    ready = {} /\ \A i \in DOMAIN pending : pending[i].type = "TimerInt"

\* Idle drops a time slice requested while it ran: the thread that runs next does
\* not lose the CPU for it.
NoStaleYield == yieldOnReturn => routine \in {"OneTick", "IdleMore"}

\* The pending list keeps what is put on it: it stays sorted, with no device
\* overdue when a thread's code runs, the timer is on it exactly once, and Idle
\* halts only when no thread can run and only the timer is pending.
NoInterruptLost == TypeOK /\ DueInOrder /\ TimerArmed /\ HaltsWhenDone

\* The machine status is the mode of the code that is running, whatever the threads
\* that ran in between did to it, and a time slice requested while the machine
\* idled is not charged to the thread that runs next.
StatusFollowsThread == StatusIsMode /\ NoStaleYield

(***************************************************************************)
(* What fairness speaks of: code goes on (WF) and comes to its next tick   *)
(* (SF: nothing in the kernel loops with interrupts off), OneTick and Idle *)
(* go on.                                                                  *)
(***************************************************************************)
CodeRuns == Disable \/ EnterUser \/ Yield
Ticks == Enable \/ UserInstruction
Handling ==
  TickFires \/ TickReturns \/ TickYields \/ IdleFires \/ IdleFiresMore \/ IdleReturns
    \/ IdleHalts

DevicePending == \E i \in DOMAIN pending : pending[i].type = "DeviceInt"

================================================================================
