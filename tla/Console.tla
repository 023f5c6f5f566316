--------------------------------- MODULE Console -------------------------------
(***************************************************************************)
(* The console device (machine/console.cc) and the kernel thread that      *)
(* echoes what is typed (ConsoleTest in userprog/progtest.cc), which waits *)
(* on two semaphores for the device's two interrupts.                      *)
(***************************************************************************)
EXTENDS Synch

CONSTANTS
  readAvail, writeDone,  \* the two semaphores
  Char,                  \* what can be typed: 'q' among it
  EOF,                   \* the value of "incoming" when there is no character
  MaxTyped               \* bound on the characters typed

\* The semaphores are two, and a character that can be typed is told from the absence of one.  (The byte 0xff
\* is not: a signed char holds it as -1, which is EOF.)
ConsoleAssumption ==
  /\ {readAvail, writeDone} \subseteq Semaphore /\ readAvail # writeDone
  /\ EOF \notin Char

VARIABLES
  incoming,  \* Console::incoming
  putBusy,   \* Console::putBusy; the write interrupt is pending just then
  ch,        \* the character in ConsoleTest
  keyboard,  \* the characters typed and not read: the UNIX file
  typed,     \* all characters typed
  display    \* the characters on the display

deviceVars == <<incoming, putBusy, keyboard, typed, display>>
ConsoleVars == <<programVars, deviceVars, ch>>

ConsoleCall == {<<"ConsoleTest">>, <<"GetChar">>, <<"writeDone">>, <<"test">>}

\* The device's buffer, flag and files are well typed.
ConsoleTypeOK ==
  /\ ProgramTypeOK(ConsoleCall)
  /\ incoming \in Char \cup {EOF} /\ ch \in Char \cup {EOF}
  /\ putBusy \in BOOLEAN
  /\ {keyboard, typed, display} \subseteq Seq(Char)

ConsoleInit ==
  /\ ProgramInit([s \in Semaphore |-> 0])
  /\ incoming = EOF /\ ch = EOF
  /\ putBusy = FALSE
  /\ keyboard = <<>> /\ typed = <<>> /\ display = <<>>

--------------------------------------------------------------------------------
(***************************************************************************)
(* The device.                                                             *)
(***************************************************************************)

\* The user at the keyboard.
Type(c) ==
  /\ machineStatus # "Halted"
  /\ Len(typed) < MaxTyped
  /\ typed' = Append(typed, c)
  /\ keyboard' = Append(keyboard, c)
  /\ UNCHANGED <<programVars, incoming, putBusy, display, ch>>

\* CheckCharAvail that does not look whether the buffer is free.
PollOverwrites == keyboard # <<>>

\* "do nothing if character is already buffered, or none to be read"
PollReads == incoming = EOF /\ keyboard # <<>>

\* Read(readFileNo, &c, sizeof(char)).
ReadOldest == Head(keyboard)

\* The handler ReadAvail.
ReadAvail == V(readAvail)

\* Console::CheckCharAvail with the handler ReadAvail; polling never stops.
CheckCharAvail ==
  /\ PollReads
  /\ incoming' = ReadOldest
  /\ keyboard' = Tail(keyboard)
  /\ ReadAvail
  /\ UNCHANGED <<pc, finished, putBusy, typed, display, ch>>

\* Console::WriteDone with the handler WriteDone.
WriteDone ==
  /\ putBusy
  /\ putBusy' = FALSE
  /\ V(writeDone)
  /\ UNCHANGED <<pc, finished, incoming, keyboard, typed, display, ch>>

--------------------------------------------------------------------------------
(***************************************************************************)
(* ConsoleTest, run by main.                                               *)
(***************************************************************************)

CallP(from, to) ==
  /\ InCall(from)
  /\ DisableInterrupts
  /\ Goto(to)
  /\ UNCHANGED <<synchVars, finished, deviceVars, ch>>

\* readAvail->P().
AwaitChar == CallP(<<>>, <<"ConsoleTest">>)

ReadAvailP ==
  /\ InCall(<<"ConsoleTest">>)
  /\ \/ PSleep(readAvail) /\ UNCHANGED pc
     \/ PTake(readAvail) /\ Goto(<<"GetChar">>)
  /\ UNCHANGED <<finished, deviceVars, ch>>

\* GetChar: the buffer's character.
GetChar == incoming

\* GetChar, PutChar and the SetLevel(IntOff) of writeDone->P(), without a tick in
\* between.  PutChar asserts that the display is not busy.
Echo ==
  /\ InCall(<<"GetChar">>)
  /\ DisableInterrupts
  /\ ch' = GetChar
  /\ incoming' = EOF
  /\ display' = Append(display, GetChar)
  /\ putBusy' = TRUE
  /\ Goto(<<"writeDone">>)
  /\ UNCHANGED <<synchVars, finished, keyboard, typed>>

WriteDoneSleeps == PSleep(writeDone) /\ UNCHANGED pc

WriteDoneP ==
  /\ InCall(<<"writeDone">>)
  /\ \/ WriteDoneSleeps
     \/ PTake(writeDone) /\ Goto(<<"test">>)
  /\ UNCHANGED <<finished, deviceVars, ch>>

\* "if q, quit": ConsoleTest returns to main, which halts the machine.
TestQuit ==
  /\ InCall(<<"test">>)
  /\ IF ch = "q" THEN Halt ELSE UNCHANGED kernelVars
  /\ Goto(<<>>)
  /\ UNCHANGED <<synchVars, deviceVars, ch, finished>>

\* With the console operating there are always pending interrupts, so an idle
\* machine does not halt.
ConsoleOtherStep ==
  /\ TimeSlice \/ Schedule \/ Halted
  /\ UNCHANGED <<deviceVars, ch>>

ConsoleNext ==
  \/ \E c \in Char : Type(c)
  \/ CheckCharAvail \/ WriteDone
  \/ AwaitChar \/ ReadAvailP \/ Echo \/ WriteDoneP \/ TestQuit \/ ConsoleOtherStep

ConsoleSpec == ConsoleInit /\ [][ConsoleNext]_ConsoleVars

--------------------------------------------------------------------------------

\* Console::PutChar asserts putBusy == FALSE: waiting for writeDone after each
\* character keeps ConsoleTest from calling it too early.
PutCharSafe == InCall(<<"GetChar">>) => ~ putBusy

\* The characters in flight are in the buffer or in the thread's hands; each unit
\* of readAvail stands for one buffered character, however the poll interrupt and
\* the thread interleave.
OneCharPerUnit ==
  value[readAvail] + (IF pc[Main] = <<"GetChar">> THEN 1 ELSE 0)
    = (IF incoming = EOF THEN 0 ELSE 1)

\* console.cc:80-81: a character is read in only "if the previous character has
\* been grabbed out of the buffer by the Nachos kernel".  So what is displayed,
\* what is buffered and what is still in the file make up what was typed.
NothingLost ==
  display \o (IF incoming = EOF THEN <<>> ELSE <<incoming>>) \o keyboard = typed

\* What is displayed, buffered and unread makes up what was typed at the console;
\* each unit of readAvail stands for a character in its buffer, and PutChar finds
\* the display free, as it asserts.
CharactersKept == ConsoleTypeOK /\ NothingLost /\ OneCharPerUnit /\ PutCharSafe

(***************************************************************************)
(* What fairness speaks of: main, the only thread, and the scheduler.      *)
(***************************************************************************)
InConsoleTest == AwaitChar \/ ReadAvailP \/ Echo \/ WriteDoneP \/ TestQuit
ConsoleDispatching == Schedule /\ UNCHANGED <<deviceVars, ch>>

================================================================================
