------------------------------- MODULE MCNetwork -------------------------------
(***************************************************************************)
(* Two machines on a network.  Either threads send and receive as they     *)
(* like over a network that loses packets: two threads on machine "a" that *)
(* compete for its device, and a reader on machine "b" with two mailboxes; *)
(* every mail has a text of its own.  Or both machines run MailTest, as    *)
(* nettest.cc describes, over a network that loses nothing.                *)
(***************************************************************************)
EXTENDS Naturals, Sequences

CONSTANTS MaxSends, NoMail

VARIABLES
  part,
  held, waiting, value,
  sendBusy, sendDone, wire, inbox, worker, boxes, up, aborted, pc, inMail, sends,
  step  \* MailTest

office == <<held, waiting, value, sendBusy, sendDone, wire, inbox, worker, boxes, up,
            aborted, pc, inMail, sends>>
vars == <<part, office, step>>

Machines == {"a", "b"}
Semaphores == {"messageAvailable", "messageSent"} \X Machines

O == INSTANCE PostOffice WITH
  Thread <- {"a1", "a2", "b1"}, NoThread <- "nobody", Machine <- Machines,
  Lock <- Machines, Condition <- {}, Semaphore <- Semaphores,
  home <- [t \in {"a1", "a2", "b1"} |-> IF t = "b1" THEN "b" ELSE "a"],
  Box <- {0, 1}, Reliable <- FALSE,
  Mail <- [to : {"b"}, box : {0, 1}, from : {"a"}, reply : {0}, text : 0..(MaxSends - 1)]

T == INSTANCE PostOffice WITH
  Thread <- {"mainA", "mainB"}, NoThread <- "nobody", Machine <- Machines,
  Lock <- Machines, Condition <- {}, Semaphore <- Semaphores,
  home <- [t \in {"mainA", "mainB"} |-> IF t = "mainA" THEN "a" ELSE "b"],
  Box <- {0, 1}, Reliable <- TRUE, MaxSends <- 4,
  Mail <- [to : Machines, box : {0, 1}, from : Machines, reply : {1}, text : {0, 1}]

Init ==
  \/ part = "PostOffice" /\ O!Init /\ step = "unused"
  \/ part = "MailTest" /\ T!TestInit

InMailTest(A) == part = "MailTest" /\ A /\ UNCHANGED part

Next ==
  \/ part = "PostOffice" /\ O!Next /\ UNCHANGED <<part, step>>
  \/ InMailTest(T!TestNext)

\* In MailTest the threads of one machine take turns, its interrupts are scheduled,
\* and the machines are processes of one host.
Fairness ==
  /\ \A m \in Machines :
       /\ WF_vars(InMailTest(T!Polls(m)))
       /\ WF_vars(InMailTest(T!Sent(m)))
       /\ WF_vars(InMailTest(T!Works(m)))
  /\ \A t \in {"mainA", "mainB"} : WF_vars(InMailTest(T!Runs(t)))

Spec == Init /\ [][Next]_vars /\ Fairness

--------------------------------------------------------------------------------
\* The type invariants of the parts go with the first property of each.

\* Device and post office keep in step.  A packet is sent only when the interrupt
\* for the one before has come (network.cc:110, "ASSERT((sendBusy == FALSE)"), and
\* the postal worker finds a packet whenever messageAvailable lets it through,
\* however the polling interrupt falls between its steps.
PacketsInStep ==
  IF part = "PostOffice" THEN O!TypeOK /\ O!OnePacketAtATime /\ O!UnitPerPacket
                         ELSE T!TypeOK /\ T!OnePacketAtATime /\ T!UnitPerPacket

\* network.h:46, packets are delivered "in order but unreliably": buffers, worker
\* and mailboxes keep the order and add neither copies nor losses of their own.
ImplementsMailboxes ==
  /\ part = "PostOffice" => O!Promise!Init
  /\ [][part = "PostOffice" => O!Promise!Next \/ O!PromiseUnchanged]_vars

\* nettest.cc:70, "Then we're done!": without losses both machines halt, and none
\* halts while the other still has something to send to it (sysdep.cc:396,
\* SendToSocket asserts that the datagram was taken).
BothHalt == <>(part = "MailTest" => aborted = {} /\ \A m \in Machines : ~ up[m])

================================================================================
