------------------------------- MODULE PostOffice ------------------------------
(***************************************************************************)
(* Machines on a network: the device (machine/network.cc), whose packets   *)
(* may be lost, the post office over it (network/post.cc) with its postal  *)
(* worker, and threads that send and receive mail.  A mailbox is a         *)
(* SynchList, whose Append and Remove are atomic here (see SynchList).     *)
(***************************************************************************)
EXTENDS Monitors

CONSTANTS
  Machine, Box,
  Mail,      \* records of machine and box it goes to, machine it comes from, box
             \* for the reply, and text
  NoMail,
  home,      \* the machine each thread runs on
  Reliable,  \* chanceToWork = 1: no packet is lost
  MaxSends   \* bound on the calls of Send

\* A machine stands for the sendLock of its post office in Lock, and Semaphore is
\* {"messageAvailable", "messageSent"} \X Machine.

VARIABLES
  sendBusy,  \* Network::sendBusy
  sendDone,  \* the NetworkSendDone interrupts that are pending
  wire,      \* the datagrams in a machine's socket
  inbox,     \* Network::inHdr and inbox: NoMail for inHdr.length = 0
  worker,    \* where the postal worker is, with the mail it carries
  boxes,     \* PostOffice::boxes
  up,        \* the machine runs: its socket exists
  aborted,   \* the machines stopped by an assertion
  pc,        \* where a thread is in Send or Receive
  inMail,    \* what Receive has last returned to a thread
  sends      \* the number of calls of Send

deviceVars == <<sendBusy, sendDone, wire, inbox>>
officeVars == <<worker, boxes>>
machineVars == <<up, aborted>>
clientVars == <<pc, inMail, sends>>
vars == <<monitorVars, deviceVars, officeVars, machineVars, clientVars>>

\* Device, post office and clients are well typed.
TypeOK ==
  /\ MonitorTypeOK
  /\ sendBusy \in [Machine -> BOOLEAN] /\ sendDone \in [Machine -> Nat]
  /\ wire \in [Machine -> Seq(Mail)]
  /\ inbox \in [Machine -> Mail \cup {NoMail}]
  /\ worker \in [Machine -> {<<"P">>, <<"Receive">>} \cup ({"Put"} \X Mail)]
  /\ boxes \in [Machine -> [Box -> Seq(Mail)]]
  /\ up \in [Machine -> BOOLEAN] /\ aborted \subseteq Machine
  /\ pc \in [Thread -> {<<>>, <<"P">>, <<"Release">>}
                          \cup ({"Acquire", "Send"} \X Mail) \cup ({"Get"} \X Box)]
  /\ inMail \in [Thread -> Mail \cup {NoMail}]

\* The constructors of Network and PostOffice, which forks the worker.
Init ==
  /\ MonitorInit([s \in Semaphore |-> 0])
  /\ sendBusy = [m \in Machine |-> FALSE] /\ sendDone = [m \in Machine |-> 0]
  /\ wire = [m \in Machine |-> <<>>] /\ inbox = [m \in Machine |-> NoMail]
  /\ worker = [m \in Machine |-> <<"P">>]
  /\ boxes = [m \in Machine |-> [b \in Box |-> <<>>]]
  /\ up = [m \in Machine |-> TRUE] /\ aborted = {}
  /\ pc = [t \in Thread |-> <<>>] /\ inMail = [t \in Thread |-> NoMail] /\ sends = 0

--------------------------------------------------------------------------------
(***************************************************************************)
(* The network device of machine m.                                        *)
(***************************************************************************)

\* CheckPktAvail that does not look whether the inbox is free.
ArrivesAnyway(m) == wire[m] # <<>>

\* "do nothing if packet is already buffered", or none to be read.
Arrives(m) == inbox[m] = NoMail /\ wire[m] # <<>>

\* PostOffice::IncomingPacket.
IncomingPacket(m) == V(<<"messageAvailable", m>>)

\* Network::CheckPktAvail; polling goes on for ever.
CheckPktAvail(m) ==
  /\ up[m]
  /\ IF Arrives(m)
     THEN /\ inbox' = [inbox EXCEPT ![m] = Head(wire[m])]
          /\ wire' = [wire EXCEPT ![m] = Tail(@)]
          /\ IncomingPacket(m)
     ELSE UNCHANGED <<inbox, wire, monitorVars>>
  /\ UNCHANGED <<sendBusy, sendDone, officeVars, machineVars, clientVars>>

\* Network::SendDone with the handler PostOffice::PacketSent.
SendDone(m) ==
  /\ up[m]
  /\ sendDone[m] > 0
  /\ sendDone' = [sendDone EXCEPT ![m] = @ - 1]
  /\ sendBusy' = [sendBusy EXCEPT ![m] = FALSE]
  /\ V(<<"messageSent", m>>)
  /\ UNCHANGED <<wire, inbox, officeVars, machineVars, clientVars>>

\* SendToSocket asserts that the datagram was accepted, which takes a receiver.
SendToSocket(m, mail) ==
  IF up[mail.to]
  THEN wire' = [wire EXCEPT ![mail.to] = Append(@, mail)] /\ UNCHANGED machineVars
  ELSE /\ up' = [up EXCEPT ![m] = FALSE]
       /\ aborted' = aborted \cup {m}
       /\ UNCHANGED wire

\* Network::Send: the interrupt comes whether or not the packet is lost.
NetworkSend(m, mail) ==
  /\ sendDone' = [sendDone EXCEPT ![m] = @ + 1]
  /\ \/ SendToSocket(m, mail)
     \/ ~ Reliable /\ UNCHANGED <<wire, machineVars>>
  /\ UNCHANGED <<sendBusy, inbox>>

--------------------------------------------------------------------------------
(***************************************************************************)
(* PostOffice::PostalDelivery on machine m.                                *)
(***************************************************************************)

AwaitPacket(m) ==
  /\ up[m]
  /\ worker[m] = <<"P">>
  /\ P(<<"messageAvailable", m>>)
  /\ worker' = [worker EXCEPT ![m] = <<"Receive">>]
  /\ UNCHANGED <<deviceVars, boxes, machineVars, clientVars>>

Received(m) == inbox[m]

\* Network::Receive.
ReceivePacket(m) ==
  /\ up[m]
  /\ worker[m] = <<"Receive">>
  /\ worker' = [worker EXCEPT ![m] = <<"Put", Received(m)>>]
  /\ inbox' = [inbox EXCEPT ![m] = NoMail]
  /\ UNCHANGED <<monitorVars, sendBusy, sendDone, wire, boxes, machineVars, clientVars>>

\* A mailbox that puts new mail in front.
PutInFront(m, mail) ==
  boxes' = [boxes EXCEPT ![m][mail.box] = <<mail>> \o @]

\* MailBox::Put.
Put(m, mail) == boxes' = [boxes EXCEPT ![m][mail.box] = Append(@, mail)]

Deliver(m) ==
  /\ up[m]
  /\ worker[m][1] = "Put"
  /\ Put(m, worker[m][2])
  /\ worker' = [worker EXCEPT ![m] = <<"P">>]
  /\ UNCHANGED <<monitorVars, deviceVars, machineVars, clientVars>>

--------------------------------------------------------------------------------
(***************************************************************************)
(* PostOffice::Send and PostOffice::Receive, called by thread t.           *)
(***************************************************************************)

Goto(t, call) == pc' = [pc EXCEPT ![t] = call]

CallSend(t, mail) ==
  /\ up[home[t]] /\ pc[t] = <<>>
  /\ sends < MaxSends
  /\ sends' = sends + 1
  /\ Goto(t, <<"Acquire", mail>>)
  /\ UNCHANGED <<monitorVars, deviceVars, officeVars, machineVars, inMail>>

\* sendLock->Acquire().
AcquireSendLock(t) == Acquire(t, home[t])

StartSend(t) ==
  /\ up[home[t]] /\ pc[t] # <<>> /\ pc[t][1] = "Acquire"
  /\ AcquireSendLock(t)
  /\ Goto(t, <<"Send", pc[t][2]>>)
  /\ UNCHANGED <<deviceVars, officeVars, machineVars, inMail, sends>>

Transmit(t) ==
  /\ up[home[t]] /\ pc[t] # <<>> /\ pc[t][1] = "Send"
  /\ NetworkSend(home[t], pc[t][2])
  /\ Goto(t, <<"P">>)
  /\ UNCHANGED <<monitorVars, officeVars, inMail, sends>>

AwaitSent(t) ==
  /\ up[home[t]] /\ pc[t] = <<"P">>
  /\ P(<<"messageSent", home[t]>>)
  /\ Goto(t, <<"Release">>)
  /\ UNCHANGED <<deviceVars, officeVars, machineVars, inMail, sends>>

EndSend(t) ==
  /\ up[home[t]] /\ pc[t] = <<"Release">>
  /\ Release(t, home[t])
  /\ Goto(t, <<>>)
  /\ UNCHANGED <<deviceVars, officeVars, machineVars, inMail, sends>>

CallReceive(t, b) ==
  /\ up[home[t]] /\ pc[t] = <<>>
  /\ Goto(t, <<"Get", b>>)
  /\ UNCHANGED <<monitorVars, deviceVars, officeVars, machineVars, inMail, sends>>

\* MailBox::Get.
Get(t) ==
  /\ up[home[t]] /\ pc[t] # <<>> /\ pc[t][1] = "Get"
  /\ LET box == boxes[home[t]][pc[t][2]]
     IN /\ box # <<>>
        /\ inMail' = [inMail EXCEPT ![t] = Head(box)]
        /\ boxes' = [boxes EXCEPT ![home[t]][pc[t][2]] = Tail(@)]
  /\ Goto(t, <<>>)
  /\ UNCHANGED <<monitorVars, deviceVars, worker, machineVars, sends>>

\* interrupt->Halt(): Cleanup deletes the post office and with it the socket.
HaltMachine(m) ==
  /\ up[m]
  /\ up' = [up EXCEPT ![m] = FALSE]
  /\ UNCHANGED <<monitorVars, deviceVars, officeVars, aborted, clientVars>>

InService(t) == StartSend(t) \/ Transmit(t) \/ AwaitSent(t) \/ EndSend(t) \/ Get(t)

OfficeStep(m) ==
  CheckPktAvail(m) \/ SendDone(m) \/ AwaitPacket(m) \/ ReceivePacket(m) \/ Deliver(m)

\* Threads that send and receive as they like; each mail is sent once.
Next ==
  \/ \E m \in Machine : OfficeStep(m)
  \/ \E t \in Thread :
       \/ InService(t)
       \/ \E mail \in Mail :
            mail.from = home[t] /\ mail.text = sends /\ CallSend(t, mail)
       \/ \E b \in Box : CallReceive(t, b)

Spec == Init /\ [][Next]_vars

--------------------------------------------------------------------------------

\* network.cc:110, "ASSERT((sendBusy == FALSE)": a packet is sent only when the
\* interrupt for the one before has come.  PostOffice::Send keeps the lock until
\* then, so no two interrupts are ever pending, and a unit of messageSent belongs
\* to the thread that holds the lock.
OnePacketAtATime ==
  \A m \in Machine :
    /\ sendDone[m] + value[<<"messageSent", m>>] <= 1
    /\ \A t \in Thread :
         home[t] = m /\ pc[t] # <<>> /\ pc[t][1] = "Send" =>
           sendDone[m] + value[<<"messageSent", m>>] = 0

\* The worker finds a packet whenever messageAvailable lets it through, however
\* the polling interrupt falls between its steps.
UnitPerPacket ==
  \A m \in Machine :
    value[<<"messageAvailable", m>>] + (IF worker[m] = <<"Receive">> THEN 1 ELSE 0)
      = (IF inbox[m] = NoMail THEN 0 ELSE 1)

\* The mail for a mailbox, in order: arrived, with the worker, in the device, in
\* the socket.
Pending(m, b) ==
  LET for(seq) == SelectSeq(seq, LAMBDA mail : mail.box = b)
  IN boxes[m][b]
       \o for(IF worker[m][1] = "Put" THEN <<worker[m][2]>> ELSE <<>>)
       \o for(IF inbox[m] = NoMail THEN <<>> ELSE <<inbox[m]>>)
       \o for(wire[m])

Outgoing(t) == IF pc[t] # <<>> /\ pc[t][1] \in {"Acquire", "Send"} THEN pc[t][2] ELSE NoMail

Promise == INSTANCE Mailboxes WITH
  Client <- Thread,
  queue <- [m \in Machine |-> [b \in Box |-> Pending(m, b)]],
  outgoing <- [t \in Thread |-> Outgoing(t)]

PromiseUnchanged ==
  /\ UNCHANGED inMail
  /\ \A m \in Machine, b \in Box : Pending(m, b)' = Pending(m, b)
  /\ \A t \in Thread : Outgoing(t)' = Outgoing(t)

--------------------------------------------------------------------------------
(***************************************************************************)
(* MailTest (network/nettest.cc) on two machines: each main thread sends a *)
(* message, waits for the other's, acknowledges it, waits for the          *)
(* acknowledgement and halts its machine.                                  *)
(***************************************************************************)
VARIABLE step  \* how many of its calls a main thread has made

testVars == <<vars, step>>

TestInit == Init /\ step = [t \in Thread |-> 0]

Far(t) == CHOOSE m \in Machine : m # home[t]

Hello(t) == [to |-> Far(t), box |-> 0, from |-> home[t], reply |-> 1, text |-> 0]

\* An acknowledgement to the mailbox the message came in by.
AckToBox(t) == [to |-> inMail[t].from, box |-> inMail[t].box, from |-> home[t],
                reply |-> 1, text |-> 1]

\* The acknowledgement goes to the box the message names for the reply.
Ack(t) == [to |-> inMail[t].from, box |-> inMail[t].reply, from |-> home[t],
           reply |-> 1, text |-> 1]

AwaitAck(t) == CallReceive(t, 1)

MailTest(t) ==
  /\ pc[t] = <<>>
  /\ step' = [step EXCEPT ![t] = @ + 1]
  /\ \/ step[t] = 0 /\ CallSend(t, Hello(t))
     \/ step[t] = 1 /\ CallReceive(t, 0)
     \/ step[t] = 2 /\ CallSend(t, Ack(t))
     \/ step[t] = 3 /\ AwaitAck(t)
     \/ step[t] = 4 /\ HaltMachine(home[t])

Done == (\A m \in Machine : ~ up[m]) /\ UNCHANGED testVars

TestNext ==
  \/ \E m \in Machine : OfficeStep(m) /\ UNCHANGED step
  \/ \E t \in Thread : MailTest(t) \/ (InService(t) /\ UNCHANGED step)
  \/ Done

\* What fairness speaks of: the interrupts of machine m, its postal worker, and the
\* main thread t.
Polls(m) == CheckPktAvail(m) /\ UNCHANGED step
Sent(m) == SendDone(m) /\ UNCHANGED step
Works(m) == (AwaitPacket(m) \/ ReceivePacket(m) \/ Deliver(m)) /\ UNCHANGED step
Runs(t) == MailTest(t) \/ (InService(t) /\ UNCHANGED step)

================================================================================
