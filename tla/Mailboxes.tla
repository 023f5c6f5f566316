------------------------------- MODULE Mailboxes -------------------------------
(***************************************************************************)
(* What the post office promises (network/post.h): mail that a thread      *)
(* hands in either gets lost or reaches the mailbox it is addressed to,    *)
(* once, and mail for one mailbox is taken out in the order in which it    *)
(* went out.                                                               *)
(***************************************************************************)
EXTENDS Naturals, Sequences

CONSTANTS Machine, Box, Client, Mail, NoMail

VARIABLES
  outgoing,  \* the mail a thread has handed in
  queue,     \* the mail for each mailbox of each machine, on its way or arrived
  inMail     \* the mail a thread has last received

Init ==
  /\ outgoing = [t \in Client |-> NoMail]
  /\ queue = [m \in Machine |-> [b \in Box |-> <<>>]]
  /\ inMail = [t \in Client |-> NoMail]

HandIn(t, mail) ==
  /\ outgoing[t] = NoMail
  /\ outgoing' = [outgoing EXCEPT ![t] = mail]
  /\ UNCHANGED <<queue, inMail>>

Post(t) ==
  /\ outgoing[t] # NoMail
  /\ outgoing' = [outgoing EXCEPT ![t] = NoMail]
  /\ queue' = [queue EXCEPT ![outgoing[t].to][outgoing[t].box] = Append(@, outgoing[t])]
  /\ UNCHANGED inMail

Lose(t) ==
  /\ outgoing' = [outgoing EXCEPT ![t] = NoMail]
  /\ UNCHANGED <<queue, inMail>>

Take(t, m, b) ==
  /\ queue[m][b] # <<>>
  /\ inMail' = [inMail EXCEPT ![t] = Head(queue[m][b])]
  /\ queue' = [queue EXCEPT ![m][b] = Tail(@)]
  /\ UNCHANGED outgoing

Next ==
  \E t \in Client :
    \/ \E mail \in Mail : HandIn(t, mail)
    \/ Post(t) \/ Lose(t)
    \/ \E m \in Machine, b \in Box : Take(t, m, b)

Spec == Init /\ [][Next]_<<outgoing, queue, inMail>>

================================================================================
