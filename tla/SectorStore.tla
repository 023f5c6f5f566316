------------------------------ MODULE SectorStore ------------------------------
(***************************************************************************)
(* What filesys/synchdisk.h promises of a SynchDisk: threads read and      *)
(* write whole sectors; each call takes effect on the sectors at one       *)
(* moment, one call at a time, and returns only once the device is         *)
(* done with it.                                                           *)
(***************************************************************************)
CONSTANTS Thread, Sector, Data, Nobody

VARIABLES
  sectors,  \* the contents of the disk
  client,   \* per thread, the phase of its call, its operation and its result
  busy      \* the thread whose operation the device is working on

Op == [kind : {"Read", "Write"}, sector : Sector, data : Data]

Idle == [phase |-> "idle"]

StoreInit ==
  /\ sectors \in [Sector -> Data]
  /\ client = [t \in Thread |-> Idle]
  /\ busy = Nobody

Invoke(t, op) ==
  /\ client[t] = Idle
  /\ client' = [client EXCEPT ![t] = [phase |-> "invoked", op |-> op]]
  /\ UNCHANGED <<sectors, busy>>

\* What op leaves in its sector, and what its caller's buffer holds after it.
Effect(op) == IF op.kind = "Write" THEN op.data ELSE sectors[op.sector]

Perform(t) ==
  /\ client[t].phase = "invoked"
  /\ busy = Nobody
  /\ LET op == client[t].op
     IN /\ sectors' = [sectors EXCEPT ![op.sector] = Effect(op)]
        /\ client' = [client EXCEPT ![t] = [phase |-> "performed", op |-> op,
                                            result |-> Effect(op)]]
  /\ busy' = t

Done(t) ==
  /\ busy = t
  /\ busy' = Nobody
  /\ client' = [client EXCEPT ![t].phase = "done"]
  /\ UNCHANGED sectors

Return(t) ==
  /\ client[t].phase = "done"
  /\ client' = [client EXCEPT ![t] = Idle]
  /\ UNCHANGED <<sectors, busy>>

StoreNext ==
  \E t \in Thread :
    (\E op \in Op : Invoke(t, op)) \/ Perform(t) \/ Done(t) \/ Return(t)

================================================================================
