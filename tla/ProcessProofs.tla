----------------------------- MODULE ProcessProofs -----------------------------
(***************************************************************************)
(* What the process manager promises, for any number of processes and ids: *)
(* the id of a process is its own until clearPID, and no path through the  *)
(* manager keeps a lock.                                                   *)
(***************************************************************************)
EXTENDS Processes, TLAPS, WellFoundedInduction

\* Time limits of the provers, in seconds, for a step that gives none.
USE SMTT(30), ZenonT(30)

(***************************************************************************)
(* Where a process is in its system call: v is its pc.                     *)
(***************************************************************************)

\* Fork and Exec, between taking an id and insertProcess, for process v[2].
Making(v) == v # <<>> /\ v[1] \in {"insert", "space", "exec"}
Inserting(v) == v # <<>> /\ v[1] = "insert"
EnteringSpace(v) == v # <<>> /\ v[1] = "space"

\* Holding pmLock while it waits for another lock; in the loop of join; in Wait.
Managing(v) == v # <<>> /\ v[1] \in {"join lock", "broadcast", "clear"}
Joining(v) == v # <<>> /\ v[1] \in {"join test", "join wait"}
Awaking(v) == v # <<>> /\ v[1] = "woken"

\* Past the test of getStatus that the id exists.
Checked(v) ==
  v # <<>> /\ v[1] \in {"read", "join", "join lock", "join test", "join wait", "woken"}

NotYet(v) == v \in {<<"unborn">>, <<"starting">>}

\* In none of the places that the invariant speaks of.
Plain(v) ==
  /\ ~ Making(v) /\ ~ Inserting(v) /\ ~ EnteringSpace(v)
  /\ ~ Managing(v) /\ ~ Joining(v) /\ ~ Awaking(v) /\ ~ Checked(v)

\* A process that has been created and has not finished.
Entered(t) == t \notin finished /\ ~ NotYet(pc[t])

(***************************************************************************)
(* The invariant.                                                          *)
(***************************************************************************)

\* A process in the making has one maker.
OneMaker ==
  \A t \in Thread : Making(pc[t]) =>
    /\ pc[t][2] \in Thread /\ pc[pc[t][2]] = <<"starting">>
    /\ Inserting(pc[t]) => pid[pc[t][2]] \in Pid
    /\ \A u \in Thread \ {t} : Making(pc[u]) => pc[u][2] # pc[t][2]

\* The id of a process is marked from getPID to clearPID and is nobody else's, nor is
\* it one that a constructor of AddrSpace is about to enter.
IdsClaimed ==
  \A t \in Thread \ finished : pid[t] \in Pid =>
    /\ pid[t] \in marked
    /\ \A u \in Thread \ finished : u # t => pid[u] # pid[t]
    /\ \A u \in Thread : EnteringSpace(pc[u]) => pc[u][3] # pid[t]
SpacesClaimed == \A t \in Thread : EnteringSpace(pc[t]) => pc[t][3] \in marked

\* The tables lead from the id of a process to it, and from a lock that exists to the
\* process it belongs to.
TablesAgree ==
  /\ \A t \in Thread : Entered(t) => pid[t] \in Pid /\ pcbs[pid[t]] = t /\ locks[pid[t]] = t
  /\ \A p \in Pid : locks[p] \in Thread \ freed => Entered(locks[p]) /\ pid[locks[p]] = p

\* A thread holds pmLock only while it waits for another lock under it, and the lock of
\* a process only in the loop of join for that process.
HoldersKnown ==
  /\ \A t \in Thread : held[pmLock] = t => Managing(pc[t])
  /\ \A t \in Thread, l \in Thread \ freed :
       held[l] = t => Joining(pc[t]) /\ locks[pc[t][2]] = l
  /\ \A t \in Thread : Awaking(pc[t]) =>
       /\ pc[t][3] \in Thread
       /\ pc[t][3] \notin freed => locks[pc[t][2]] = pc[t][3]

JoinsInRange == \A t \in Thread : Checked(pc[t]) => pc[t][2] \in Pid

PlacesKnown ==
  /\ DOMAIN pc = Thread
  /\ freed = finished
  /\ \A t \in finished : pc[t] = <<"finished">>

PInv ==
  /\ TypeOK /\ PlacesKnown
  /\ OneMaker /\ IdsClaimed /\ SpacesClaimed /\ TablesAgree /\ HoldersKnown /\ JoinsInRange

--------------------------------------------------------------------------------

\* What each place in a system call is.
LEMMA Places ==
  ASSUME NEW a, NEW b
  PROVE  /\ Plain(<<>>) /\ Plain(<<"unborn">>) /\ Plain(<<"starting">>)
         /\ Plain(<<"finished">>) /\ Plain(<<"delete space">>) /\ Plain(<<"status", a, b>>)
         /\ ~ NotYet(<<>>) /\ ~ NotYet(<<"finished">>) /\ ~ NotYet(<<"delete space">>)
         /\ ~ NotYet(<<"status", a, b>>)
BY Zenon DEF Plain, Making, Inserting, EnteringSpace, Managing, Joining, Awaking, Checked, NotYet

\* A process that is not running yet has no place in a call.
LEMMA NotYetIs == ASSUME NEW v, NotYet(v) PROVE v[1] \in {"unborn", "starting"}
BY DEF NotYet

\* Only space, insert and exec are places of a maker.
LEMMA MakersAre ==
  ASSUME NEW v
  PROVE  /\ Inserting(v) => Making(v)
         /\ EnteringSpace(v) => Making(v)
         /\ Making(v) \/ Managing(v) \/ Joining(v) \/ Awaking(v) \/ Checked(v) => ~ NotYet(v)
<1>1. NotYet(v) => v[1] \in {"unborn", "starting"}
  BY NotYetIs, Zenon
<1> QED
  BY <1>1, Zenon DEF Making, Inserting, EnteringSpace, Managing, Joining, Awaking, Checked

\* A place v in a call: what v is told apart from.
LEMMA CallPlace ==
  ASSUME NEW v, v # <<>>,
         v[1] \in {"read", "join", "join lock", "join test", "join wait", "woken",
                   "status", "broadcast", "delete space", "clear"}
  PROVE  /\ ~ Making(v) /\ ~ NotYet(v) /\ v # <<"finished">>
         /\ Managing(v) <=> v[1] \in {"join lock", "broadcast", "clear"}
         /\ Joining(v) <=> v[1] \in {"join test", "join wait"}
         /\ Awaking(v) <=> v[1] = "woken"
         /\ Checked(v) <=> v[1] \in {"read", "join", "join lock", "join test", "join wait",
                                      "woken"}
<1>1. NotYet(v) => v[1] \in {"unborn", "starting"}
  BY NotYetIs, Zenon
<1>2. <<"finished">>[1] = "finished"
  BY Zenon
<1>3. v # <<"finished">>
  BY <1>2, Zenon
<1> QED
  BY <1>1, <1>3, Zenon DEF Making, Managing, Joining, Awaking, Checked

\* A step of t in a call that leaves the tables alone.
LEMMA CallStep ==
  ASSUME PInv, NEW t \in Thread, NEW v,
         t \notin finished, ~ NotYet(pc[t]), ~ Making(pc[t]),
         ~ NotYet(v), ~ Making(v), Checked(v) => v[2] \in Pid,
         pc' = [pc EXCEPT ![t] = v], UNCHANGED <<tableVars, pid, finished>>, TypeOK',
         \A x \in Thread \ {t}, l \in Lock : held'[l] = x => held[l] = x,
         held'[pmLock] = t => Managing(v),
         \A l \in Thread \ freed : held'[l] = t => Joining(v) /\ locks[v[2]] = l,
         Awaking(v) => v[3] \in Thread /\ (v[3] \notin freed => locks[v[2]] = v[3]),
         ProcessesAssumption
  PROVE  PInv'
<1>1. /\ pc'[t] = v /\ \A x \in Thread \ {t} : pc'[x] = pc[x]
      /\ UNCHANGED <<marked, pcbs, locks, freed, pid, finished>>
  BY Zenon DEF PInv, PlacesKnown, tableVars
<1>2. \A x \in Thread : EnteringSpace(pc'[x]) => EnteringSpace(pc[x]) /\ pc'[x] = pc[x]
  BY <1>1, MakersAre, Zenon
<1>3. \A x \in Thread : Making(pc'[x]) => Making(pc[x]) /\ pc'[x] = pc[x]
  BY <1>1, Zenon
<1>4. PlacesKnown'
  BY <1>1, Zenon DEF PInv, PlacesKnown, TypeOK
<1>5. \A x \in Thread : pc[x] = <<"starting">> => pc'[x] = <<"starting">>
  BY <1>1, Zenon DEF NotYet
<1>6. OneMaker'
  BY <1>1, <1>3, <1>5 DEF PInv, OneMaker
<1>7. IdsClaimed' /\ SpacesClaimed'
  BY <1>1, <1>2 DEF PInv, IdsClaimed, SpacesClaimed
<1>8. \A x \in Thread : Entered(x)' <=> Entered(x)
  BY <1>1, Zenon DEF Entered
<1>9. TablesAgree'
  BY <1>1, <1>8, Zenon DEF PInv, TablesAgree
<1>10. HoldersKnown'
  <2>1. \A x \in Thread : held'[pmLock] = x => Managing(pc'[x])
    BY <1>1 DEF PInv, HoldersKnown, ProcessesAssumption
  <2>2. \A x \in Thread, l \in Thread \ freed :
          held'[l] = x => Joining(pc'[x]) /\ locks[pc'[x][2]] = l
    BY <1>1 DEF PInv, HoldersKnown, ProcessesAssumption
  <2>3. \A x \in Thread : Awaking(pc'[x]) =>
          /\ pc'[x][3] \in Thread
          /\ pc'[x][3] \notin freed => locks[pc'[x][2]] = pc'[x][3]
    BY <1>1 DEF PInv, HoldersKnown
  <2> QED
    BY <1>1, <2>1, <2>2, <2>3 DEF HoldersKnown
<1>11. JoinsInRange'
  BY <1>1 DEF PInv, JoinsInRange
<1> QED
  BY <1>4, <1>6, <1>7, <1>9, <1>10, <1>11, Zenon DEF PInv

\* A failed assertion or a bad pointer stops the kernel as it is.
LEMMA StoppedStep ==
  ASSUME PInv, UNCHANGED <<monitorVars, tableVars, status, pid, finished, pc>> PROVE PInv'
BY DEF PInv, TypeOK, MonitorTypeOK, PlacesKnown, OneMaker, IdsClaimed, SpacesClaimed, TablesAgree,
   Entered, HoldersKnown, JoinsInRange, monitorVars, tableVars

\* A thread that is at label has started, is not finished and runs.
LEMMA InCallFacts ==
  ASSUME PInv, NEW t \in Thread, pc[t] # <<>>,
         pc[t][1] \in {"read", "join", "join lock", "join test", "join wait", "woken",
                       "status", "broadcast", "delete space", "clear"}
  PROVE  /\ t \notin finished /\ ~ NotYet(pc[t]) /\ ~ Making(pc[t]) /\ Entered(t)
         /\ Managing(pc[t]) <=> pc[t][1] \in {"join lock", "broadcast", "clear"}
         /\ Joining(pc[t]) <=> pc[t][1] \in {"join test", "join wait"}
         /\ Checked(pc[t]) <=> pc[t][1] \in {"read", "join", "join lock", "join test",
                                              "join wait", "woken"}
         /\ Checked(pc[t]) => pc[t][2] \in Pid
BY CallPlace, Zenon DEF PInv, PlacesKnown, Entered, JoinsInRange

\* The locks t holds when its place is not one where it may.
LEMMA HoldsNone ==
  ASSUME PInv, NEW t \in Thread
  PROVE  /\ ~ Managing(pc[t]) => held[pmLock] # t
         /\ ~ Joining(pc[t]) => \A l \in Thread \ freed : held[l] # t
BY Zenon DEF PInv, HoldersKnown

\* A call of t that leaves the locks alone as well.
LEMMA PlainStep ==
  ASSUME PInv, ProcessesAssumption, NEW t \in Thread, NEW v,
         t \notin finished, ~ NotYet(pc[t]), ~ Making(pc[t]), ~ Managing(pc[t]),
         ~ NotYet(v), ~ Making(v), ~ Managing(v), ~ Awaking(v), Checked(v) => v[2] \in Pid,
         ~ Joining(pc[t]) \/ (Joining(v) /\ v[2] = pc[t][2]),
         pc' = [pc EXCEPT ![t] = v], UNCHANGED <<monitorVars, tableVars, pid, finished>>,
         status' \in [Thread -> {-1, 1, 3}]
  PROVE  PInv'
<1>1. TypeOK'
  BY Zenon DEF PInv, TypeOK, MonitorTypeOK, monitorVars, tableVars
<1>2. held' = held
  BY Zenon DEF monitorVars
<1>3. held[pmLock] # t
  BY HoldsNone, Zenon
<1>4. \A l \in Thread \ freed : held[l] = t => Joining(v) /\ locks[v[2]] = l
  BY Zenon DEF PInv, HoldersKnown
<1> QED
  BY <1>1, <1>2, <1>3, <1>4, CallStep, Zenon

\* The places that the steps of a call lead to.
LEMMA CallPlaces ==
  ASSUME NEW a, NEW b
  PROVE  /\ \A v \in {<<>>, <<"status", a, b>>, <<"delete space">>} :
              ~ NotYet(v) /\ ~ Making(v) /\ ~ Managing(v) /\ ~ Joining(v) /\ ~ Awaking(v) /\ ~ Checked(v)
         /\ \A v \in {<<"read", a, b>>, <<"join", a>>} :
              /\ ~ NotYet(v) /\ ~ Making(v) /\ ~ Managing(v) /\ ~ Joining(v) /\ ~ Awaking(v)
              /\ v[2] = a
         /\ \A v \in {<<"join test", a>>, <<"join wait", a>>} :
              /\ ~ NotYet(v) /\ ~ Making(v) /\ ~ Managing(v) /\ Joining(v) /\ ~ Awaking(v)
              /\ v[2] = a
         /\ \A v \in {<<"broadcast">>, <<"clear">>} :
              ~ NotYet(v) /\ ~ Making(v) /\ Managing(v) /\ ~ Joining(v) /\ ~ Awaking(v) /\ ~ Checked(v)
BY DEF Making, Managing, Joining, Awaking, Checked, NotYet

\* ... with pmLock held, and into Wait.
LEMMA LockPlaces ==
  ASSUME NEW a, NEW b
  PROVE  /\ LET v == <<"join lock", a>>
            IN ~ NotYet(v) /\ ~ Making(v) /\ Managing(v) /\ ~ Awaking(v) /\ v[2] = a
         /\ LET v == <<"woken", a, b>>
            IN /\ ~ NotYet(v) /\ ~ Making(v) /\ ~ Managing(v) /\ ~ Joining(v) /\ Awaking(v)
               /\ v[2] = a /\ v[3] = b
BY Zenon DEF Making, Managing, Joining, Awaking, Checked, NotYet

\* A process between its calls.
LEMMA IdleFacts ==
  ASSUME PInv, NEW t \in Thread, pc[t] = <<>>
  PROVE  /\ t \notin finished /\ ~ NotYet(pc[t]) /\ ~ Making(pc[t]) /\ ~ Managing(pc[t])
         /\ ~ Joining(pc[t]) /\ Entered(t)
<1>1. t \notin finished
  BY DEF PInv, PlacesKnown
<1> QED
  BY <1>1, CallPlaces, Zenon DEF Entered

\* myJoin's first step.
LEMMA CallJoinStep ==
  ASSUME PInv, ProcessesAssumption, NEW t \in Thread, NEW p, CallJoin(t, p) PROVE PInv'
<1>1. status' \in [Thread -> {-1, 1, 3}]
  BY Zenon DEF CallJoin, PInv, TypeOK
<1>2. /\ pc[t] = <<>> /\ pc' = [pc EXCEPT ![t] = <<"status", p, "first">>]
      /\ UNCHANGED <<monitorVars, tableVars, pid, finished>>
  BY Zenon DEF CallJoin, Goto, tableVars, monitorVars
<1> QED
  BY <1>1, <1>2, IdleFacts, CallPlaces, PlainStep, Zenon

\* The return of getStatus to myJoin.
LEMMA StatusReturnsStep ==
  ASSUME PInv, ProcessesAssumption, NEW t \in Thread, pc[t] # <<>>,
         pc[t][1] \in {"status", "read"}, NEW r, StatusReturns(t, r),
         r < 0 \/ pc[t][2] \in Pid, UNCHANGED <<monitorVars, tableVars, status, pid, finished>>
  PROVE  PInv'
<1>1. status' \in [Thread -> {-1, 1, 3}]
  BY Zenon DEF PInv, TypeOK
<1>2. /\ t \notin finished /\ ~ NotYet(pc[t]) /\ ~ Making(pc[t]) /\ ~ Managing(pc[t])
      /\ ~ Joining(pc[t])
  BY InCallFacts, Zenon
<1>3. PICK v : /\ pc' = [pc EXCEPT ![t] = v]
               /\ \/ v \in {<<>>, <<"status", pc[t][2], "last">>}
                  \/ v = <<"join", pc[t][2]>> /\ pc[t][2] \in Pid
  BY Zenon DEF StatusReturns, Goto
<1>4. /\ ~ NotYet(v) /\ ~ Making(v) /\ ~ Managing(v) /\ ~ Joining(v) /\ ~ Awaking(v)
      /\ Checked(v) => v[2] \in Pid
  <2>1. CASE v \in {<<>>, <<"status", pc[t][2], "last">>}
    BY <2>1, Places, Zenon DEF Plain
  <2>2. CASE v = <<"join", pc[t][2]>> /\ pc[t][2] \in Pid
    BY <2>2, CallPlaces, Zenon
  <2> QED
    BY <1>3, <2>1, <2>2, Zenon
<1> QED
  BY <1>1, <1>2, <1>3, <1>4, PlainStep, Zenon DEF monitorVars, tableVars

\* ProcessManager::getStatus under pmLock.
LEMMA GetStatusStep ==
  ASSUME PInv, ProcessesAssumption, NEW t \in Thread, GetStatus(t) PROVE PInv'
<1>1. pc[t] # <<>> /\ pc[t][1] = "status"
  BY Zenon DEF GetStatus, At
<1> DEFINE p == pc[t][2]
<1>2. CASE Crash("range")
  BY <1>2, StoppedStep, Zenon DEF Crash
<1>3. ASSUME p \in marked, Goto(t, <<"read", p, pc[t][3]>>),
             UNCHANGED <<monitorVars, tableVars, status, pid, finished, crashed>>
      PROVE  PInv'
  <2>1. status' \in [Thread -> {-1, 1, 3}] /\ p \in Pid
    BY <1>3, Zenon DEF PInv, TypeOK
  <2>2. pc' = [pc EXCEPT ![t] = <<"read", p, pc[t][3]>>]
    BY <1>3, Zenon DEF Goto
  <2>3. /\ t \notin finished /\ ~ NotYet(pc[t]) /\ ~ Making(pc[t]) /\ ~ Managing(pc[t])
        /\ ~ Joining(pc[t])
    BY <1>1, InCallFacts, Zenon
  <2> QED
    BY <1>3, <2>1, <2>2, <2>3, CallPlaces, PlainStep, ZenonT(60) DEF monitorVars, tableVars
<1>4. ASSUME StatusReturns(t, -1),
             UNCHANGED <<monitorVars, tableVars, status, pid, finished, crashed>>
      PROVE  PInv'
  BY <1>1, <1>4, StatusReturnsStep
<1> QED
  BY <1>2, <1>3, <1>4, Zenon DEF GetStatus

\* ... and the read after it.
LEMMA ReadStatusStep ==
  ASSUME PInv, ProcessesAssumption, NEW t \in Thread, ReadStatus(t) PROVE PInv'
<1>1. pc[t] # <<>> /\ pc[t][1] = "read"
  BY Zenon DEF ReadStatus, At
<1>2. pc[t][2] \in Pid
  BY <1>1, InCallFacts, Zenon
<1>3. CASE Crash("status")
  BY <1>3, StoppedStep, Zenon DEF Crash
<1>4. ASSUME NEW r, StatusReturns(t, r),
             UNCHANGED <<monitorVars, tableVars, status, pid, finished, crashed>>
      PROVE  PInv'
  BY <1>1, <1>2, <1>4, StatusReturnsStep, Zenon
<1> QED
  BY <1>3, <1>4, Zenon DEF ReadStatus

\* A step that takes pmLock and keeps it.
LEMMA ManagerStep ==
  ASSUME PInv, ProcessesAssumption, NEW t \in Thread, NEW v,
         t \notin finished, ~ NotYet(pc[t]), ~ Making(pc[t]), ~ Joining(pc[t]),
         ~ NotYet(v), ~ Making(v), Managing(v), ~ Awaking(v), Checked(v) => v[2] \in Pid,
         pc' = [pc EXCEPT ![t] = v], Acquire(t, pmLock),
         UNCHANGED <<tableVars, status, pid, finished>>
  PROVE  PInv'
<1>1. held' = [held EXCEPT ![pmLock] = t] /\ UNCHANGED <<waiting, value>>
  BY Zenon DEF Acquire
<1>2. TypeOK'
  BY <1>1, Zenon DEF PInv, TypeOK, MonitorTypeOK, tableVars
<1>3. /\ \A x \in Thread \ {t}, l \in Lock : held'[l] = x => held[l] = x
      /\ \A l \in Thread : held'[l] = held[l]
  BY <1>1, Zenon DEF PInv, TypeOK, MonitorTypeOK, ProcessesAssumption
<1>4. \A l \in Thread \ freed : held[l] # t
  BY HoldsNone, Zenon
<1> QED
  BY <1>2, <1>3, <1>4, CallStep, Zenon

\* ProcessManager::join up to the lock of the process.
LEMMA JoinStartStep ==
  ASSUME PInv, ProcessesAssumption, NEW t \in Thread, JoinStart(t) PROVE PInv'
<1>1. pc[t] # <<>> /\ pc[t][1] = "join"
  BY Zenon DEF JoinStart, At
<1> DEFINE p == pc[t][2]
<1>2. /\ t \notin finished /\ ~ NotYet(pc[t]) /\ ~ Making(pc[t]) /\ ~ Managing(pc[t])
      /\ ~ Joining(pc[t]) /\ p \in Pid
  BY <1>1, InCallFacts, Zenon
<1>3. ASSUME Joined(t, p), UNCHANGED <<monitorVars, tableVars, pid, finished, crashed>>
      PROVE  PInv'
  <2>1. status' \in [Thread -> {-1, 1, 3}] /\ pc' = [pc EXCEPT ![t] = <<"status", p, "last">>]
    BY <1>3, Zenon DEF PInv, TypeOK, Joined, Goto
  <2> QED
    BY <1>2, <1>3, <2>1, CallPlaces, PlainStep, ZenonT(60) DEF monitorVars, tableVars
<1>4. ASSUME Acquire(t, pmLock), Goto(t, <<"join lock", p>>),
             UNCHANGED <<tableVars, status, pid, finished, crashed>>
      PROVE  PInv'
  <2>1. pc' = [pc EXCEPT ![t] = <<"join lock", p>>]
    BY <1>4, Zenon DEF Goto
  <2> QED
    BY <1>2, <1>4, <2>1, LockPlaces, ManagerStep, ZenonT(60) DEF tableVars
<1> QED
  BY <1>3, <1>4, Zenon DEF JoinStart

\* locks[pid]->Acquire() and pmLock->Release().
LEMMA JoinLockStep ==
  ASSUME PInv, ProcessesAssumption, NEW t \in Thread, JoinLock(t) PROVE PInv'
<1>1. pc[t] # <<>> /\ pc[t][1] = "join lock"
  BY Zenon DEF JoinLock, At
<1> DEFINE p == pc[t][2]
<1>2. /\ t \notin finished /\ ~ NotYet(pc[t]) /\ ~ Making(pc[t]) /\ ~ Joining(pc[t]) /\ p \in Pid
  BY <1>1, InCallFacts, Zenon
<1>3. CASE Crash("join")
  BY <1>3, StoppedStep, Zenon DEF Crash
<1>4. ASSUME locks[p] \in Thread,
             held' = [held EXCEPT ![locks[p]] = t, ![pmLock] = NoThread],
             Goto(t, <<"join test", p>>),
             UNCHANGED <<waiting, value, tableVars, status, pid, finished, crashed>>
      PROVE  PInv'
  <2>1. pc' = [pc EXCEPT ![t] = <<"join test", p>>]
    BY <1>4, Zenon DEF Goto
  <2>2. TypeOK'
    BY <1>4, Zenon DEF PInv, TypeOK, MonitorTypeOK, tableVars, ProcessesAssumption
  <2>3. /\ held'[pmLock] = NoThread /\ held'[locks[p]] = t
        /\ \A l \in Lock \ {pmLock, locks[p]} : held'[l] = held[l]
    BY <1>4, Zenon DEF PInv, TypeOK, MonitorTypeOK, ProcessesAssumption
  <2>4. /\ \A x \in Thread \ {t}, l \in Lock : held'[l] = x => held[l] = x
        /\ held'[pmLock] # t
    BY <2>3, Zenon DEF ProcessesAssumption
  <2>5. \A l \in Thread \ freed : held'[l] = t => l = locks[p]
    <3>1. \A l \in Thread \ freed : held[l] # t
      BY <1>2, HoldsNone, Zenon
    <3> QED
      BY <2>3, <3>1, Zenon DEF ProcessesAssumption
  <2>6. PICK v : v = <<"join test", p>>
    BY Zenon
  <2>7. ~ NotYet(v) /\ ~ Making(v) /\ Joining(v) /\ ~ Awaking(v) /\ v[2] = p
    BY <2>6, CallPlaces, Zenon
  <2>8. pc' = [pc EXCEPT ![t] = v]
    BY <2>1, <2>6, Zenon
  <2> QED
    BY <1>2, <1>4, <2>2, <2>4, <2>5, <2>7, <2>8, CallStep, ZenonT(60) DEF tableVars
<1> QED
  BY <1>3, <1>4, Zenon DEF JoinLock

\* Lock::Release of any lock: what t holds then.
LEMMA FreedLocks ==
  ASSUME TypeOK, NEW t \in Thread, NEW k, held' = FreedBy(t, k), ProcessesAssumption
  PROVE  /\ held' \in [Lock -> Thread \cup {NoThread}]
         /\ \A l \in Lock : held'[l] = held[l] \/ held'[l] = NoThread
         /\ \A l \in Lock : held'[l] = t => held[l] = t /\ l # k
BY ZenonT(60) DEF TypeOK, MonitorTypeOK, FreedBy, ProcessesAssumption

\* A step that gives back the lock of the process that t joins.
LEMMA UnlockStep ==
  ASSUME PInv, ProcessesAssumption, NEW t \in Thread, NEW v,
         t \notin finished, ~ NotYet(pc[t]), ~ Making(pc[t]), ~ Managing(pc[t]),
         ~ NotYet(v), ~ Making(v), ~ Managing(v), Checked(v) => v[2] \in Pid,
         Awaking(v) => v[3] \in Thread /\ (v[3] \notin freed => locks[v[2]] = v[3]),
         pc' = [pc EXCEPT ![t] = v], held' = FreedBy(t, locks[pc[t][2]]),
         waiting' \in [Condition -> Seq(Thread)], status' \in [Thread -> {-1, 1, 3}],
         UNCHANGED <<value, tableVars, pid, finished>>
  PROVE  PInv'
<1>1. /\ held' \in [Lock -> Thread \cup {NoThread}]
      /\ \A l \in Lock : held'[l] = held[l] \/ held'[l] = NoThread
      /\ \A l \in Lock : held'[l] = t => held[l] = t /\ l # locks[pc[t][2]]
  BY FreedLocks DEF PInv
<1>2. TypeOK'
  BY <1>1, ZenonT(60) DEF PInv, TypeOK, MonitorTypeOK, tableVars
<1>3. \A x \in Thread \ {t}, l \in Lock : held'[l] = x => held[l] = x
  BY <1>1, Zenon DEF ProcessesAssumption
<1>4. held'[pmLock] # t
  BY <1>1, HoldsNone, Zenon DEF ProcessesAssumption
<1>5. \A l \in Thread \ freed : held'[l] # t
  BY <1>1 DEF PInv, HoldersKnown, ProcessesAssumption
<1> QED
  BY <1>2, <1>3, <1>4, <1>5, CallStep, ZenonT(60)

\* The loop of join.
LEMMA JoinTestStep ==
  ASSUME PInv, ProcessesAssumption, NEW t \in Thread, JoinTest(t) PROVE PInv'
<1>1. pc[t] # <<>> /\ pc[t][1] = "join test"
  BY Zenon DEF JoinTest, At
<1> DEFINE p == pc[t][2]
<1>2. /\ t \notin finished /\ ~ NotYet(pc[t]) /\ ~ Making(pc[t]) /\ ~ Managing(pc[t])
      /\ Joining(pc[t]) /\ p \in Pid
  BY <1>1, InCallFacts, Zenon
<1>3. CASE Crash("join")
  BY <1>3, StoppedStep, Zenon DEF Crash
<1>4. ASSUME JoinUnlock(t, p), Joined(t, p), UNCHANGED <<tableVars, pid, finished, crashed>>
      PROVE  PInv'
  <2>1. /\ status' \in [Thread -> {-1, 1, 3}] /\ waiting' \in [Condition -> Seq(Thread)]
        /\ held' = FreedBy(t, locks[p]) /\ UNCHANGED value
    BY <1>4, Zenon DEF PInv, TypeOK, MonitorTypeOK, Joined, JoinUnlock, Release
  <2>2. PICK v : v = <<"status", p, "last">>
    BY Zenon
  <2>3. ~ NotYet(v) /\ ~ Making(v) /\ ~ Managing(v) /\ ~ Awaking(v) /\ ~ Checked(v)
    BY <2>2, Places, Zenon DEF Plain
  <2>4. pc' = [pc EXCEPT ![t] = v]
    BY <1>4, <2>2, Zenon DEF Joined, Goto
  <2> QED
    BY <1>2, <1>4, <2>1, <2>3, <2>4, UnlockStep, ZenonT(60) DEF tableVars
<1>5. ASSUME Goto(t, <<"join wait", p>>), UNCHANGED <<monitorVars, status>>,
             UNCHANGED <<tableVars, pid, finished, crashed>>
      PROVE  PInv'
  <2>1. status' \in [Thread -> {-1, 1, 3}]
    BY <1>5, Zenon DEF PInv, TypeOK
  <2>2. PICK v : v = <<"join wait", p>>
    BY Zenon
  <2>3. ~ NotYet(v) /\ ~ Making(v) /\ ~ Managing(v) /\ Joining(v) /\ ~ Awaking(v) /\ v[2] = p
    BY <2>2, CallPlaces, Zenon
  <2>4. pc' = [pc EXCEPT ![t] = v]
    BY <1>5, <2>2, Zenon DEF Goto
  <2> QED
    BY <1>2, <1>5, <2>1, <2>3, <2>4, PlainStep, ZenonT(60) DEF tableVars, monitorVars
<1> QED
  BY <1>3, <1>4, <1>5, Zenon DEF JoinTest

\* Condition::Wait, and its immediate return to a caller that does not hold the lock.
LEMMA JoinWaitStep ==
  ASSUME PInv, ProcessesAssumption, NEW t \in Thread, JoinWait(t) PROVE PInv'
<1>1. pc[t] # <<>> /\ pc[t][1] = "join wait"
  BY Zenon DEF JoinWait, At
<1> DEFINE p == pc[t][2]
<1>2. /\ t \notin finished /\ ~ NotYet(pc[t]) /\ ~ Making(pc[t]) /\ ~ Managing(pc[t])
      /\ Joining(pc[t]) /\ p \in Pid
  BY <1>1, InCallFacts, Zenon
<1>3. CASE Crash("join")
  BY <1>3, StoppedStep, Zenon DEF Crash
<1>4. ASSUME locks[p] \in Thread, Wait(t, locks[p], locks[p]),
             Goto(t, <<"woken", p, locks[p]>>),
             UNCHANGED <<tableVars, status, pid, finished, crashed>>
      PROVE  PInv'
  <2>1. waiting' \in [Condition -> Seq(Thread)]
    BY <1>4 DEF PInv, TypeOK, MonitorTypeOK, Wait, ProcessesAssumption
  <2>2. /\ status' \in [Thread -> {-1, 1, 3}]
        /\ held' = FreedBy(t, locks[p]) /\ UNCHANGED value
    BY <1>4, Zenon DEF PInv, TypeOK, MonitorTypeOK, Wait
  <2>3. PICK v : v = <<"woken", p, locks[p]>>
    BY Zenon
  <2>4. /\ ~ NotYet(v) /\ ~ Making(v) /\ ~ Managing(v) /\ Awaking(v)
        /\ v[2] = p /\ v[3] = locks[p]
    BY <2>3, LockPlaces, Zenon
  <2>5. pc' = [pc EXCEPT ![t] = v]
    BY <1>4, <2>3, Zenon DEF Goto
  <2> QED
    BY <1>2, <1>4, <2>1, <2>2, <2>4, <2>5, UnlockStep, ZenonT(60) DEF tableVars
<1>5. ASSUME Goto(t, <<"join test", p>>), UNCHANGED monitorVars,
             UNCHANGED <<tableVars, status, pid, finished, crashed>>
      PROVE  PInv'
  <2>1. status' \in [Thread -> {-1, 1, 3}]
    BY <1>5, Zenon DEF PInv, TypeOK
  <2>2. PICK v : v = <<"join test", p>>
    BY Zenon
  <2>3. ~ NotYet(v) /\ ~ Making(v) /\ ~ Managing(v) /\ Joining(v) /\ ~ Awaking(v) /\ v[2] = p
    BY <2>2, CallPlaces, Zenon
  <2>4. pc' = [pc EXCEPT ![t] = v]
    BY <1>5, <2>2, Zenon DEF Goto
  <2> QED
    BY <1>2, <1>5, <2>1, <2>3, <2>4, PlainStep, ZenonT(60) DEF tableVars, monitorVars
<1> QED
  BY <1>3, <1>4, <1>5, Zenon DEF JoinWait

\* The end of Wait: the lock again, or a lock that has been deleted.
LEMMA JoinWokenStep ==
  ASSUME PInv, ProcessesAssumption, NEW t \in Thread, JoinWoken(t) PROVE PInv'
<1>1. pc[t] # <<>> /\ pc[t][1] = "woken"
  BY Zenon DEF JoinWoken, At
<1> DEFINE p == pc[t][2]
           k == pc[t][3]
<1>2. /\ t \notin finished /\ ~ NotYet(pc[t]) /\ ~ Making(pc[t]) /\ ~ Managing(pc[t])
      /\ ~ Joining(pc[t]) /\ p \in Pid
  BY <1>1, InCallFacts, Zenon
<1>3. k \in Thread /\ (k \notin freed => locks[p] = k)
  BY <1>1, CallPlace, Zenon DEF PInv, HoldersKnown
<1>4. PICK v : v = <<"join test", p>>
  BY Zenon
<1>5. ~ NotYet(v) /\ ~ Making(v) /\ ~ Managing(v) /\ Joining(v) /\ ~ Awaking(v) /\ v[2] = p
  BY <1>4, CallPlaces, Zenon
<1>6. /\ pc' = [pc EXCEPT ![t] = v]
      /\ UNCHANGED <<tableVars, status, pid, finished, crashed>>
  BY <1>4, Zenon DEF JoinWoken, Goto
<1>7. CASE UNCHANGED monitorVars
  <2>1. status' \in [Thread -> {-1, 1, 3}]
    BY <1>6, Zenon DEF PInv, TypeOK
  <2> QED
    BY <1>2, <1>5, <1>6, <1>7, <2>1, PlainStep, ZenonT(60) DEF tableVars, monitorVars
<1>8. CASE k \notin freed /\ Acquire(t, k)
  <2>1. held' = [held EXCEPT ![k] = t] /\ UNCHANGED <<waiting, value>>
    BY <1>8, Zenon DEF Acquire
  <2>2. TypeOK'
    BY <1>3, <1>6, <2>1, ZenonT(60) DEF PInv, TypeOK, MonitorTypeOK, tableVars
  <2>3. /\ held'[k] = t /\ \A l \in Lock \ {k} : held'[l] = held[l]
        /\ k # pmLock /\ Thread \subseteq Lock /\ pmLock \in Lock
    BY <1>3, <2>1, Zenon DEF PInv, TypeOK, MonitorTypeOK, ProcessesAssumption
  <2>4. /\ held[pmLock] # t
        /\ \A l \in Thread \ freed : held[l] # t
    BY <1>2, HoldsNone, Zenon
  <2>5. /\ held'[pmLock] # t
        /\ \A x \in Thread \ {t}, l \in Lock : held'[l] = x => held[l] = x
        /\ \A l \in Thread \ freed : held'[l] = t => l = k
    BY <2>3, <2>4, Zenon
  <2> QED
    BY <1>2, <1>3, <1>5, <1>6, <1>8, <2>2, <2>5, CallStep, ZenonT(60) DEF tableVars
<1> QED
  BY <1>7, <1>8, Zenon DEF JoinWoken

\* Exit up to the wait for its own lock under pmLock, twice.
LEMMA ExitStep ==
  ASSUME PInv, ProcessesAssumption, NEW t \in Thread, CallExit(t) \/ StartClear(t) PROVE PInv'
<1>1. CASE CallExit(t)
  <2>1. /\ pc' = [pc EXCEPT ![t] = <<"broadcast">>] /\ Acquire(t, pmLock) /\ pc[t] = <<>>
        /\ UNCHANGED <<tableVars, status, pid, finished>>
    BY <1>1, Zenon DEF CallExit, Goto
  <2> QED
    BY <2>1, IdleFacts, CallPlaces, ManagerStep, ZenonT(60)
<1>2. CASE StartClear(t)
  <2>1. /\ pc' = [pc EXCEPT ![t] = <<"clear">>] /\ Acquire(t, pmLock)
        /\ pc[t] # <<>> /\ pc[t][1] = "delete space"
        /\ UNCHANGED <<tableVars, status, pid, finished>>
    BY <1>2, Zenon DEF StartClear, Goto, At
  <2>2. t \notin finished /\ ~ NotYet(pc[t]) /\ ~ Making(pc[t]) /\ ~ Joining(pc[t])
    BY <2>1, InCallFacts, Zenon
  <2> QED
    BY <2>1, <2>2, CallPlaces, ManagerStep, ZenonT(60)
<1> QED
  BY <1>1, <1>2, Zenon

\* ProcessManager::Broadcast: all joiners are woken and pmLock is given back.
LEMMA BroadcastStep ==
  ASSUME PInv, ProcessesAssumption, NEW t \in Thread, Broadcast(t) PROVE PInv'
<1>1. /\ pc[t] # <<>> /\ pc[t][1] = "broadcast"
      /\ waiting' = [waiting EXCEPT ![t] = <<>>]
      /\ held' = [held EXCEPT ![pmLock] = NoThread]
      /\ UNCHANGED <<value, tableVars, status, pid, finished, crashed>>
  BY Zenon DEF Broadcast, At
<1>2. t \notin finished /\ ~ NotYet(pc[t]) /\ ~ Making(pc[t]) /\ ~ Joining(pc[t])
  BY <1>1, InCallFacts, Zenon
<1>3. PICK v : v = <<"delete space">>
  BY Zenon
<1>4. /\ ~ NotYet(v) /\ ~ Making(v) /\ ~ Awaking(v) /\ ~ Checked(v)
  BY <1>3, Places, Zenon DEF Plain
<1>5. pc' = [pc EXCEPT ![t] = v]
  BY <1>3, Zenon DEF Broadcast, Goto
<1>6. waiting' \in [Condition -> Seq(Thread)] /\ held' \in [Lock -> Thread \cup {NoThread}]
  <2>1. <<>> \in Seq(Thread) /\ NoThread \in Thread \cup {NoThread}
    OBVIOUS
  <2>2. waiting \in [Condition -> Seq(Thread)] /\ held \in [Lock -> Thread \cup {NoThread}]
    BY Zenon DEF PInv, TypeOK, MonitorTypeOK
  <2> QED
    BY <1>1, <2>1, <2>2, ZenonT(60)
<1>7. TypeOK'
  BY <1>1, <1>6, ZenonT(60) DEF PInv, TypeOK, MonitorTypeOK, tableVars
<1>8. /\ held'[pmLock] = NoThread /\ \A l \in Thread : held'[l] = held[l]
      /\ Lock = Thread \cup {pmLock} /\ NoThread \notin Thread
  BY <1>1, Zenon DEF PInv, TypeOK, MonitorTypeOK, ProcessesAssumption
<1>9. \A l \in Thread \ freed : held[l] # t
  BY <1>2, HoldsNone, Zenon
<1>10. /\ held'[pmLock] # t
       /\ \A x \in Thread \ {t}, l \in Lock : held'[l] = x => held[l] = x
       /\ \A l \in Thread \ freed : held'[l] # t
  BY <1>8, <1>9, Zenon
<1> QED
  BY <1>1, <1>2, <1>4, <1>5, <1>7, <1>10, CallStep, ZenonT(60) DEF tableVars

--------------------------------------------------------------------------------

\* getPID's search: an id that is clear, if there is one.
LEMMA FirstClearIs ==
  ASSUME ProcessesAssumption, NEW used
  PROVE  /\ FirstClear(used) = NoPid <=> Pid \subseteq used
         /\ FirstClear(used) # NoPid => FirstClear(used) \in Pid \ used
<1>1. Pid \subseteq Nat /\ NoPid \notin Pid
  BY DEF Pid, NoPid, ProcessesAssumption
<1>2. CASE Pid \subseteq used
  BY <1>2, Zenon DEF FirstClear
<1>3. CASE ~ (Pid \subseteq used)
  <2> DEFINE S == Pid \ used
  <2>1. S \subseteq Nat /\ S # {}
    BY <1>1, <1>3, Zenon
  <2>2. \E m \in S : \A j \in S : ~ (<<j, m>> \in OpToRel(<, Nat))
    <3> HIDE DEF S
    <3> QED
      BY <2>1, NatLessThanWellFounded, WFMin, Zenon
  <2>3. \A i, j \in Nat : <<i, j>> \in OpToRel(<, Nat) <=> i < j
    BY Zenon DEF OpToRel
  <2>4. PICK m \in S : \A j \in S : ~ (<<j, m>> \in OpToRel(<, Nat))
    BY <2>2, Zenon
  <2>5. \A j \in S : m <= j
    <3> HIDE DEF S
    <3>1. \A j \in S : ~ (j < m) /\ j \in Nat /\ m \in Nat
      BY <2>1, <2>3, <2>4, Zenon
    <3> QED
      BY <3>1
  <2>6. FirstClear(used) = CHOOSE p \in S : \A q \in S : p <= q
    BY <1>3, Zenon DEF FirstClear
  <2>7. FirstClear(used) \in S
    <3> HIDE DEF S
    <3> QED
      BY <2>4, <2>5, <2>6, Zenon
  <2> QED
    BY <1>1, <1>3, <2>7, Zenon
<1> QED
  BY <1>2, <1>3, Zenon

\* What the places of a maker are.
LEMMA MakerPlaces ==
  ASSUME NEW u, NEW p
  PROVE  /\ LET v == <<"insert", u>>
            IN Making(v) /\ Inserting(v) /\ ~ EnteringSpace(v) /\ v[2] = u
         /\ LET v == <<"space", u, p>>
            IN Making(v) /\ ~ Inserting(v) /\ EnteringSpace(v) /\ v[2] = u /\ v[3] = p
         /\ LET v == <<"exec", u>>
            IN Making(v) /\ ~ Inserting(v) /\ ~ EnteringSpace(v) /\ v[2] = u
BY Zenon DEF Making, Inserting, EnteringSpace

\* A maker is in no call that takes a lock, nor is the process it makes.
LEMMA MakingFacts ==
  ASSUME NEW v, Making(v)
  PROVE  /\ ~ NotYet(v) /\ ~ Managing(v) /\ ~ Joining(v) /\ ~ Awaking(v) /\ ~ Checked(v)
         /\ v # <<>> /\ v # <<"finished">> /\ v # <<"starting">> /\ v # <<"unborn">>
<1>1. v # <<>> /\ v[1] \in {"insert", "space", "exec"}
  BY Zenon DEF Making
<1>2. ~ NotYet(v)
  BY MakersAre, Zenon
<1>3. <<"finished">>[1] = "finished"
  BY Zenon
<1>4. v # <<"finished">>
  BY <1>1, <1>3, Zenon
<1>5. ~ Managing(v) /\ ~ Joining(v) /\ ~ Awaking(v) /\ ~ Checked(v)
  BY <1>1, Zenon DEF Managing, Joining, Awaking, Checked
<1> QED
  BY <1>1, <1>2, <1>4, <1>5, Zenon DEF NotYet

\* A process that has not started holds no lock and is in no call.
LEMMA NotYetFacts ==
  ASSUME NEW v, NotYet(v)
  PROVE  /\ Plain(v) /\ v # <<>> /\ v # <<"finished">>
<1>1. v = <<"unborn">> \/ v = <<"starting">>
  BY Zenon DEF NotYet
<1>2. Plain(v)
  BY <1>1, Places, Zenon
<1>3. v[1] \in {"unborn", "starting"} /\ <<"finished">>[1] = "finished"
  BY NotYetIs, Zenon
<1>4. v # <<"finished">>
  BY <1>3, Zenon
<1>5. v # <<>>
  BY <1>1
<1> QED
  BY <1>2, <1>4, <1>5, Zenon

\* t takes ids for u, which it makes: q is the one u gets, if it gets it now.
LEMMA MakerStep ==
  ASSUME PInv, ProcessesAssumption, NEW t \in Thread, NEW u \in Thread, t # u, NEW v,
         Making(v), v[2] = u, t \notin finished, ~ NotYet(pc[t]), NotYet(pc[u]),
         Plain(pc[t]) \/ Making(pc[t]),
         \A x \in Thread \ {t} : Making(pc[x]) => pc[x][2] # u,
         DOMAIN pc' = Thread, pc'[t] = v, pc'[u] = <<"starting">>,
         \A x \in Thread \ {t, u} : pc'[x] = pc[x],
         marked \subseteq marked', marked' \subseteq Pid,
         \/ pid' = pid /\ ~ Inserting(v)
         \/ /\ ~ EnteringSpace(v)
            /\ \E q \in marked' \ marked : pid' = [pid EXCEPT ![u] = q],
         EnteringSpace(v) => v[3] \in marked' \ marked,
         UNCHANGED <<monitorVars, pcbs, locks, freed, status, finished>>
  PROVE  PInv'
<1>1. UNCHANGED <<held, waiting, value, pcbs, locks, freed, status, finished>>
  BY Zenon DEF monitorVars
<1>2. /\ pid' \in [Thread -> Pid \cup {NoPid}]
      /\ \A x \in Thread \ {u} : pid'[x] = pid[x]
      /\ pid'[u] = pid[u] \/ (pid'[u] \in marked' \ marked /\ ~ EnteringSpace(v))
      /\ Inserting(v) => pid'[u] \in Pid
  BY DEF PInv, TypeOK
<1>3. TypeOK'
  BY <1>1, <1>2, ZenonT(60) DEF PInv, TypeOK, MonitorTypeOK
<1>4. Plain(pc[u]) /\ u \notin finished /\ pc[u] # <<>>
  BY NotYetFacts, Zenon DEF PInv, PlacesKnown
<1>5. Plain(pc'[u]) /\ NotYet(pc'[u])
  BY Places, Zenon DEF NotYet
<1>6. /\ ~ NotYet(v) /\ ~ Managing(v) /\ ~ Joining(v) /\ ~ Awaking(v) /\ ~ Checked(v)
  BY MakingFacts, Zenon
<1>7. /\ ~ Managing(pc[t]) /\ ~ Joining(pc[t]) /\ ~ Awaking(pc[t]) /\ ~ Checked(pc[t])
  BY MakingFacts, Zenon DEF Plain
<1>8. \A x \in Thread : Entered(x)' <=> Entered(x)
  BY <1>1, <1>5, <1>6, Zenon DEF Entered
<1>9. PlacesKnown'
  BY <1>1, <1>4 DEF PInv, PlacesKnown, TypeOK
<1>10. OneMaker'
  <2>1. \A x \in Thread \ {t, u} : Making(pc[x]) => pc[x][2] \notin {t, u}
    BY Zenon DEF PInv, OneMaker, NotYet
  <2> SUFFICES ASSUME NEW x \in Thread, Making(pc'[x])
               PROVE  /\ pc'[x][2] \in Thread /\ pc'[pc'[x][2]] = <<"starting">>
                      /\ Inserting(pc'[x]) => pid'[pc'[x][2]] \in Pid
                      /\ \A y \in Thread \ {x} : Making(pc'[y]) => pc'[y][2] # pc'[x][2]
    BY Zenon DEF PInv, OneMaker
  <2>2. x # u
    BY <1>5, Zenon DEF Plain
  <2>3. CASE x = t
    <3>1. \A y \in Thread \ {t} : Making(pc'[y]) => y # u /\ pc'[y] = pc[y]
      BY <1>5, Zenon DEF Plain
    <3>2. \A y \in Thread \ {t} : Making(pc'[y]) => pc'[y][2] # u
      BY <2>1, <3>1
    <3> QED
      BY <1>2, <2>3, <3>2, Zenon
  <2>4. CASE x # t
    <3>1. pc'[x] = pc[x] /\ Making(pc[x]) /\ pc[x][2] \notin {t, u}
      BY <2>1, <2>2, <2>4, Zenon
    <3>2. pc[x][2] \in Thread /\ pc[pc[x][2]] = <<"starting">>
      BY <3>1, Zenon DEF PInv, OneMaker
    <3>3. pc'[pc[x][2]] = <<"starting">> /\ pid'[pc[x][2]] = pid[pc[x][2]]
      BY <1>2, <3>1, <3>2, Zenon
    <3>4. Inserting(pc[x]) => pid[pc[x][2]] \in Pid
      BY <3>1, Zenon DEF PInv, OneMaker
    <3>5. \A y \in Thread \ {x} : Making(pc'[y]) => pc'[y][2] # pc[x][2]
      <4> SUFFICES ASSUME NEW y \in Thread \ {x}, Making(pc'[y]) PROVE pc'[y][2] # pc[x][2]
        BY Zenon
      <4>1. y # u
        BY <1>5, Zenon DEF Plain
      <4>2. CASE y = t
        BY <3>1, <4>2, Zenon
      <4>3. CASE y # t
        BY <3>1, <4>1, <4>3 DEF PInv, OneMaker
      <4> QED
        BY <4>2, <4>3, Zenon
    <3> QED
      BY <3>1, <3>2, <3>3, <3>4, <3>5, Zenon
  <2> QED
    BY <2>3, <2>4, Zenon
<1>11. \A x \in Thread \ {t} : EnteringSpace(pc'[x]) => EnteringSpace(pc[x]) /\ pc'[x] = pc[x]
  BY <1>5, Zenon DEF Plain
<1>12. \A x \in Thread \ {t} : EnteringSpace(pc'[x]) => pc'[x][3] \in marked
  BY <1>11, Zenon DEF PInv, SpacesClaimed
<1>13. SpacesClaimed'
  BY <1>12, Zenon DEF PInv, SpacesClaimed
<1>14. IdsClaimed'
  <2>1. \A x \in Thread \ finished : pid[x] \in Pid => pid[x] \in marked
    BY Zenon DEF PInv, IdsClaimed
  <2> SUFFICES ASSUME NEW x \in Thread \ finished, pid'[x] \in Pid
               PROVE  /\ pid'[x] \in marked'
                      /\ \A y \in Thread \ finished : y # x => pid'[y] # pid'[x]
                      /\ \A y \in Thread : EnteringSpace(pc'[y]) => pc'[y][3] # pid'[x]
    BY <1>1, Zenon DEF PInv, IdsClaimed
  <2>2. pid'[x] \in marked'
    BY <1>2, <2>1, Zenon
  <2>3. ASSUME NEW y \in Thread \ finished, y # x, pid'[y] = pid'[x] PROVE FALSE
    <3>1. pid[y] = pid'[y] => pid[y] \in marked
      BY <2>1, <2>3, Zenon
    <3>2. pid[x] = pid'[x] => pid[x] \in marked
      BY <2>1, Zenon
    <3>3. ~ (pid[x] = pid'[x] /\ pid[y] = pid'[y])
      BY <2>3 DEF PInv, IdsClaimed
    <3> QED
      BY <1>2, <2>3, <3>1, <3>2, <3>3, Zenon
  <2>4. ASSUME NEW y \in Thread, EnteringSpace(pc'[y]), pc'[y][3] = pid'[x] PROVE FALSE
    <3>1. CASE y = t
      <4>1. EnteringSpace(v) /\ pid'[x] = v[3] /\ v[3] \notin marked
        BY <2>4, <3>1, Zenon
      <4>2. pid'[x] = pid[x]
        BY <1>2, <4>1, Zenon
      <4> QED
        BY <2>1, <4>1, <4>2, Zenon
    <3>2. CASE y # t
      <4>1. EnteringSpace(pc[y]) /\ pc[y][3] = pid'[x] /\ pc[y][3] \in marked
        BY <1>11, <1>12, <2>4, <3>2, Zenon
      <4>2. pid'[x] = pid[x]
        BY <1>2, <4>1, Zenon
      <4> QED
        BY <4>1, <4>2 DEF PInv, IdsClaimed
    <3> QED
      BY <3>1, <3>2, Zenon
  <2> QED
    BY <2>2, <2>3, <2>4, Zenon
<1>15. TablesAgree'
  <2>1. ~ Entered(u)
    BY Zenon DEF Entered
  <2>2. \A x \in Thread : Entered(x) => pid'[x] = pid[x]
    BY <1>2, <2>1, Zenon
  <2>3. \A x \in Thread : Entered(x)' => pid'[x] \in Pid /\ pcbs'[pid'[x]] = x /\ locks'[pid'[x]] = x
    BY <1>1, <1>8, <2>2 DEF PInv, TablesAgree
  <2>4. ASSUME NEW p \in Pid, locks'[p] \in Thread \ freed'
        PROVE  Entered(locks[p])' /\ pid'[locks'[p]] = p
    <3>1. PICK x \in Thread : x = locks[p] /\ x \notin freed
      BY <1>1, <2>4, Zenon
    <3>2. Entered(x) /\ pid[x] = p
      BY <3>1, Zenon DEF PInv, TablesAgree
    <3>3. Entered(x)' /\ pid'[x] = p
      BY <1>8, <2>2, <3>2, Zenon
    <3> QED
      BY <1>1, <3>1, <3>3, Zenon DEF Entered
  <2> QED
    BY <2>3, <2>4, Zenon DEF PInv, TablesAgree
<1>16. HoldersKnown' /\ JoinsInRange'
  <2>1. \A x \in Thread : Joining(pc[x]) \/ Managing(pc[x]) => pc'[x] = pc[x]
    BY <1>4, <1>7, Zenon DEF Plain
  <2>2. \A x \in Thread : Awaking(pc'[x]) \/ Checked(pc'[x]) => pc'[x] = pc[x]
    BY <1>5, <1>6, Zenon DEF Plain
  <2>3. JoinsInRange'
    BY <2>2, Zenon DEF PInv, JoinsInRange
  <2>4. HoldersKnown'
    BY <1>1, <2>1, <2>2 DEF PInv, HoldersKnown
  <2> QED
    BY <2>3, <2>4, Zenon
<1> QED
  BY <1>3, <1>9, <1>10, <1>13, <1>14, <1>15, <1>16, Zenon DEF PInv

\* The process that t makes, and its other makers.
LEMMA MadeFacts ==
  ASSUME PInv, NEW t \in Thread, Making(pc[t]), NEW u, pc[t][2] = u
  PROVE  /\ u \in Thread /\ t # u /\ pc[u] = <<"starting">> /\ NotYet(pc[u]) /\ ~ NotYet(pc[t])
         /\ t \notin finished /\ u \notin finished
         /\ \A x \in Thread \ {t} : Making(pc[x]) => pc[x][2] # u
<1>1. /\ u \in Thread /\ pc[u] = <<"starting">>
      /\ \A x \in Thread \ {t} : Making(pc[x]) => pc[x][2] # u
  BY Zenon DEF PInv, OneMaker
<1>2. NotYet(pc[u])
  BY <1>1, Zenon DEF NotYet
<1>3. ~ NotYet(pc[t]) /\ pc[t] # <<"finished">>
  BY MakingFacts, Zenon
<1>4. pc[u] # <<"finished">>
  BY <1>2, NotYetFacts, Zenon
<1> QED
  BY <1>1, <1>2, <1>3, <1>4, Zenon DEF PInv, PlacesKnown

\* A process that is unborn is not being made.
LEMMA UnbornFacts ==
  ASSUME PInv, NEW t \in Thread, pc[t] = <<>>, NEW u \in Thread, ~ Started(u)
  PROVE  /\ t # u /\ NotYet(pc[u]) /\ ~ NotYet(pc[t]) /\ Plain(pc[t]) /\ t \notin finished
         /\ \A x \in Thread \ {t} : Making(pc[x]) => pc[x][2] # u
<1>1. pc[u] = <<"unborn">>
  BY Zenon DEF Started
<1>2. NotYet(pc[u])
  BY <1>1, Zenon DEF NotYet
<1>3. t \notin finished /\ ~ NotYet(pc[t])
  BY IdleFacts, Zenon
<1>4. Plain(pc[t])
  BY Places, Zenon
<1>5. <<"unborn">> # <<"starting">>
  BY Zenon
<1>6. \A x \in Thread \ {t} : Making(pc[x]) => pc[x][2] # u
  BY <1>1, <1>5, Zenon DEF PInv, OneMaker
<1> QED
  BY <1>2, <1>3, <1>4, <1>6, Zenon

\* myFork takes one id, and the constructor of AddrSpace in myExec another.
LEMMA CallMakeStep ==
  ASSUME PInv, ProcessesAssumption, NEW t \in Thread, NEW u \in Thread,
         CallFork(t, u) \/ CallExec(t, u)
  PROVE  PInv'
<1> DEFINE p == FirstClear(marked)
<1>1. CASE p = NoPid
  BY <1>1, StoppedStep, Zenon DEF CallFork, CallExec, Crash
<1>2. CASE p # NoPid
  <2>1. p \in Pid \ marked
    BY <1>2, FirstClearIs, Zenon
  <2>2. pc[t] = <<>> /\ ~ Started(u) /\ marked' = marked \cup {p}
    BY <1>2, Zenon DEF CallFork, CallExec, Found
  <2>3. /\ t # u /\ NotYet(pc[u]) /\ ~ NotYet(pc[t]) /\ Plain(pc[t]) /\ t \notin finished
        /\ \A x \in Thread \ {t} : Making(pc[x]) => pc[x][2] # u
    BY <2>2, UnbornFacts, Zenon
  <2>4. marked \subseteq marked' /\ marked' \subseteq Pid /\ p \in marked' \ marked
    BY <2>1, <2>2, Zenon DEF PInv, TypeOK
  <2>5. /\ UNCHANGED <<monitorVars, pcbs, locks, freed, status, finished>>
    BY <1>2, Zenon DEF CallFork, CallExec
  <2>6. PICK v : /\ pc' = [pc EXCEPT ![t] = v, ![u] = <<"starting">>]
                 /\ \/ v = <<"insert", u>> /\ pid' = [pid EXCEPT ![u] = p]
                    \/ v = <<"space", u, p>> /\ pid' = pid
    BY <1>2, Zenon DEF CallFork, CallExec
  <2>7. /\ Making(v) /\ v[2] = u
        /\ \/ pid' = pid /\ ~ Inserting(v)
           \/ ~ EnteringSpace(v) /\ pid' = [pid EXCEPT ![u] = p]
        /\ EnteringSpace(v) => v[3] = p
    <3>1. CASE v = <<"insert", u>> /\ pid' = [pid EXCEPT ![u] = p]
      BY <3>1, MakerPlaces, Zenon
    <3>2. CASE v = <<"space", u, p>> /\ pid' = pid
      BY <3>2, MakerPlaces, Zenon
    <3> QED
      BY <2>6, <3>1, <3>2, Zenon
  <2>8. /\ DOMAIN pc' = Thread /\ pc'[t] = v /\ pc'[u] = <<"starting">>
        /\ \A x \in Thread \ {t, u} : pc'[x] = pc[x]
    BY <2>3, <2>6, Zenon DEF PInv, PlacesKnown
  <2> HIDE DEF p
  <2> QED
    BY <2>3, <2>4, <2>5, <2>7, <2>8, MakerStep, ZenonT(60)
<1> QED
  BY <1>1, <1>2, Zenon

\* myExec takes two more ids.
LEMMA ExecPidsStep ==
  ASSUME PInv, ProcessesAssumption, NEW t \in Thread, NEW u \in Thread, ExecPids(t, u)
  PROVE  PInv'
<1> DEFINE first == FirstClear(marked)
           second == FirstClear(marked \cup {first})
<1>1. CASE second = NoPid
  BY <1>1, StoppedStep, Zenon DEF ExecPids, Crash
<1>2. CASE second # NoPid
  <2>1. first # NoPid
    <3>1. ~ (Pid \subseteq marked \cup {first})
      BY <1>2, FirstClearIs, Zenon
    <3>2. ~ (Pid \subseteq marked)
      BY <3>1, Zenon
    <3> QED
      BY <3>2, FirstClearIs, Zenon
  <2>2. first \in Pid \ marked /\ second \in Pid \ (marked \cup {first})
    BY <1>2, <2>1, FirstClearIs, Zenon
  <2>3. /\ pc[t] # <<>> /\ pc[t][1] = "exec" /\ pc[t][2] = u
        /\ marked' = marked \cup {first, second} /\ pid' = [pid EXCEPT ![u] = second]
        /\ pc' = [pc EXCEPT ![t] = <<"insert", u>>]
        /\ UNCHANGED <<monitorVars, pcbs, locks, freed, status, finished>>
    BY <1>2, Zenon DEF ExecPids, At, Goto
  <2>4. Making(pc[t])
    BY <2>3, Zenon DEF Making
  <2>5. /\ t # u /\ pc[u] = <<"starting">> /\ NotYet(pc[u]) /\ ~ NotYet(pc[t])
        /\ t \notin finished /\ \A x \in Thread \ {t} : Making(pc[x]) => pc[x][2] # u
    BY <2>3, <2>4, MadeFacts, ZenonT(60)
  <2>6. marked \subseteq marked' /\ marked' \subseteq Pid /\ second \in marked' \ marked
    BY <2>2, <2>3, Zenon DEF PInv, TypeOK
  <2>7. PICK v : v = <<"insert", u>>
    BY Zenon
  <2>8. Making(v) /\ v[2] = u /\ ~ EnteringSpace(v)
    BY <2>7, MakerPlaces, Zenon
  <2>9. /\ DOMAIN pc' = Thread /\ pc'[t] = v /\ pc'[u] = <<"starting">>
        /\ \A x \in Thread \ {t, u} : pc'[x] = pc[x]
    BY <2>3, <2>5, <2>7, Zenon DEF PInv, PlacesKnown
  <2> HIDE DEF first, second
  <2> QED
    BY <2>3, <2>4, <2>5, <2>6, <2>8, <2>9, MakerStep, ZenonT(60)
<1> QED
  BY <1>1, <1>2, Zenon

\* An id that no process in the tables has leads to no lock that exists.
LEMMA NoLiveLock ==
  ASSUME PInv, NEW p \in Pid, \A x \in Thread : Entered(x) => pid[x] # p
  PROVE  locks[p] \notin Thread \ freed
BY Zenon DEF PInv, TablesAgree

\* insertProcess by t under such an id p, with the locks as they were.
LEMMA InsertedStep ==
  ASSUME PInv, ProcessesAssumption, NEW p \in Pid, \A x \in Thread : Entered(x) => pid[x] # p,
         NEW o \in Thread \cup {Ghost}, Insert(p, o),
         NEW t \in Thread, NEW u \in Thread, Making(pc[t]), NotYet(pc[u]),
         Making(pc'[t]) \/ Plain(pc'[t]), Plain(pc'[u]), DOMAIN pc' = Thread,
         \A x \in Thread \ {t, u} : pc'[x] = pc[x],
         UNCHANGED <<monitorVars, marked, status, pid, finished>>
  PROVE  /\ TypeOK' /\ HoldersKnown' /\ JoinsInRange'
         /\ pcbs'[p] = o /\ locks'[p] = o
         /\ \A q \in Pid \ {p} : pcbs'[q] = pcbs[q] /\ locks'[q] = locks[q]
         /\ UNCHANGED <<held, waiting, value, freed, marked, status, pid, finished>>
<1>1. UNCHANGED <<held, waiting, value, freed, marked, status, pid, finished>>
  BY Zenon DEF Insert, monitorVars
<1>2. /\ pcbs' = [pcbs EXCEPT ![p] = o] /\ locks' = [locks EXCEPT ![p] = o]
  BY Zenon DEF Insert
<1>3. /\ pcbs' \in [Pid -> Thread \cup {Ghost, NULL, Junk}]
      /\ locks' \in [Pid -> Thread \cup {Ghost, NULL, Junk}]
      /\ pcbs'[p] = o /\ locks'[p] = o
      /\ \A q \in Pid \ {p} : pcbs'[q] = pcbs[q] /\ locks'[q] = locks[q]
  BY <1>2, Zenon DEF PInv, TypeOK
<1>4. TypeOK'
  BY <1>1, <1>3, ZenonT(60) DEF PInv, TypeOK, MonitorTypeOK
<1>5. locks[p] \notin Thread \ freed
  BY NoLiveLock, Zenon
<1>6. Plain(pc[u]) /\ ~ Managing(pc[t]) /\ ~ Joining(pc[t])
  BY NotYetFacts, MakingFacts, Zenon
<1>7. ~ Awaking(pc'[t]) /\ ~ Checked(pc'[t]) /\ ~ Awaking(pc'[u]) /\ ~ Checked(pc'[u])
  BY MakingFacts, Zenon DEF Plain
<1>8. \A x \in Thread : Joining(pc[x]) \/ Managing(pc[x]) => pc'[x] = pc[x]
  BY <1>6, Zenon DEF Plain
<1>9. \A x \in Thread : Awaking(pc'[x]) \/ Checked(pc'[x]) => pc'[x] = pc[x]
  BY <1>7, Zenon
<1>10. JoinsInRange'
  BY <1>9, Zenon DEF PInv, JoinsInRange
<1>11. HoldersKnown'
  <2>1. \A x \in Thread : held'[pmLock] = x => Managing(pc'[x])
    BY <1>1, <1>8, Zenon DEF PInv, HoldersKnown
  <2>2. ASSUME NEW x \in Thread, NEW l \in Thread \ freed', held'[l] = x
        PROVE  Joining(pc'[x]) /\ locks'[pc'[x][2]] = l
    <3>1. Joining(pc[x]) /\ locks[pc[x][2]] = l /\ pc'[x] = pc[x]
      BY <1>1, <1>8, <2>2, Zenon DEF PInv, HoldersKnown
    <3>2. pc[x][2] \in Pid
      BY <3>1, Zenon DEF PInv, JoinsInRange, Joining, Checked
    <3>3. pc[x][2] # p
      BY <1>1, <1>5, <3>1, Zenon
    <3> QED
      BY <1>3, <3>1, <3>2, <3>3, Zenon
  <2>3. ASSUME NEW x \in Thread, Awaking(pc'[x])
        PROVE  pc'[x][3] \in Thread /\ (pc'[x][3] \notin freed' => locks'[pc'[x][2]] = pc'[x][3])
    <3>1. Awaking(pc[x]) /\ pc'[x] = pc[x]
      BY <1>9, <2>3, Zenon
    <3>2. pc[x][2] \in Pid
      BY <3>1, Zenon DEF PInv, JoinsInRange, Awaking, Checked
    <3>3. pc[x][3] \in Thread /\ (pc[x][3] \notin freed => locks[pc[x][2]] = pc[x][3])
      BY <3>1, Zenon DEF PInv, HoldersKnown
    <3>4. pc[x][3] \notin freed => pc[x][2] # p
      BY <1>5, <3>3, Zenon
    <3> QED
      BY <1>1, <1>3, <3>1, <3>2, <3>3, <3>4
  <2> QED
    BY <2>1, <2>2, <2>3, Zenon DEF PInv, HoldersKnown
<1> QED
  BY <1>1, <1>3, <1>4, <1>10, <1>11, Zenon

\* The constructor of AddrSpace enters a PCB that no process has.
LEMMA InsertSpaceStep ==
  ASSUME PInv, ProcessesAssumption, NEW t \in Thread, NEW u \in Thread, InsertSpace(t, u)
  PROVE  PInv'
<1> DEFINE p == pc[t][3]
<1>1. /\ pc[t] # <<>> /\ pc[t][1] = "space" /\ pc[t][2] = u /\ Insert(p, Ghost)
      /\ pc' = [pc EXCEPT ![t] = <<"exec", u>>]
      /\ UNCHANGED <<monitorVars, marked, status, pid, finished>>
  BY Zenon DEF InsertSpace, At, Goto
<1>2. Making(pc[t]) /\ EnteringSpace(pc[t])
  BY <1>1, Zenon DEF Making, EnteringSpace
<1>3. /\ t # u /\ pc[u] = <<"starting">> /\ NotYet(pc[u]) /\ ~ NotYet(pc[t])
      /\ t \notin finished /\ \A x \in Thread \ {t} : Making(pc[x]) => pc[x][2] # u
  BY <1>1, <1>2, MadeFacts, ZenonT(60)
<1>4. p \in Pid
  BY <1>2, Zenon DEF PInv, SpacesClaimed, TypeOK
<1>5. \A x \in Thread : Entered(x) => pid[x] # p
  BY <1>2, <1>4, Zenon DEF PInv, IdsClaimed, Entered
<1>6. PICK v : v = <<"exec", u>>
  BY Zenon
<1>7. Making(v) /\ v[2] = u /\ ~ EnteringSpace(v) /\ ~ Inserting(v)
  BY <1>6, MakerPlaces, Zenon
<1>8. /\ DOMAIN pc' = Thread /\ pc'[t] = v /\ \A x \in Thread \ {t} : pc'[x] = pc[x]
  BY <1>1, <1>6, Zenon DEF PInv, PlacesKnown
<1>9. Plain(pc'[u])
  BY <1>3, <1>8, Places, Zenon
<1> HIDE DEF p
<1>10. /\ TypeOK' /\ HoldersKnown' /\ JoinsInRange'
       /\ pcbs'[p] = Ghost /\ locks'[p] = Ghost
       /\ \A q \in Pid \ {p} : pcbs'[q] = pcbs[q] /\ locks'[q] = locks[q]
       /\ UNCHANGED <<held, waiting, value, freed, marked, status, pid, finished>>
  <2>1. Ghost \in Thread \cup {Ghost}
    BY Zenon
  <2> QED
    BY <1>1, <1>2, <1>3, <1>4, <1>5, <1>7, <1>8, <1>9, <2>1, InsertedStep, ZenonT(60)
<1>11. ~ NotYet(v)
  BY <1>7, MakersAre, Zenon
<1>12. \A x \in Thread : Entered(x)' <=> Entered(x)
  BY <1>3, <1>8, <1>10, <1>11, Zenon DEF Entered
<1>13. PlacesKnown'
  BY <1>3, <1>8, <1>10, Zenon DEF PInv, PlacesKnown, TypeOK
<1>14. OneMaker'
  <2>1. \A x \in Thread : Making(pc'[x]) => Making(pc[x]) /\ pc'[x][2] = pc[x][2]
    BY <1>1, <1>2, <1>7, <1>8, Zenon
  <2>2. \A x \in Thread : Inserting(pc'[x]) => Inserting(pc[x]) /\ Making(pc[x])
    BY <1>7, <1>8, MakersAre, Zenon
  <2>3. \A x \in Thread : pc[x] = <<"starting">> => pc'[x] = <<"starting">>
    BY <1>3, <1>8, Zenon DEF NotYet
  <2> QED
    BY <1>10, <2>1, <2>2, <2>3 DEF PInv, OneMaker
<1>15. IdsClaimed' /\ SpacesClaimed'
  <2>1. \A x \in Thread : EnteringSpace(pc'[x]) => EnteringSpace(pc[x]) /\ pc'[x] = pc[x]
    BY <1>7, <1>8, Zenon
  <2> QED
    BY <1>10, <2>1 DEF PInv, IdsClaimed, SpacesClaimed
<1>16. TablesAgree'
  <2>1. ASSUME NEW x \in Thread, Entered(x)'
        PROVE  pid'[x] \in Pid /\ pcbs'[pid'[x]] = x /\ locks'[pid'[x]] = x
    <3>1. Entered(x) /\ pid'[x] = pid[x] /\ pid[x] # p
      BY <1>5, <1>10, <1>12, <2>1, Zenon
    <3>2. pid[x] \in Pid /\ pcbs[pid[x]] = x /\ locks[pid[x]] = x
      BY <3>1, Zenon DEF PInv, TablesAgree
    <3> QED
      BY <1>10, <3>1, <3>2, Zenon
  <2>2. ASSUME NEW q \in Pid, locks'[q] \in Thread \ freed'
        PROVE  Entered(locks[q])' /\ pid'[locks'[q]] = q
    <3>1. q # p
      BY <1>10, <2>2, Zenon DEF ProcessesAssumption
    <3>2. PICK x \in Thread : x = locks[q] /\ x = locks'[q] /\ x \notin freed
      BY <1>10, <2>2, <3>1, Zenon
    <3>3. Entered(x) /\ pid[x] = q
      BY <3>2, Zenon DEF PInv, TablesAgree
    <3>4. Entered(x)' /\ pid'[x] = q
      BY <1>10, <1>12, <3>3, Zenon
    <3> QED
      BY <3>2, <3>4, Zenon DEF Entered
  <2> QED
    BY <2>1, <2>2, Zenon DEF TablesAgree
<1> QED
  BY <1>10, <1>13, <1>14, <1>15, <1>16, Zenon DEF PInv

\* insertProcess, after which the new process runs.
LEMMA InsertProcessStep ==
  ASSUME PInv, ProcessesAssumption, NEW t \in Thread, NEW u \in Thread, InsertProcess(t, u)
  PROVE  PInv'
<1> DEFINE p == pid[u]
<1>1. /\ pc[t] = <<"insert", u>> /\ Insert(p, u)
      /\ pc' = [pc EXCEPT ![t] = <<>>, ![u] = <<>>]
      /\ UNCHANGED <<monitorVars, marked, status, pid, finished>>
  BY Zenon DEF InsertProcess
<1>2. Making(pc[t]) /\ Inserting(pc[t]) /\ pc[t][2] = u
  BY <1>1, MakerPlaces, Zenon
<1>3. /\ t # u /\ pc[u] = <<"starting">> /\ NotYet(pc[u]) /\ ~ NotYet(pc[t])
      /\ t \notin finished /\ u \notin finished
      /\ \A x \in Thread \ {t} : Making(pc[x]) => pc[x][2] # u
  BY <1>2, MadeFacts, ZenonT(60)
<1>4. p \in Pid
  BY <1>2, Zenon DEF PInv, OneMaker
<1>5. \A x \in Thread : Entered(x) => pid[x] # p
  BY <1>3, <1>4, Zenon DEF PInv, IdsClaimed, Entered
<1>6. PICK v : v = <<>>
  BY Zenon
<1>7. Plain(v) /\ ~ NotYet(v)
  BY <1>6, Places, Zenon
<1>8. /\ DOMAIN pc' = Thread /\ pc'[t] = v /\ pc'[u] = v
      /\ \A x \in Thread \ {t, u} : pc'[x] = pc[x]
  BY <1>1, <1>3, <1>6, Zenon DEF PInv, PlacesKnown
<1> HIDE DEF p
<1>9. /\ TypeOK' /\ HoldersKnown' /\ JoinsInRange'
      /\ pcbs'[p] = u /\ locks'[p] = u
      /\ \A q \in Pid \ {p} : pcbs'[q] = pcbs[q] /\ locks'[q] = locks[q]
      /\ UNCHANGED <<held, waiting, value, freed, marked, status, pid, finished>>
  <2>1. u \in Thread \cup {Ghost}
    BY Zenon
  <2>2. Insert(p, u) /\ UNCHANGED <<monitorVars, marked, status, pid, finished>>
    BY <1>1, Zenon
  <2>3. /\ Plain(pc'[t]) /\ Plain(pc'[u]) /\ DOMAIN pc' = Thread
        /\ \A x \in Thread \ {t, u} : pc'[x] = pc[x]
    BY <1>7, <1>8, Zenon
  <2>4. Making(pc[t]) /\ NotYet(pc[u])
    BY <1>2, <1>3, Zenon
  <2> QED
    BY <1>4, <1>5, <2>1, <2>2, <2>3, <2>4, InsertedStep, ZenonT(60)
<1>10. Entered(u)' /\ \A x \in Thread \ {u} : Entered(x)' <=> Entered(x)
  BY <1>3, <1>7, <1>8, <1>9, Zenon DEF Entered
<1>11. PlacesKnown'
  BY <1>3, <1>8, <1>9, ZenonT(60) DEF PInv, PlacesKnown, TypeOK
<1>12. OneMaker'
  <2>1. \A x \in Thread : Making(pc'[x]) => Making(pc[x]) /\ pc'[x] = pc[x]
    BY <1>7, <1>8, Zenon DEF Plain
  <2>2. ASSUME NEW x \in Thread, Making(pc'[x])
        PROVE  pc[x][2] \in Thread /\ pc[pc[x][2]] = <<"starting">> /\ pc[x][2] \notin {t, u}
    <3>1. x # t /\ Making(pc[x])
      BY <1>7, <1>8, <2>1, <2>2, Zenon DEF Plain
    <3>2. pc[x][2] \in Thread /\ pc[pc[x][2]] = <<"starting">> /\ pc[x][2] # u
      BY <1>3, <3>1, Zenon DEF PInv, OneMaker
    <3> QED
      BY <1>3, <3>2, Zenon DEF NotYet
  <2>3. \A x \in Thread : Making(pc'[x]) => pc'[pc[x][2]] = <<"starting">>
    BY <1>8, <2>2, Zenon
  <2> QED
    BY <1>9, <2>1, <2>3 DEF PInv, OneMaker
<1>13. IdsClaimed' /\ SpacesClaimed'
  <2>1. \A x \in Thread : EnteringSpace(pc'[x]) => EnteringSpace(pc[x]) /\ pc'[x] = pc[x]
    BY <1>7, <1>8, Zenon DEF Plain
  <2> QED
    BY <1>9, <2>1 DEF PInv, IdsClaimed, SpacesClaimed
<1>14. TablesAgree'
  <2>1. ASSUME NEW x \in Thread, Entered(x)'
        PROVE  pid'[x] \in Pid /\ pcbs'[pid'[x]] = x /\ locks'[pid'[x]] = x
    <3>1. CASE x = u
      BY <1>4, <1>9, <3>1, Zenon DEF p
    <3>2. CASE x # u
      <4>1. Entered(x) /\ pid'[x] = pid[x] /\ pid[x] # p
        BY <1>5, <1>9, <1>10, <2>1, <3>2, Zenon
      <4>2. pid[x] \in Pid /\ pcbs[pid[x]] = x /\ locks[pid[x]] = x
        BY <4>1, Zenon DEF PInv, TablesAgree
      <4> QED
        BY <1>9, <4>1, <4>2, Zenon
    <3> QED
      BY <3>1, <3>2, Zenon
  <2>2. ASSUME NEW q \in Pid, locks'[q] \in Thread \ freed'
        PROVE  Entered(locks[q])' /\ pid'[locks'[q]] = q
    <3>1. CASE q = p
      <4>1. locks'[q] = u /\ pid'[u] = q
        BY <1>9, <3>1, Zenon DEF p
      <4> QED
        BY <1>10, <4>1, Zenon DEF Entered
    <3>2. CASE q # p
      <4>1. PICK x \in Thread : x = locks[q] /\ x = locks'[q] /\ x \notin freed
        BY <1>9, <2>2, <3>2, Zenon
      <4>2. Entered(x) /\ pid[x] = q
        BY <4>1, Zenon DEF PInv, TablesAgree
      <4>3. Entered(x)' /\ pid'[x] = q
        BY <1>9, <1>10, <4>2, Zenon
      <4> QED
        BY <4>1, <4>3, Zenon DEF Entered
    <3> QED
      BY <3>1, <3>2, Zenon
  <2> QED
    BY <2>1, <2>2, Zenon DEF TablesAgree
<1> QED
  BY <1>9, <1>11, <1>12, <1>13, <1>14, Zenon DEF PInv

\* clearPID, once the lock of the process is free: id, PCB and lock go together.
LEMMA ClearPIDStep ==
  ASSUME PInv, ProcessesAssumption, NEW t \in Thread, ClearPID(t) PROVE PInv'
<1> DEFINE p == pid[t]
<1>1. /\ pc[t] # <<>> /\ pc[t][1] = "clear"
      /\ pcbs' = [pcbs EXCEPT ![p] = NULL] /\ locks' = [locks EXCEPT ![p] = NULL]
      /\ freed' = freed \cup {t} /\ finished' = finished \cup {t} /\ marked' = marked \ {p}
      /\ held' = [held EXCEPT ![pmLock] = NoThread]
      /\ pc' = [pc EXCEPT ![t] = <<"finished">>]
      /\ UNCHANGED <<waiting, value, status, pid>>
  BY Zenon DEF ClearPID, At, Goto
<1>2. /\ t \notin finished /\ ~ NotYet(pc[t]) /\ ~ Making(pc[t]) /\ Entered(t) /\ ~ Joining(pc[t])
  BY <1>1, InCallFacts, Zenon
<1>3. p \in Pid /\ pcbs[p] = t /\ locks[p] = t
  BY <1>2, Zenon DEF PInv, TablesAgree
<1>4. /\ \A x \in Thread \ finished : x # t => pid[x] # p
      /\ \A x \in Thread : EnteringSpace(pc[x]) => pc[x][3] # p
  BY <1>2, <1>3, Zenon DEF PInv, IdsClaimed
<1>5. PICK v : v = <<"finished">>
  BY Zenon
<1>6. Plain(v) /\ ~ NotYet(v)
  BY <1>5, Places, Zenon
<1>7. DOMAIN pc' = Thread /\ pc'[t] = v /\ \A x \in Thread \ {t} : pc'[x] = pc[x]
  BY <1>1, <1>5, Zenon DEF PInv, PlacesKnown
<1>8. /\ pcbs' \in [Pid -> Thread \cup {Ghost, NULL, Junk}]
      /\ locks' \in [Pid -> Thread \cup {Ghost, NULL, Junk}]
      /\ locks'[p] = NULL
      /\ \A q \in Pid \ {p} : pcbs'[q] = pcbs[q] /\ locks'[q] = locks[q]
  BY <1>1, <1>3, Zenon DEF PInv, TypeOK
<1>9. /\ held' \in [Lock -> Thread \cup {NoThread}]
      /\ held'[pmLock] = NoThread /\ \A l \in Thread : held'[l] = held[l]
  BY <1>1, Zenon DEF PInv, TypeOK, MonitorTypeOK, ProcessesAssumption
<1> HIDE DEF p
<1>10. TypeOK'
  BY <1>1, <1>8, <1>9, ZenonT(60) DEF PInv, TypeOK, MonitorTypeOK
<1>11. PlacesKnown'
  <2>1. \A x \in finished' : pc'[x] = <<"finished">>
    BY <1>1, <1>5, <1>7, Zenon DEF PInv, PlacesKnown, TypeOK
  <2> QED
    BY <1>1, <1>7, <2>1, Zenon DEF PInv, PlacesKnown
<1>12. OneMaker'
  <2>1. \A x \in Thread : Making(pc'[x]) => Making(pc[x]) /\ pc'[x] = pc[x]
    BY <1>6, <1>7, Zenon DEF Plain
  <2>2. \A x \in Thread : pc[x] = <<"starting">> => pc'[x] = <<"starting">>
    BY <1>2, <1>7, Zenon DEF NotYet
  <2>3. pid' = pid
    BY <1>1, Zenon
  <2> QED
    BY <2>1, <2>2, <2>3 DEF PInv, OneMaker
<1>13. IdsClaimed' /\ SpacesClaimed'
  <2>1. \A x \in Thread : EnteringSpace(pc'[x]) => EnteringSpace(pc[x]) /\ pc'[x] = pc[x]
    BY <1>6, <1>7, Zenon DEF Plain
  <2>2. \A x \in Thread \ finished' : x \notin finished /\ x # t /\ pid'[x] = pid[x] /\ pid[x] # p
    BY <1>1, <1>4, Zenon
  <2>3. IdsClaimed'
    BY <1>1, <2>1, <2>2 DEF PInv, IdsClaimed
  <2>4. SpacesClaimed'
    BY <1>1, <1>4, <2>1 DEF PInv, SpacesClaimed
  <2> QED
    BY <2>3, <2>4, Zenon
<1>14. TablesAgree'
  <2>1. \A x \in Thread : Entered(x)' <=> Entered(x) /\ x # t
    BY <1>1, <1>7, Zenon DEF Entered
  <2>2. ASSUME NEW x \in Thread, Entered(x)'
        PROVE  pid'[x] \in Pid /\ pcbs'[pid'[x]] = x /\ locks'[pid'[x]] = x
    <3>1. Entered(x) /\ pid'[x] = pid[x] /\ pid[x] # p
      BY <1>1, <1>4, <2>1, <2>2, Zenon DEF Entered
    <3>2. pid[x] \in Pid /\ pcbs[pid[x]] = x /\ locks[pid[x]] = x
      BY <3>1, Zenon DEF PInv, TablesAgree
    <3> QED
      BY <1>8, <3>1, <3>2, Zenon
  <2>3. ASSUME NEW q \in Pid, locks'[q] \in Thread \ freed'
        PROVE  Entered(locks[q])' /\ pid'[locks'[q]] = q
    <3>1. q # p
      BY <1>8, <2>3, Zenon DEF ProcessesAssumption
    <3>2. PICK x \in Thread : x = locks[q] /\ x = locks'[q] /\ x \notin freed /\ x # t
      BY <1>1, <1>8, <2>3, <3>1, Zenon
    <3>3. Entered(x) /\ pid[x] = q
      BY <3>2, Zenon DEF PInv, TablesAgree
    <3>4. Entered(x)' /\ pid'[x] = q
      BY <1>1, <2>1, <3>2, <3>3, Zenon
    <3> QED
      BY <3>2, <3>4, Zenon DEF Entered
  <2> QED
    BY <2>2, <2>3, Zenon DEF TablesAgree
<1>15. JoinsInRange'
  <2>1. \A x \in Thread : Checked(pc'[x]) => pc'[x] = pc[x]
    BY <1>6, <1>7, Zenon DEF Plain
  <2> QED
    BY <2>1, Zenon DEF PInv, JoinsInRange
<1>16. HoldersKnown'
  <2>1. \A x \in Thread : held'[pmLock] # x
    BY <1>9, Zenon DEF ProcessesAssumption
  <2>2. ASSUME NEW x \in Thread, NEW l \in Thread \ freed', held'[l] = x
        PROVE  Joining(pc'[x]) /\ locks'[pc'[x][2]] = l
    <3>1. l \notin freed /\ l # t /\ held[l] = x
      BY <1>1, <1>9, <2>2, Zenon
    <3>2. Joining(pc[x]) /\ locks[pc[x][2]] = l
      BY <3>1, Zenon DEF PInv, HoldersKnown
    <3>3. pc'[x] = pc[x]
      BY <1>2, <1>7, <3>2, Zenon
    <3>4. pc[x][2] \in Pid /\ pc[x][2] # p
      BY <1>3, <3>1, <3>2, Zenon DEF PInv, JoinsInRange, Joining, Checked
    <3> QED
      BY <1>8, <3>2, <3>3, <3>4, Zenon
  <2>3. ASSUME NEW x \in Thread, Awaking(pc'[x])
        PROVE  pc'[x][3] \in Thread /\ (pc'[x][3] \notin freed' => locks'[pc'[x][2]] = pc'[x][3])
    <3>1. x # t /\ pc'[x] = pc[x] /\ Awaking(pc[x])
      BY <1>6, <1>7, <2>3, Zenon DEF Plain
    <3>2. pc[x][3] \in Thread /\ (pc[x][3] \notin freed => locks[pc[x][2]] = pc[x][3])
      BY <3>1, Zenon DEF PInv, HoldersKnown
    <3>3. pc[x][2] \in Pid
      BY <3>1, Zenon DEF PInv, JoinsInRange, Awaking, Checked
    <3>4. pc[x][3] \notin freed' => pc[x][3] \notin freed /\ pc[x][2] # p
      BY <1>1, <1>3, <3>2, Zenon
    <3> QED
      BY <1>8, <3>1, <3>2, <3>3, <3>4, Zenon
  <2> QED
    BY <2>1, <2>2, <2>3, Zenon DEF HoldersKnown
<1> QED
  BY <1>10, <1>11, <1>12, <1>13, <1>14, <1>15, <1>16, Zenon DEF PInv

--------------------------------------------------------------------------------

\* Initialize leaves the main process alone in the tables.
LEMMA InitProcesses == ASSUME ProcessesAssumption, Init PROVE PInv
<1> USE DEF Init
<1>1. 0 \in Pid /\ NoPid \notin Pid /\ Main \in Thread
  BY DEF Pid, NoPid, ProcessesAssumption
<1>2. \A t \in Thread : Plain(pc[t]) /\ (NotYet(pc[t]) <=> t # Main)
  <2>1. Plain(<<>>) /\ Plain(<<"unborn">>) /\ ~ NotYet(<<>>)
    BY Places, Zenon
  <2>2. NotYet(<<"unborn">>)
    BY Zenon DEF NotYet
  <2> QED
    BY <2>1, <2>2, Zenon
<1>3. \A l \in Lock : held[l] = NoThread
  BY Zenon DEF MonitorInit
<1>4. TypeOK
  <2>1. held \in [Lock -> Thread \cup {NoThread}] /\ waiting \in [Condition -> Seq(Thread)]
    BY DEF MonitorInit
  <2>2. MonitorTypeOK
    BY <2>1, Zenon DEF MonitorInit, MonitorTypeOK
  <2>3. pcbs \in [Pid -> Thread \cup {Ghost, NULL, Junk}] /\ locks = pcbs
    BY <1>1, Zenon
  <2>4. /\ marked \subseteq Pid /\ freed \subseteq Thread /\ finished \subseteq Thread
        /\ status \in [Thread -> {-1, 1, 3}] /\ pid \in [Thread -> Pid \cup {NoPid}]
    BY <1>1, Zenon
  <2> QED
    BY <2>2, <2>3, <2>4, Zenon DEF TypeOK
<1>5. PlacesKnown
  BY Zenon DEF PlacesKnown
<1>6. OneMaker /\ SpacesClaimed /\ JoinsInRange
  BY <1>2, Zenon DEF OneMaker, SpacesClaimed, JoinsInRange, Plain
<1>7. \A t \in Thread : pid[t] \in Pid => t = Main /\ pid[t] = 0
  BY <1>1, Zenon
<1>8. IdsClaimed
  BY <1>1, <1>2, <1>7, Zenon DEF IdsClaimed, Plain
<1>9. TablesAgree
  <2>1. \A t \in Thread : Entered(t) <=> t = Main
    BY <1>2, Zenon DEF Entered
  <2>2. pid[Main] = 0 /\ pcbs[0] = Main /\ locks[0] = Main
    BY <1>1, Zenon
  <2>3. \A p \in Pid : locks[p] \in Thread => p = 0
    BY <1>1, Zenon DEF ProcessesAssumption
  <2> QED
    BY <1>1, <2>1, <2>2, <2>3, Zenon DEF TablesAgree
<1>10. HoldersKnown
  BY <1>2, <1>3, Zenon DEF HoldersKnown, ProcessesAssumption, Plain
<1> QED
  BY <1>4, <1>5, <1>6, <1>8, <1>9, <1>10, Zenon DEF PInv

\* Every step keeps the invariant.
LEMMA NextProcesses == ASSUME ProcessesAssumption, PInv, [Next]_vars PROVE PInv'
<1>1. CASE UNCHANGED vars
  BY <1>1, StoppedStep, Zenon DEF vars
<1>2. ASSUME NEW t \in Thread, InCall(t) PROVE PInv'
  BY <1>2, InsertProcessStep, InsertSpaceStep, ExecPidsStep, GetStatusStep, ReadStatusStep,
     JoinStartStep, JoinLockStep, JoinTestStep, JoinWaitStep, JoinWokenStep, BroadcastStep,
     ExitStep, ClearPIDStep, ZenonT(60)
     DEF InCall
<1>3. ASSUME NEW t \in Thread, CallExit(t) PROVE PInv'
  BY <1>3, ExitStep, Zenon
<1>4. ASSUME NEW t \in Thread, NEW p, CallJoin(t, p) PROVE PInv'
  BY <1>4, CallJoinStep, Zenon
<1>5. ASSUME NEW t \in Thread, NEW u \in Thread, CallFork(t, u) \/ CallExec(t, u) PROVE PInv'
  BY <1>5, CallMakeStep, Zenon
<1> QED
  BY <1>1, <1>2, <1>3, <1>4, <1>5, Zenon DEF Next

\* The invariant holds of every behaviour of the process manager.
THEOREM ProcessesInvariant == ASSUME ProcessesAssumption PROVE Spec => []PInv
<1>1. Init => PInv
  BY InitProcesses, Zenon
<1>2. PInv /\ [Next]_vars => PInv'
  BY NextProcesses, Zenon
<1> QED
  BY <1>1, <1>2, PTL DEF Spec

\* syscall.h:54, "A unique identifier for an executing user program": for any number of
\* processes and ids, and whatever order processes start, join and exit in, the id of a
\* process leads to its own PCB and lock and is nobody else's until clearPID.
THEOREM NumbersUnique == ASSUME ProcessesAssumption PROVE Spec => []NumbersExclusive
<1>1. PInv => NumbersExclusive
  <2> SUFFICES ASSUME PInv, NEW t \in Thread \ finished, Started(t), pc[t] # <<"starting">>
               PROVE  /\ pid[t] \in marked /\ pcbs[pid[t]] = t /\ locks[pid[t]] = t
                      /\ \A u \in Thread \ finished : u # t => pid[u] # pid[t]
    BY Zenon DEF NumbersExclusive, UniqueIds, PInv
  <2>1. Entered(t)
    BY Zenon DEF Entered, NotYet, Started
  <2>2. pid[t] \in Pid /\ pcbs[pid[t]] = t /\ locks[pid[t]] = t
    BY <2>1, Zenon DEF PInv, TablesAgree
  <2> QED
    BY <2>2, Zenon DEF PInv, IdsClaimed
<1> QED
  BY <1>1, ProcessesInvariant, PTL

\* Every path through the process manager gives back what it took: between its calls and
\* after its end a process holds no lock, in any number of processes.
THEOREM LocksReturned == ASSUME ProcessesAssumption PROVE Spec => []NoLockLeft
<1>1. PInv => NoLockLeft
  <2> SUFFICES ASSUME PInv, NEW t \in Thread, pc[t] \in {<<>>, <<"finished">>}, NEW l \in Lock \ freed
               PROVE  held[l] # t
    BY Zenon DEF NoLockLeft
  <2>1. Plain(pc[t])
    BY Places, Zenon
  <2>2. ~ Managing(pc[t]) /\ ~ Joining(pc[t])
    BY <2>1, Zenon DEF Plain
  <2>3. held[pmLock] # t /\ \A k \in Thread \ freed : held[k] # t
    BY <2>2, HoldsNone, Zenon
  <2> QED
    BY <2>3, Zenon DEF ProcessesAssumption
<1> QED
  BY <1>1, ProcessesInvariant, PTL

================================================================================
