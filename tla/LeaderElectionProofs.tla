------------------------ MODULE LeaderElectionProofs ------------------------
(***************************************************************************)
(* Theorems about LeaderElection: types, what a leader knows of the lock,  *)
(* and that at most one instance starts the pipeline while nothing is lost.*)
(***************************************************************************)
EXTENDS LeaderElection, TLAPS

\* The initial state has the types of TypeOK.
LEMMA TypeInit == Init => TypeOK
<1> SUFFICES ASSUME Init PROVE TypeOK OBVIOUS
<1>1. replies \in [Instances -> SUBSET Replies]
  BY DEF Init
<1>2. QED BY <1>1 DEF Init, TypeOK, Phases

\* The events of Consul keep the types.
LEMMA TypeConsul ==
    ASSUME TypeOK, NEW s \in Sessions,
           Acquire(s) \/ AcquireFails(s) \/ ExpireOrphan(s) \/ ExpireRunning(s)
           \/ DelayEnds
    PROVE  TypeOK'
<1> USE SessionAssumption DEF TypeOK, process, consul, faults
<1>1. ASSUME NEW x \in Replies, Reply(s, x)
      PROVE  replies' \in [Instances -> SUBSET Replies]
  BY <1>1 DEF Reply
<1>2. ASSUME KeyChanges PROVE stale' \in [Instances -> BOOLEAN]
  BY <1>2 DEF KeyChanges
<1>3. ASSUME Invalidate(s)
      PROVE  /\ stale' \in [Instances -> BOOLEAN]
             /\ live' \in SUBSET Sessions
             /\ used' \in SUBSET Sessions
             /\ holder' \in Sessions \cup {None}
             /\ delayed' \in BOOLEAN
  <2>1. CASE holder = s
    BY <1>2, <1>3, <2>1 DEF Invalidate
  <2>2. CASE holder # s
    BY <1>3, <2>2 DEF Invalidate
  <2>3. QED BY <2>1, <2>2
<1>4. CASE Acquire(s)
  <2>1. replies' \in [Instances -> SUBSET Replies]
    BY <1>1, <1>4 DEF Acquire, Replies
  <2>2. stale' \in [Instances -> BOOLEAN] /\ holder' \in Sessions \cup {None}
    BY <1>2, <1>4 DEF Acquire
  <2>3. QED BY <1>4, <2>1, <2>2 DEF Acquire
<1>5. CASE AcquireFails(s)
  <2>1. replies' \in [Instances -> SUBSET Replies]
    BY <1>1, <1>5 DEF AcquireFails, Replies
  <2>2. stale' \in [Instances -> BOOLEAN] /\ holder' \in Sessions \cup {None}
    BY <1>2, <1>5 DEF AcquireFails
  <2>3. QED BY <1>5, <2>1, <2>2 DEF AcquireFails
<1>6. CASE ExpireOrphan(s)
  BY <1>3, <1>6 DEF ExpireOrphan
<1>7. CASE ExpireRunning(s)
  BY <1>3, <1>7 DEF ExpireRunning
<1>8. CASE DelayEnds
  BY <1>8 DEF DelayEnds
<1>9. QED BY <1>4, <1>5, <1>6, <1>7, <1>8

\* The steps of an instance keep the types.
LEMMA TypeInstance ==
    ASSUME TypeOK, NEW i \in Instances,
           Lifecycle(i) \/ Answered(i) \/ Change(i) \/ OtherChange(i)
           \/ SessionFails(i) \/ Stop(i) \/ Crash(i)
    PROVE  TypeOK'
<1> USE DEF TypeOK, Phases, process, consul, faults
<1>1. ASSUME Gone(i)
      PROVE  /\ phase' \in [Instances -> Phases]
             /\ isLeader' \in [Instances -> {"yes", "no", "undefined"}]
             /\ session' \in [Instances -> Sessions \cup {None}]
             /\ stale' \in [Instances -> BOOLEAN]
             /\ replies' \in [Instances -> SUBSET Replies]
             /\ enqueued' \in [Instances -> BOOLEAN]
             /\ UNCHANGED <<requests, live, used, holder, delayed>>
  BY <1>1 DEF Gone
<1>2. CASE Start(i)
  BY <1>2 DEF Start
<1>3. CASE SessionCreated(i)
  BY <1>3 DEF SessionCreated
<1>4. CASE Answered(i)
  <2>1. replies' \in [Instances -> SUBSET Replies]
    BY <1>4 DEF Answered
  <2>2. isLeader' \in [Instances -> {"yes", "no", "undefined"}]
    BY <1>4 DEF Answered
  <2>3. phase' \in [Instances -> Phases] /\ stale' \in [Instances -> BOOLEAN]
    <3>1. CASE phase' = [phase EXCEPT ![i] = "tasks"] /\ stale' = [stale EXCEPT ![i] = TRUE]
      BY <3>1
    <3>2. CASE UNCHANGED <<phase, stale>>
      BY <3>2
    <3>3. QED BY <1>4, <3>1, <3>2 DEF Answered
  <2>4. QED BY <1>4, <2>1, <2>2, <2>3 DEF Answered
<1>5. CASE Change(i)
  BY <1>5 DEF Change
<1>6. CASE OtherChange(i)
  BY <1>6 DEF OtherChange
<1>7. CASE BootTasks(i)
  BY <1>7 DEF BootTasks
<1>8. CASE Destroy(i)
  <2>1. CASE session[i] \in live /\ holder = session[i]
    BY <1>8, <2>1 DEF Destroy, Invalidate, KeyChanges
  <2>2. CASE session[i] \in live /\ holder # session[i]
    BY <1>8, <2>2 DEF Destroy, Invalidate
  <2>3. CASE session[i] \notin live
    BY <1>8, <2>3 DEF Destroy
  <2>4. QED BY <2>1, <2>2, <2>3
<1>9. CASE Exit(i)
  BY <1>1, <1>9 DEF Exit
<1>10. CASE SessionFails(i)
  BY <1>10 DEF SessionFails
<1>11. CASE Stop(i)
  BY <1>11 DEF Stop
<1>12. CASE Crash(i)
  BY <1>1, <1>12 DEF Crash
<1>13. QED
  BY <1>2, <1>3, <1>4, <1>5, <1>6, <1>7, <1>8, <1>9, <1>10, <1>11, <1>12
     DEF Lifecycle

\* Every step keeps the types.
LEMMA TypeNext == TypeOK /\ [Next]_vars => TypeOK'
<1> SUFFICES ASSUME TypeOK, [Next]_vars PROVE TypeOK' OBVIOUS
<1>1. CASE UNCHANGED vars
  BY <1>1 DEF vars, process, consul, faults, TypeOK
<1>2. CASE \E i \in Instances :
             \/ Lifecycle(i) \/ Answered(i) \/ Change(i) \/ OtherChange(i)
             \/ SessionFails(i) \/ Stop(i) \/ Crash(i)
  BY <1>2, TypeInstance
<1>3. CASE \E s \in Sessions : \/ Acquire(s) \/ AcquireFails(s)
                               \/ ExpireOrphan(s) \/ ExpireRunning(s)
  BY <1>3, TypeConsul
<1>4. CASE DelayEnds
  BY <1>4 DEF DelayEnds, TypeOK, process, faults
<1>5. QED BY <1>1, <1>2, <1>3, <1>4 DEF Next

\* Type correctness of the election, for any instances, sessions and faults.
THEOREM ElectionTypeCorrect == Spec => []TypeOK
<1>1. QED BY TypeInit, TypeNext, PTL DEF Spec

-----------------------------------------------------------------------------
(* The inductive invariant                                                 *)

\* It holds before any instance has started.
LEMMA ElectionInvInit == Init => ElectionInv
BY DEF Init, ElectionInv, LeaderHoldsLock, SessionsKnown, QuietElection, Leads,
       Orphaned

\* An invalidated session leaves the leader's belief behind but never lets the
\* key go to a session that is not valid.
LEMMA InvalidateInv ==
    ASSUME TypeOK, ElectionInv, NEW s \in Sessions, Invalidate(s),
           UNCHANGED <<isLeader, session, replies, enqueued, requests>>,
           \A i \in Instances :
             \/ phase'[i] = phase[i]
             \/ (phase[i] = "stopping" /\ phase'[i] = "stopped")
    PROVE  LeaderHoldsLock' /\ SessionsKnown'
<1> USE DEF TypeOK, ElectionInv
<1>1. live' = live \ {s} /\ used' = used
  BY DEF Invalidate
<1>2. \A i \in Instances : Leads(i)' <=> Leads(i)
  BY DEF Leads
<1>3. \/ holder = s /\ holder' = None
      \/ holder # s /\ holder' = holder
  BY DEF Invalidate
<1>4. LeaderHoldsLock'
  BY <1>1, <1>2, <1>3 DEF LeaderHoldsLock
<1>5. SessionsKnown'
  <2>1. live' \subseteq used' /\ requests' \subseteq used'
    BY <1>1 DEF SessionsKnown
  <2>2. holder' # None => holder' \in live'
    BY <1>1, <1>3 DEF SessionsKnown
  <2>3. \A i \in Instances : phase'[i] \in {"down", "creating"} =>
          session'[i] = None /\ ~Leads(i)' /\ ~enqueued'[i]
    BY <1>2 DEF SessionsKnown
  <2>4. QED BY <1>1, <2>1, <2>2, <2>3 DEF SessionsKnown
<1>6. QED BY <1>4, <1>5

\* An acquire that reaches Consul makes a leader only of the sender, and only
\* when its session then holds the key.
LEMMA AcquireInv ==
    ASSUME TypeOK, ElectionInv, NEW s \in Sessions,
           Acquire(s) \/ AcquireFails(s)
    PROVE  ElectionInv'
<1> USE DEF TypeOK, ElectionInv, faults
<1>1. /\ UNCHANGED <<phase, isLeader, session, enqueued, live, used, crashes,
                     expiries>>
      /\ requests' = requests \ {s}
  BY DEF Acquire, AcquireFails
<1>2. \/ s \in live /\ holder \in {s, None} /\ holder' = s
      \/ holder' = holder
  BY DEF Acquire, AcquireFails, Granted
<1>3. s # None
  BY SessionAssumption
<1>4. \A i \in Instances : Leads(i)' =>
        \/ Leads(i)
        \/ session[i] = s /\ holder' = s
  <2>1. ASSUME NEW x \in Replies, Reply(s, x), x = "true" => holder' = s,
               NEW i \in Instances, Leads(i)'
        PROVE  Leads(i) \/ (session[i] = s /\ holder' = s)
    BY <1>1, <2>1 DEF Reply, Leads
  <2>2. \E x \in Replies : Reply(s, x) /\ (x = "true" => holder' = s)
    BY DEF Acquire, AcquireFails, Replies
  <2>3. QED BY <2>1, <2>2
<1>5. LeaderHoldsLock'
  BY <1>1, <1>2, <1>3, <1>4 DEF LeaderHoldsLock
<1>6. SessionsKnown'
  <2>1. live' \subseteq used' /\ requests' \subseteq used'
    BY <1>1 DEF SessionsKnown
  <2>2. holder' # None => holder' \in live'
    BY <1>1, <1>2 DEF SessionsKnown
  <2>3. \A i \in Instances : phase'[i] \in {"down", "creating"} =>
          session'[i] = None /\ ~Leads(i)' /\ ~enqueued'[i]
    BY <1>1, <1>3, <1>4 DEF SessionsKnown
  <2>4. QED BY <1>1, <2>1, <2>2, <2>3 DEF SessionsKnown
<1>7. QuietElection'
  BY <1>1, <1>2, <1>3 DEF QuietElection, Orphaned
<1>8. QED BY <1>5, <1>6, <1>7

\* Consul's own events.
LEMMA ConsulInv ==
    ASSUME TypeOK, ElectionInv, NEW s \in Sessions,
           ExpireOrphan(s) \/ ExpireRunning(s) \/ DelayEnds
    PROVE  ElectionInv'
<1> USE DEF ElectionInv
<1>1. CASE ExpireOrphan(s)
  <2>1. LeaderHoldsLock' /\ SessionsKnown'
    BY <1>1, InvalidateInv DEF ExpireOrphan, faults
  <2>2. ~(crashes = 0 /\ expiries = 0)
    BY <1>1 DEF ExpireOrphan, QuietElection, SessionsKnown
  <2>3. QuietElection'
    BY <1>1, <2>2 DEF ExpireOrphan, QuietElection, faults
  <2>4. QED BY <2>1, <2>3
<1>2. CASE ExpireRunning(s)
  <2>1. LeaderHoldsLock' /\ SessionsKnown'
    BY <1>2, InvalidateInv DEF ExpireRunning
  <2>2. QuietElection'
    BY <1>2 DEF ExpireRunning, QuietElection, TypeOK
  <2>3. QED BY <2>1, <2>2
<1>3. CASE DelayEnds
  BY <1>3 DEF DelayEnds, process, faults, LeaderHoldsLock, SessionsKnown,
              QuietElection, Leads, Orphaned
<1>4. QED BY <1>1, <1>2, <1>3

\* A process that ends forgets its session and whether it leads.
LEMMA GoneInv ==
    ASSUME TypeOK, ElectionInv, NEW i \in Instances, Gone(i)
    PROVE  LeaderHoldsLock' /\ SessionsKnown'
<1> USE DEF TypeOK, ElectionInv, consul
<1>1. UNCHANGED <<requests, live, used, holder>>
  BY DEF Gone
<1>2. /\ session'[i] = None /\ ~enqueued'[i] /\ ~Leads(i)'
      /\ \A j \in Instances \ {i} :
           /\ session'[j] = session[j] /\ phase'[j] = phase[j]
           /\ enqueued'[j] = enqueued[j]
           /\ Leads(j)' <=> Leads(j)
  BY DEF Gone, Leads
<1>3. LeaderHoldsLock'
  BY <1>1, <1>2 DEF LeaderHoldsLock
<1>4. SessionsKnown'
  BY <1>1, <1>2 DEF SessionsKnown
<1>5. QED BY <1>3, <1>4

\* A session is created once, by an instance nobody takes for a leader yet.
LEMMA SessionCreatedInv ==
    ASSUME TypeOK, ElectionInv, NEW i \in Instances, SessionCreated(i)
    PROVE  ElectionInv'
<1> USE DEF TypeOK, ElectionInv, faults
<1>1. PICK s \in Sessions \ used :
        /\ session' = [session EXCEPT ![i] = s]
        /\ live' = live \cup {s}
        /\ used' = used \cup {s}
        /\ requests' = requests \cup {s}
  BY DEF SessionCreated
<1>2. /\ phase[i] = "creating" /\ phase' = [phase EXCEPT ![i] = "electing"]
      /\ UNCHANGED <<isLeader, replies, enqueued, holder, crashes, expiries>>
  BY DEF SessionCreated
<1>3. s # None /\ session[i] = None /\ ~Leads(i) /\ ~enqueued[i]
  BY <1>2, SessionAssumption DEF SessionsKnown
<1>4. \A j \in Instances : (Leads(j)' <=> Leads(j)) /\ session[j] # s
  BY <1>2, <1>3 DEF Leads, SessionsKnown
<1>5. LeaderHoldsLock'
  BY <1>1, <1>2, <1>3, <1>4 DEF LeaderHoldsLock
<1>6. SessionsKnown'
  BY <1>1, <1>2, <1>3, <1>4 DEF SessionsKnown
<1>7. QuietElection'
  <2>1. SUFFICES ASSUME crashes = 0 /\ expiries = 0 PROVE QuietElection'
    BY <1>2 DEF QuietElection
  <2>2. live' = used'
    BY <1>1, <2>1 DEF QuietElection
  <2>3. \A q \in used' : \E j \in Instances : session'[j] = q
    <3>1. session'[i] = s
      BY <1>1
    <3>2. \A j \in Instances : session[j] # None => session'[j] = session[j]
      BY <1>1, <1>3
    <3>3. \A q \in used : \E j \in Instances : session[j] = q
      BY <2>1 DEF QuietElection, Orphaned
    <3>4. QED BY <1>1, <3>1, <3>2, <3>3, SessionAssumption
  <2>4. \A j \in Instances : phase'[j] \notin {"stopping", "stopped"}
    BY <1>2, <2>1 DEF QuietElection
  <2>5. \A j \in Instances :
          enqueued'[j] => session'[j] # None /\ holder' = session'[j]
    BY <1>1, <1>2, <1>3, <2>1 DEF QuietElection
  <2>6. QED BY <2>2, <2>3, <2>4, <2>5 DEF QuietElection, Orphaned
<1>8. QED BY <1>5, <1>6, <1>7

\* The result of kv.set changes what the instance believes, never to more than
\* the reply allowed.
LEMMA AnsweredInv ==
    ASSUME TypeOK, ElectionInv, NEW i \in Instances, Answered(i)
    PROVE  ElectionInv'
<1> USE DEF TypeOK, ElectionInv, faults, consul
<1>1. /\ UNCHANGED <<session, enqueued, requests, live, used, holder, crashes,
                     expiries>>
  BY DEF Answered
<1>2. PICK x \in replies[i] :
        /\ replies' = [replies EXCEPT ![i] = @ \ {x}]
        /\ isLeader' = [isLeader EXCEPT ![i] =
             IF x = "true" THEN "yes" ELSE IF x = "false" THEN "no" ELSE @]
  BY DEF Answered
<1>3. \A j \in Instances : Leads(j)' => Leads(j)
  BY <1>2 DEF Leads
<1>4. \A j \in Instances :
        \/ phase'[j] = phase[j]
        \/ (phase[j] = "electing" /\ phase'[j] = "tasks")
  BY DEF Answered
<1>5. LeaderHoldsLock'
  BY <1>1, <1>3 DEF LeaderHoldsLock
<1>6. SessionsKnown'
  BY <1>1, <1>3, <1>4 DEF SessionsKnown
<1>7. QuietElection'
  BY <1>1, <1>4 DEF QuietElection, Orphaned
<1>8. QED BY <1>5, <1>6, <1>7

\* Who queues the first job has just been told that it leads.
LEMMA BootTasksInv ==
    ASSUME TypeOK, ElectionInv, NEW i \in Instances, BootTasks(i)
    PROVE  ElectionInv'
<1> USE DEF TypeOK, ElectionInv, faults, consul
<1>1. /\ UNCHANGED <<isLeader, session, replies, requests, live, used, holder,
                     crashes, expiries>>
      /\ phase[i] = "tasks" /\ phase' = [phase EXCEPT ![i] = "up"]
      /\ enqueued' = [enqueued EXCEPT ![i] = (isLeader[i] = "yes")]
  BY DEF BootTasks
<1>2. \A j \in Instances : Leads(j)' <=> Leads(j)
  BY <1>1 DEF Leads
<1>3. LeaderHoldsLock'
  BY <1>1, <1>2 DEF LeaderHoldsLock
<1>4. SessionsKnown'
  BY <1>1, <1>2 DEF SessionsKnown
<1>5. QuietElection'
  <2>1. (isLeader[i] = "yes" /\ live = used)
          => session[i] # None /\ holder = session[i]
    BY DEF LeaderHoldsLock, Leads, SessionsKnown
  <2>2. QED BY <1>1, <2>1 DEF QuietElection, Orphaned
<1>6. QED BY <1>3, <1>4, <1>5

\* The other steps of an instance.
LEMMA InstanceInv ==
    ASSUME TypeOK, ElectionInv, NEW i \in Instances,
           Start(i) \/ Destroy(i) \/ Exit(i) \/ Change(i) \/ OtherChange(i)
           \/ SessionFails(i) \/ Stop(i) \/ Crash(i)
    PROVE  ElectionInv'
<1> USE DEF TypeOK, ElectionInv, faults, consul
<1>1. ASSUME UNCHANGED <<isLeader, session, replies, enqueued, live, used,
                         holder, crashes, expiries>>,
             requests' \subseteq used,
             \A j \in Instances :
               \/ phase'[j] = phase[j]
               \/ (phase[j] \in {"down", "creating"}
                   /\ phase'[j] \in {"creating", "tasks"})
      PROVE  ElectionInv'
  <2>1. \A j \in Instances : Leads(j)' <=> Leads(j)
    BY <1>1 DEF Leads
  <2>2. LeaderHoldsLock' /\ SessionsKnown'
    BY <1>1, <2>1 DEF LeaderHoldsLock, SessionsKnown
  <2>3. QuietElection'
    BY <1>1 DEF QuietElection, Orphaned
  <2>4. QED BY <2>2, <2>3
<1>2. requests \subseteq used /\ (session[i] # None => session[i] \in used)
  BY DEF SessionsKnown
<1>3. CASE Start(i)
  BY <1>1, <1>2, <1>3 DEF Start
<1>4. CASE Change(i)
  BY <1>1, <1>2, <1>4 DEF Change
<1>5. CASE OtherChange(i)
  BY <1>1, <1>2, <1>5 DEF OtherChange
<1>6. CASE SessionFails(i)
  BY <1>1, <1>2, <1>6 DEF SessionFails
<1>7. CASE Stop(i)
  <2>1. \A j \in Instances : Leads(j)' <=> Leads(j)
    BY <1>7 DEF Stop, Leads
  <2>2. LeaderHoldsLock' /\ SessionsKnown'
    BY <1>7, <2>1 DEF Stop, LeaderHoldsLock, SessionsKnown
  <2>3. crashes' # 0
    BY <1>7 DEF Stop
  <2>4. QED BY <2>2, <2>3 DEF QuietElection
<1>8. CASE Crash(i)
  <2>1. crashes' # 0
    BY <1>8 DEF Crash
  <2>2. QED BY <1>8, <2>1, GoneInv DEF Crash, QuietElection
<1>9. CASE Exit(i)
  <2>1. ~(crashes = 0 /\ expiries = 0) /\ UNCHANGED <<crashes, expiries>>
    BY <1>9 DEF Exit, QuietElection
  <2>2. QED BY <1>9, <2>1, GoneInv DEF Exit, QuietElection
<1>10. CASE Destroy(i)
  <2>1. ~(crashes = 0 /\ expiries = 0) /\ UNCHANGED <<crashes, expiries>>
    BY <1>10 DEF Destroy, QuietElection
  <2>2. QuietElection'
    BY <2>1 DEF QuietElection
  <2>3. \A j \in Instances :
          \/ phase'[j] = phase[j]
          \/ (phase[j] = "stopping" /\ phase'[j] = "stopped")
    BY <1>10 DEF Destroy
  <2>4. CASE session[i] \in live
    BY <1>10, <2>2, <2>3, <2>4, InvalidateInv DEF Destroy
  <2>5. CASE session[i] \notin live
    <3>1. /\ UNCHANGED <<isLeader, session, replies, enqueued, requests, live,
                         used, holder>>
      BY <1>10, <2>5 DEF Destroy
    <3>2. \A j \in Instances : Leads(j)' <=> Leads(j)
      BY <3>1 DEF Leads
    <3>3. LeaderHoldsLock' /\ SessionsKnown'
      BY <2>3, <3>1, <3>2 DEF LeaderHoldsLock, SessionsKnown
    <3>4. QED BY <2>2, <3>3
  <2>6. QED BY <2>4, <2>5
<1>11. QED BY <1>3, <1>4, <1>5, <1>6, <1>7, <1>8, <1>9, <1>10

\* Every step keeps the invariant.
LEMMA ElectionInvNext == TypeOK /\ ElectionInv /\ [Next]_vars => ElectionInv'
<1> SUFFICES ASSUME TypeOK, ElectionInv, [Next]_vars PROVE ElectionInv' OBVIOUS
<1>1. CASE UNCHANGED vars
  BY <1>1 DEF vars, process, consul, faults, ElectionInv, LeaderHoldsLock,
              SessionsKnown, QuietElection, Leads, Orphaned
<1>2. CASE \E i \in Instances :
             \/ Lifecycle(i) \/ Answered(i) \/ Change(i) \/ OtherChange(i)
             \/ SessionFails(i) \/ Stop(i) \/ Crash(i)
  BY <1>2, SessionCreatedInv, AnsweredInv, BootTasksInv, InstanceInv
     DEF Lifecycle
<1>3. CASE \E s \in Sessions : Acquire(s) \/ AcquireFails(s)
  BY <1>3, AcquireInv
<1>4. CASE \E s \in Sessions : ExpireOrphan(s) \/ ExpireRunning(s)
  BY <1>4, ConsulInv
<1>5. CASE DelayEnds
  BY <1>5 DEF DelayEnds, process, faults, ElectionInv, LeaderHoldsLock,
              SessionsKnown, QuietElection, Leads, Orphaned
<1>6. QED BY <1>1, <1>2, <1>3, <1>4, <1>5 DEF Next

\* The invariant holds in every reachable state.
THEOREM ElectionInvariant == Spec => []ElectionInv
<1>1. QED
  BY ElectionTypeCorrect, ElectionInvInit, ElectionInvNext, PTL DEF Spec

\* A leader holds the lock until its session is gone (acquireLock and watch).
THEOREM LeaderLocked == Spec => []LeaderHoldsLock
<1>1. ElectionInv => LeaderHoldsLock
  BY DEF ElectionInv
<1>2. QED BY <1>1, ElectionInvariant, PTL

\* Two leaders at once take a lost session (acquireLock and Consul's sessions).
THEOREM SplitBrainExplained == Spec => []SplitBrainNeedsExpiry
<1>1. ElectionInv => SplitBrainNeedsExpiry
  BY DEF ElectionInv, LeaderHoldsLock, SessionsKnown, SplitBrainNeedsExpiry
<1>2. QED BY <1>1, ElectionInvariant, PTL

\* One instance at most starts the pipeline while no process and no session is
\* lost (TasksService.onApplicationBootstrap).
THEOREM StartsOnce == Spec => []OneEnqueuer
<1>1. ElectionInv => OneEnqueuer
  BY DEF ElectionInv, SessionsKnown, QuietElection, OneEnqueuer
<1>2. QED BY <1>1, ElectionInvariant, PTL

-----------------------------------------------------------------------------
(* The election implements Leadership                                      *)

\* Nobody leads and no session is open at the start.
LEMMA LeadershipInit == Init => Abstract!Init
BY DEF Init, Abstract!Init, Status, Lease, Leads

\* What an instance leads with depends on its session and its belief only.
LEMMA LeaseKept ==
    ASSUME NEW i \in Instances, session'[i] = session[i], Leads(i)' <=> Leads(i)
    PROVE  Lease(i)' = Lease(i)
BY DEF Lease

\* A step that moves neither the lock nor a session nor a belief is none.
LEMMA NothingMoves ==
    ASSUME UNCHANGED <<used, live, holder>>,
           \A i \in Instances : Lease(i)' = Lease(i)
    PROVE  UNCHANGED Abstract!vars
<1>1. [s \in Sessions |-> Status(s)]' = [s \in Sessions |-> Status(s)]
  BY DEF Status
<1>2. [i \in Instances |-> Lease(i)]' = [i \in Instances |-> Lease(i)]
  OBVIOUS
<1>3. QED BY <1>1, <1>2 DEF Abstract!vars

\* An instance that no longer believes it leads has stepped down.
LEMMA SteppingDown ==
    ASSUME ElectionInv, NEW i \in Instances,
           UNCHANGED <<used, live, holder>>,
           ~Leads(i)',
           \A j \in Instances \ {i} : Lease(j)' = Lease(j)
    PROVE  [Abstract!Next]_Abstract!vars
<1>1. Lease(i)' = None
  BY DEF Lease
<1>2. CASE Lease(i) = None
  <2>1. \A j \in Instances : Lease(j)' = Lease(j)
    BY <1>1, <1>2
  <2>2. QED BY <2>1, NothingMoves
<1>3. CASE Lease(i) # None
  <2>1. [s \in Sessions |-> Status(s)]' = [s \in Sessions |-> Status(s)]
    BY DEF Status
  <2>2. [j \in Instances |-> Lease(j)]'
          = [[j \in Instances |-> Lease(j)] EXCEPT ![i] = None]
    BY <1>1
  <2>3. Abstract!StepDown(i)
    BY <1>3, <2>1, <2>2 DEF Abstract!StepDown
  <2>4. QED BY <2>3 DEF Abstract!Next
<1>4. QED BY <1>2, <1>3

\* An invalidated session is closed, and the lock goes with it.
LEMMA Closing ==
    ASSUME TypeOK, ElectionInv, NEW s \in Sessions, s \in live, Invalidate(s),
           UNCHANGED <<isLeader, session, replies>>
    PROVE  [Abstract!Next]_Abstract!vars
<1>1. s \in used /\ live' = live \ {s} /\ used' = used
  BY DEF Invalidate, ElectionInv, SessionsKnown
<1>2. [q \in Sessions |-> Status(q)]'
        = [[q \in Sessions |-> Status(q)] EXCEPT ![s] = "closed"]
  BY <1>1 DEF Status
<1>3. Status(s) = "open"
  BY <1>1 DEF Status
<1>4. holder' = IF holder = s THEN None ELSE holder
  BY DEF Invalidate
<1>5. [i \in Instances |-> Lease(i)]' = [i \in Instances |-> Lease(i)]
  BY DEF Lease, Leads
<1>6. Abstract!Close(s)
  BY <1>2, <1>3, <1>4, <1>5 DEF Abstract!Close
<1>7. QED BY <1>6 DEF Abstract!Next

\* A created session is opened, by an instance that does not lead yet.
LEMMA Opening ==
    ASSUME TypeOK, ElectionInv, NEW i \in Instances, SessionCreated(i)
    PROVE  [Abstract!Next]_Abstract!vars
<1>1. PICK s \in Sessions \ used :
        /\ session' = [session EXCEPT ![i] = s]
        /\ live' = live \cup {s}
        /\ used' = used \cup {s}
        /\ requests' = requests \cup {s}
  BY DEF SessionCreated
<1>2. phase[i] = "creating" /\ UNCHANGED <<isLeader, replies, holder>>
  BY DEF SessionCreated
<1>3. ~Leads(i)
  BY <1>2 DEF ElectionInv, SessionsKnown
<1>4. \A j \in Instances : Leads(j)' <=> Leads(j)
  BY <1>2 DEF Leads
<1>5. \A j \in Instances : Lease(j)' = Lease(j)
  BY <1>1, <1>3, <1>4 DEF Lease, TypeOK
<1>6. [q \in Sessions |-> Status(q)]'
        = [[q \in Sessions |-> Status(q)] EXCEPT ![s] = "open"]
  BY <1>1 DEF Status
<1>7. Status(s) = "unborn"
  BY <1>1 DEF Status
<1>8. [j \in Instances |-> Lease(j)]' = [j \in Instances |-> Lease(j)]
  BY <1>5
<1>9. Abstract!Open(s)
  BY <1>1, <1>2, <1>6, <1>7, <1>8 DEF Abstract!Open
<1>10. QED BY <1>1, <1>9 DEF Abstract!Next

\* An acquire that Consul grants makes a leader of its sender at most, whose
\* session nobody else has; one it refuses, or that is lost, of nobody.
LEMMA Granting ==
    ASSUME TypeOK, ElectionInv, NEW s \in Sessions,
           Acquire(s) \/ AcquireFails(s)
    PROVE  [Abstract!Next]_Abstract!vars
<1>1. UNCHANGED <<isLeader, session, used, live>>
  BY DEF Acquire, AcquireFails
<1>2. [q \in Sessions |-> Status(q)]' = [q \in Sessions |-> Status(q)]
  BY <1>1 DEF Status
<1>3. s # None
  BY SessionAssumption
<1>4. PICK x \in Replies :
        /\ Reply(s, x)
        /\ \/ Granted(s) /\ holder' = s
           \/ x # "true" /\ UNCHANGED holder
  BY DEF Acquire, AcquireFails, Replies
<1>5. \A i \in Instances :
        Leads(i)' <=> Leads(i) \/ (session[i] = s /\ x = "true")
  BY <1>1, <1>4 DEF Leads, Reply, TypeOK
<1>6. CASE \A i \in Instances : Leads(i)' <=> Leads(i)
  <2>1. \A i \in Instances : Lease(i)' = Lease(i)
    BY <1>1, <1>6 DEF Lease
  <2>2. CASE UNCHANGED holder
    BY <1>1, <2>1, <2>2, NothingMoves
  <2>3. CASE Granted(s) /\ holder' = s
    <3>1. [i \in Instances |-> Lease(i)]' = [i \in Instances |-> Lease(i)]
      BY <2>1
    <3>2. Status(s) = "open" /\ holder \in {None, s}
      BY <2>3 DEF Granted, Status, ElectionInv, SessionsKnown
    <3>3. Abstract!Grant(s)
      BY <1>2, <2>3, <3>1, <3>2 DEF Abstract!Grant
    <3>4. QED BY <3>3 DEF Abstract!Next
  <2>4. QED BY <1>4, <2>2, <2>3
<1>7. CASE ~(\A i \in Instances : Leads(i)' <=> Leads(i))
  <2>1. PICK i \in Instances : session[i] = s /\ ~Leads(i) /\ Leads(i)'
    BY <1>5, <1>7
  <2>2. Granted(s) /\ holder' = s
    BY <1>4, <1>5, <2>1
  <2>3. \A j \in Instances \ {i} : session[j] # s
    BY <1>3, <2>1 DEF ElectionInv, SessionsKnown
  <2>4. \A j \in Instances \ {i} : Lease(j)' = Lease(j)
    BY <1>1, <1>5, <2>3 DEF Lease
  <2>5. Lease(i) = None /\ Lease(i)' = s
    BY <1>1, <2>1 DEF Lease
  <2>6. \A j \in Instances : Lease(j) # s
    BY <1>3, <2>3, <2>5 DEF Lease
  <2>7. [j \in Instances |-> Lease(j)]'
          = [[j \in Instances |-> Lease(j)] EXCEPT ![i] = s]
    BY <2>4, <2>5
  <2>8. Status(s) = "open" /\ holder \in {None, s}
    BY <2>2 DEF Granted, Status, ElectionInv, SessionsKnown
  <2>9. Abstract!Grant(s)
    BY <1>2, <2>2, <2>5, <2>6, <2>7, <2>8 DEF Abstract!Grant
  <2>10. QED BY <2>9 DEF Abstract!Next
<1>8. QED BY <1>6, <1>7

\* A reply that arrives is no news for Leadership, unless it takes the belief
\* away.
LEMMA Hearing ==
    ASSUME TypeOK, ElectionInv, NEW i \in Instances, Answered(i)
    PROVE  [Abstract!Next]_Abstract!vars
<1>1. UNCHANGED <<session, used, live, holder>>
  BY DEF Answered, consul
<1>2. PICK x \in replies[i] :
        /\ replies' = [replies EXCEPT ![i] = @ \ {x}]
        /\ isLeader' = [isLeader EXCEPT ![i] =
             IF x = "true" THEN "yes" ELSE IF x = "false" THEN "no" ELSE @]
  BY DEF Answered
<1>3. \A j \in Instances \ {i} : Leads(j)' <=> Leads(j)
  BY <1>2 DEF Leads, TypeOK
<1>4. \A j \in Instances \ {i} : Lease(j)' = Lease(j)
  BY <1>1, <1>3 DEF Lease
<1>5. Leads(i)' => Leads(i)
  BY <1>2 DEF Leads, TypeOK
<1>6. CASE Leads(i)'
  <2>1. \A j \in Instances : Lease(j)' = Lease(j)
    BY <1>1, <1>4, <1>5, <1>6 DEF Lease
  <2>2. QED BY <1>1, <2>1, NothingMoves
<1>7. CASE ~Leads(i)'
  BY <1>1, <1>4, <1>7, SteppingDown
<1>8. QED BY <1>6, <1>7

\* A process that ends steps down, without its session being closed.
LEMMA Leaving ==
    ASSUME TypeOK, ElectionInv, NEW i \in Instances, Gone(i)
    PROVE  [Abstract!Next]_Abstract!vars
<1>1. UNCHANGED <<used, live, holder>>
  BY DEF Gone, consul
<1>2. ~Leads(i)'
  BY DEF Gone, Leads, TypeOK
<1>3. \A j \in Instances \ {i} :
        session'[j] = session[j] /\ (Leads(j)' <=> Leads(j))
  BY DEF Gone, Leads, TypeOK
<1>4. \A j \in Instances \ {i} : Lease(j)' = Lease(j)
  BY <1>3 DEF Lease
<1>5. QED BY <1>1, <1>2, <1>4, SteppingDown

\* Every step is one of Leadership's, or none.
LEMMA LeadershipStep ==
    TypeOK /\ ElectionInv /\ [Next]_vars => [Abstract!Next]_Abstract!vars
<1> SUFFICES ASSUME TypeOK, ElectionInv, [Next]_vars
             PROVE  [Abstract!Next]_Abstract!vars
  OBVIOUS
<1>1. ASSUME UNCHANGED <<isLeader, session, replies, used, live, holder>>
      PROVE  UNCHANGED Abstract!vars
  <2>1. \A i \in Instances : Lease(i)' = Lease(i)
    BY <1>1 DEF Lease, Leads
  <2>2. QED BY <1>1, <2>1, NothingMoves
<1>2. CASE UNCHANGED vars
  BY <1>1, <1>2 DEF vars, process, consul
<1>3. ASSUME NEW i \in Instances,
             \/ Lifecycle(i) \/ Answered(i) \/ Change(i) \/ OtherChange(i)
             \/ SessionFails(i) \/ Stop(i) \/ Crash(i)
      PROVE  [Abstract!Next]_Abstract!vars
  <2>1. CASE Start(i) \/ BootTasks(i) \/ Change(i) \/ OtherChange(i)
             \/ SessionFails(i) \/ Stop(i)
    BY <1>1, <2>1
       DEF Start, BootTasks, Change, OtherChange, SessionFails, Stop, consul
  <2>2. CASE SessionCreated(i)
    BY <2>2, Opening
  <2>3. CASE Answered(i)
    BY <2>3, Hearing
  <2>4. CASE Exit(i) \/ Crash(i)
    BY <2>4, Leaving DEF Exit, Crash
  <2>5. CASE Destroy(i)
    <3>1. UNCHANGED <<isLeader, session, replies>>
      BY <2>5 DEF Destroy
    <3>2. CASE session[i] \in live
      <4>1. session[i] \in Sessions /\ Invalidate(session[i])
        BY <2>5, <3>2 DEF Destroy, TypeOK
      <4>2. QED BY <3>1, <3>2, <4>1, Closing
    <3>3. CASE session[i] \notin live
      BY <1>1, <2>5, <3>1, <3>3 DEF Destroy, consul
    <3>4. QED BY <3>2, <3>3
  <2>6. QED BY <1>3, <2>1, <2>2, <2>3, <2>4, <2>5 DEF Lifecycle
<1>4. ASSUME NEW s \in Sessions,
             Acquire(s) \/ AcquireFails(s) \/ ExpireOrphan(s) \/ ExpireRunning(s)
      PROVE  [Abstract!Next]_Abstract!vars
  <2>1. CASE Acquire(s) \/ AcquireFails(s)
    BY <2>1, Granting
  <2>2. CASE ExpireOrphan(s) \/ ExpireRunning(s)
    <3>1. /\ s \in live /\ Invalidate(s)
          /\ UNCHANGED <<isLeader, session, replies>>
      BY <2>2 DEF ExpireOrphan, ExpireRunning
    <3>2. QED BY <3>1, Closing
  <2>3. QED BY <1>4, <2>1, <2>2
<1>5. CASE DelayEnds
  BY <1>1, <1>5 DEF DelayEnds, process
<1>6. QED BY <1>2, <1>3, <1>4, <1>5 DEF Next

\* The election implements Leadership, for any instances, sessions and faults:
\* nobody comes to lead except by a grant to its open session, however late
\* replies, notices and expiries are (acquireLock and watch of ClusterService).
THEOREM LeadershipImplemented == Spec => ImplementsLeadership
<1>1. Init => Abstract!Init
  BY LeadershipInit
<1>2. QED
  BY <1>1, LeadershipStep, ElectionTypeCorrect, ElectionInvariant, PTL
     DEF Spec, ImplementsLeadership, Abstract!Spec
=============================================================================
