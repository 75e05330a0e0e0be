------------------------ MODULE TaskSchedulingProofs ------------------------
(***************************************************************************)
(* Theorems about TaskScheduling: types, that a second chain of rounds     *)
(* needs a race, and that the chain is lost only when something failed, for *)
(* any instances, jobs, boots and faults.                                  *)
(***************************************************************************)
EXTENDS TaskScheduling, TLAPS

\* A worker has a job while its handler runs, nobody else has it, and BullMQ
\* has it as active or, after a clean-up, not at all.
WorkersOK ==
    /\ \A i \in Instances : running[i] = None <=> step[W(i)] = "idle"
    /\ \A i \in Instances : running[i] \in Verifies => step[W(i)] = "finish"
    /\ \A i \in Instances : running[i] # None =>
         state[running[i]] \in {"active", "none"}
    /\ \A i, k \in Instances :
         (running[i] # None /\ running[i] = running[k]) => i = k
    /\ \A j \in Validates : state[j] # "children"
    /\ \A i \in Instances : step[B(i)] = "add" => seen[B(i)] = {}

\* What a boot check knows that has counted no job yet.
Knows(i) ==
    seen[B(i)] = {} =>
      /\ step[B(i)] = "delayed" => \A j \in Validates : state[j] # "waiting"
      /\ step[B(i)] = "active" =>
           \A j \in Validates : state[j] \notin {"waiting", "delayed"}
      /\ step[B(i)] = "add" =>
           (\A j \in Jobs : ~Pending(j)) /\ (\A k \in Instances : ~Undecided(k))

\* While nothing has slipped past a check, there is one chain, its handler's
\* job is still in the queue, and no boot check misses it.
ChainKnown ==
    ~raced => /\ AtMostOneChain
              /\ \A i \in Instances : Undecided(i) => state[running[i]] = "active"
              /\ \A i \in Instances : Knows(i)

SchedulingInv == TypeOK /\ WorkersOK /\ ChainKnown

-----------------------------------------------------------------------------
(* Types                                                                   *)

\* The two callers of each instance are different ones.
LEMMA CallersApart ==
    /\ \A i \in Instances : B(i) \in Callers /\ W(i) \in Callers
    /\ \A i, k \in Instances : B(i) # W(k)
    /\ \A i, k \in Instances : B(i) = B(k) => i = k
    /\ \A i, k \in Instances : W(i) = W(k) => i = k
    /\ \A i \in Instances : B(i)[2] = "boot" /\ W(i)[2] = "work" /\ W(i)[1] = i
    /\ \A c \in Callers : \E i \in Instances : c = B(i) \/ c = W(i)
BY DEF Callers, B, W

\* The initial state has the types of TypeOK and satisfies the invariant.
LEMMA SchedulingInit == Init => SchedulingInv
<1> SUFFICES ASSUME Init PROVE SchedulingInv
  OBVIOUS
<1>1. TypeOK
  BY CallersApart DEF Init, TypeOK, Steps, Jobs
<1>2. WorkersOK
  BY CallersApart, JobsAssumption DEF Init, WorkersOK, Jobs
<1>3. ChainKnown
  BY CallersApart, JobsAssumption DEF Init, ChainKnown, AtMostOneChain, Pending,
     Undecided, Knows, Jobs
<1>4. QED BY <1>1, <1>2, <1>3 DEF SchedulingInv

\* A worker that is in a handler gives back the job it has.
LEMMA EndsTypes ==
    ASSUME SchedulingInv, NEW i \in Instances, step[W(i)] # "idle", Ends(i)
    PROVE  /\ running[i] \in Jobs
           /\ state' \in [Jobs -> {"none", "delayed", "waiting", "active", "children"}]
           /\ stalled' \in [Jobs -> BOOLEAN]
           /\ running' \in [Instances -> Jobs \cup {None}]
<1>1. running[i] \in Jobs
  BY DEF SchedulingInv, TypeOK, WorkersOK
<1>2. state[running[i]] \in {"none", "delayed", "waiting", "active", "children"}
  BY <1>1 DEF SchedulingInv, TypeOK
<1>3. QED BY <1>1, <1>2 DEF SchedulingInv, TypeOK, Ends

\* Every step keeps the types.
LEMMA SchedulingTypes ==
    ASSUME SchedulingInv, [Next]_vars
    PROVE  TypeOK'
<1> USE CallersApart, JobsAssumption
    DEF queue, callers, history, TypeOK, Steps, Jobs
<1>1. CASE UNCHANGED vars
  BY <1>1 DEF SchedulingInv, vars
<1>2. ASSUME NEW i \in Instances, Boot(i) PROVE TypeOK'
  BY <1>2 DEF SchedulingInv, Boot
<1>3. ASSUME NEW i \in Instances, Clean(i) PROVE TypeOK'
  BY <1>3 DEF SchedulingInv, Clean
<1>4. ASSUME NEW i \in Instances, Count(B(i)) PROVE TypeOK'
  BY <1>4 DEF SchedulingInv, Count, Kind, LastCount, Returned
<1>5. ASSUME NEW i \in Instances, Count(W(i)) PROVE TypeOK'
  BY <1>5 DEF SchedulingInv, Count, Kind, LastCount, Returned
<1>6. ASSUME NEW i \in Instances, Add(B(i)) PROVE TypeOK'
  BY <1>6 DEF SchedulingInv, Add, Appear, Returned
<1>7. ASSUME NEW i \in Instances, Add(W(i)) PROVE TypeOK'
  BY <1>7 DEF SchedulingInv, Add, Appear, Returned
<1>8. ASSUME NEW i \in Instances, TakeValidate(i) \/ TakeVerify(i)
      PROVE TypeOK'
  <2>1. CASE TakeVerify(i)
    BY <2>1 DEF SchedulingInv, TakeVerify
  <2>2. CASE TakeValidate(i)
    <3>1. PICK j \in Validates :
             /\ \/ state' = [state EXCEPT ![j] = "active"]
                \/ \E k \in Verifies :
                     state' = [state EXCEPT ![j] = "active", ![k] = "children"]
             /\ running' = [running EXCEPT ![i] = j]
      BY <2>2 DEF TakeValidate
    <3>2. state' \in [Jobs -> {"none", "delayed", "waiting", "active", "children"}]
      BY <3>1 DEF SchedulingInv
    <3>3. running' \in [Instances -> Jobs \cup {None}]
      BY <3>1 DEF SchedulingInv
    <3>4. QED BY <2>2, <3>2, <3>3 DEF SchedulingInv, TakeValidate
  <2>3. QED BY <1>8, <2>1, <2>2
<1>9. ASSUME NEW i \in Instances, Finish(i) PROVE TypeOK'
  <2>1. step[W(i)] # "idle" /\ Ends(i)
    BY <1>9 DEF Finish
  <2>2. /\ step' \in [Callers -> Steps]
        /\ \A k \in Instances : step'[B(k)] # "finish" /\ step'[W(k)] \notin {"clean", "active"}
    BY <1>9 DEF SchedulingInv, Finish
  <2>3. QED BY <1>9, <2>1, <2>2, EndsTypes DEF SchedulingInv, Finish
<1>10. ASSUME NEW i \in Instances, Die(i) PROVE TypeOK'
  <2>1. step' \in [Callers -> Steps] /\ seen' \in [Callers -> SUBSET {"validate", "verify"}]
    BY <1>10 DEF SchedulingInv, Die
  <2>2. \A k \in Instances : step'[B(k)] # "finish" /\ step'[W(k)] \notin {"clean", "active"}
    BY <1>10 DEF SchedulingInv, Die
  <2>3. up' \in SUBSET Instances /\ running' \in [Instances -> Jobs \cup {None}] /\ faults' \in Nat
    BY <1>10, BoundsAssumption DEF SchedulingInv, Die
  <2>4. raced' \in BOOLEAN /\ failed' \in BOOLEAN
    BY <1>10 DEF SchedulingInv, Die
  <2>5. QED BY <1>10, <2>1, <2>2, <2>3, <2>4 DEF SchedulingInv, Die
<1>11. ASSUME NEW i \in Instances, RedisFails(B(i)) PROVE TypeOK'
  BY <1>11, BoundsAssumption DEF SchedulingInv, RedisFails
<1>12. ASSUME NEW i \in Instances, RedisFails(W(i)) PROVE TypeOK'
  BY <1>12, BoundsAssumption, EndsTypes DEF SchedulingInv, RedisFails
<1>13. ASSUME NEW j \in Jobs, Promote(j) \/ ChildrenDone(j) \/ Stall(j)
       PROVE TypeOK'
  <2>1. CASE Promote(j)
    BY <2>1 DEF SchedulingInv, Promote, Unaware
  <2>2. CASE ChildrenDone(j)
    BY <2>2 DEF SchedulingInv, ChildrenDone
  <2>3. CASE Stall(j)
    <3>1. raced' \in BOOLEAN /\ failed' \in BOOLEAN
      BY <2>3 DEF SchedulingInv, Stall
    <3>2. state' \in [Jobs -> {"none", "delayed", "waiting", "active", "children"}]
          /\ stalled' \in [Jobs -> BOOLEAN]
      BY <2>3 DEF SchedulingInv, Stall
    <3>3. QED BY <2>3, <3>1, <3>2 DEF SchedulingInv, Stall
  <2>4. QED BY <1>13, <2>1, <2>2, <2>3
<1>14. ASSUME NEW c \in Callers, RedisFails(c) PROVE TypeOK'
  <2>1. PICK i \in Instances : c = B(i) \/ c = W(i)
    OBVIOUS
  <2> HIDE DEF TypeOK
  <2>2. QED BY <1>11, <1>12, <1>14, <2>1
<1>15. ASSUME NEW i \in Instances, Boot(i) \/ Check(i) \/ Work(i) \/ Die(i) PROVE TypeOK'
  BY <1>1, <1>2, <1>3, <1>4, <1>5, <1>6, <1>7, <1>8, <1>9, <1>10, <1>15 DEF Work, Check
<1>16. QED BY <1>1, <1>13, <1>14, <1>15 DEF Next

-----------------------------------------------------------------------------
(* Workers and their jobs                                                  *)

\* Every step keeps what is known of workers and their jobs.
LEMMA WorkersStep ==
    ASSUME SchedulingInv, [Next]_vars
    PROVE  WorkersOK'
<1> USE CallersApart, JobsAssumption
    DEF queue, callers, history, Jobs
<1>0. TypeOK /\ WorkersOK
  BY DEF SchedulingInv
<1>1. CASE UNCHANGED vars
  BY <1>0, <1>1 DEF vars, WorkersOK
<1>2. ASSUME NEW i \in Instances, Boot(i) PROVE WorkersOK'
  BY <1>0, <1>2 DEF TypeOK, WorkersOK, Boot
<1>3. ASSUME NEW i \in Instances, Clean(i) PROVE WorkersOK'
  BY <1>0, <1>3 DEF TypeOK, WorkersOK, Clean
<1>4. ASSUME NEW i \in Instances, Count(B(i)) PROVE WorkersOK'
  BY <1>0, <1>4 DEF TypeOK, WorkersOK, Count, LastCount, Returned
<1>5. ASSUME NEW i \in Instances, Count(W(i)) PROVE WorkersOK'
  BY <1>0, <1>5 DEF TypeOK, WorkersOK, Count, LastCount, Returned
<1>6. ASSUME NEW i \in Instances, Add(B(i)) PROVE WorkersOK'
  BY <1>0, <1>6 DEF TypeOK, WorkersOK, Add, Appear, Returned, Unused
<1>7. ASSUME NEW i \in Instances, Add(W(i)) PROVE WorkersOK'
  BY <1>0, <1>7 DEF TypeOK, WorkersOK, Add, Appear, Returned, Unused
<1>8. ASSUME NEW i \in Instances, TakeVerify(i) PROVE WorkersOK'
  BY <1>0, <1>8 DEF TypeOK, WorkersOK, TakeVerify
<1>9. ASSUME NEW i \in Instances, TakeValidate(i) PROVE WorkersOK'
  <2>1. PICK j \in Validates :
           /\ state[j] = "waiting"
           /\ \/ state' = [state EXCEPT ![j] = "active"]
              \/ \E k \in Verifies :
                   Unused(k) /\ state' = [state EXCEPT ![j] = "active",
                                                       ![k] = "children"]
           /\ running' = [running EXCEPT ![i] = j]
    BY <1>9 DEF TakeValidate
  <2>2. /\ running[i] = None /\ step' = [step EXCEPT ![W(i)] = "waiting"]
        /\ seen' = seen
    BY <1>9 DEF TakeValidate
  <2>3. \A k \in Instances : running[k] # j
    BY <1>0, <2>1 DEF WorkersOK
  <2>4. state'[j] = "active" /\ \A k \in Validates : state'[k] # "children"
    BY <1>0, <2>1 DEF TypeOK, WorkersOK
  <2>5. ASSUME NEW k \in Instances, k # i, running[k] # None
        PROVE  state'[running[k]] = state[running[k]]
    BY <1>0, <2>1, <2>3, <2>5 DEF TypeOK, Unused
  <2>6. QED BY <1>0, <2>1, <2>2, <2>3, <2>4, <2>5 DEF TypeOK, WorkersOK
<1>10. ASSUME NEW i \in Instances, Finish(i) PROVE WorkersOK'
  BY <1>0, <1>10 DEF TypeOK, WorkersOK, Finish, Ends
<1>11. ASSUME NEW i \in Instances, Die(i) PROVE WorkersOK'
  BY <1>0, <1>11 DEF TypeOK, WorkersOK, Die
<1>12. ASSUME NEW i \in Instances, RedisFails(B(i)) PROVE WorkersOK'
  BY <1>0, <1>12 DEF TypeOK, WorkersOK, RedisFails
<1>13. ASSUME NEW i \in Instances, RedisFails(W(i)) PROVE WorkersOK'
  <2>1. /\ Ends(i) /\ step[W(i)] \in {"waiting", "delayed", "active", "add", "clean"}
        /\ step' = [step EXCEPT ![W(i)] = "idle"]
        /\ seen' = [seen EXCEPT ![W(i)] = {}]
    BY <1>13 DEF RedisFails
  <2>2. running[i] \in Validates
    BY <1>0, <2>1 DEF TypeOK, WorkersOK
  <2>3. QED BY <1>0, <2>1, <2>2 DEF TypeOK, WorkersOK, Ends
<1>14. ASSUME NEW j \in Jobs, Promote(j) PROVE WorkersOK'
  BY <1>0, <1>14 DEF TypeOK, WorkersOK, Promote
<1>15. ASSUME NEW j \in Jobs, ChildrenDone(j) PROVE WorkersOK'
  BY <1>0, <1>15 DEF TypeOK, WorkersOK, ChildrenDone
<1>16. ASSUME NEW j \in Jobs, Stall(j) PROVE WorkersOK'
  BY <1>0, <1>16 DEF TypeOK, WorkersOK, Stall
<1>17. QED
  BY <1>1, <1>2, <1>3, <1>4, <1>5, <1>6, <1>7, <1>8, <1>9, <1>10, <1>11,
     <1>12, <1>13, <1>14, <1>15, <1>16 DEF Next, Work, Check

-----------------------------------------------------------------------------
(* One chain                                                               *)

\* One chain, as the invariant has it while nothing has raced.
OneChain == /\ AtMostOneChain
            /\ \A i \in Instances : Undecided(i) => state[running[i]] = "active"
            /\ \A i \in Instances : Knows(i)

\* A check that counts keeps the chains; what it has not seen is not there.
LEMMA CountStep ==
    ASSUME SchedulingInv, ~raced, NEW c \in Callers, Count(c)
    PROVE  OneChain'
<1> USE CallersApart, JobsAssumption
    DEF queue, callers, history, Jobs
<1>1. OneChain /\ TypeOK /\ WorkersOK
  BY DEF SchedulingInv, ChainKnown, OneChain
<1>2. /\ state' = state /\ running' = running
      /\ \A d \in Callers : d # c => step'[d] = step[d] /\ seen'[d] = seen[d]
  BY <1>1 DEF Count, TypeOK
<1>3. ASSUME NEW i \in Instances, c = W(i) PROVE Undecided(i)' => Undecided(i)
  BY <1>1, <1>2, <1>3 DEF Count, Undecided, LastCount, Returned, TypeOK
<1>4. \A i \in Instances : Undecided(i)' => Undecided(i)
  BY <1>2, <1>3 DEF Undecided
<1>5. \A j \in Jobs : Pending(j)' <=> Pending(j)
  BY <1>2 DEF Pending
<1>6. AtMostOneChain'
  BY <1>1, <1>4, <1>5 DEF OneChain, AtMostOneChain
<1>7. \A i \in Instances : Undecided(i)' => state'[running'[i]] = "active"
  BY <1>1, <1>2, <1>4 DEF OneChain
<1>8. ASSUME NEW i \in Instances PROVE Knows(i)'
  <2>1. CASE c # B(i)
    BY <1>1, <1>2, <1>4, <1>5, <2>1 DEF OneChain, Knows
  <2>2. CASE c = B(i)
    <3> SUFFICES ASSUME seen'[c] = {}, step'[c] \in {"delayed", "active", "add"}
                 PROVE  Knows(i)'
      BY <2>2 DEF Knows
    <3> DEFINE counted == seen[c] \cup {Kind(k) : k \in {l \in Jobs : state[l] = step[c]}}
    <3>0. counted = {}
      BY <1>1, <2>2 DEF Count, TypeOK, LastCount, Returned
    <3>1. /\ seen[c] = {} /\ \A k \in Jobs : state[k] # step[c]
          /\ step[c] \in {"waiting", "delayed", "active"}
      <4>1. step[c] \in {"waiting", "delayed", "active"}
        BY DEF Count
      <4>2. ASSUME NEW k \in Jobs, state[k] = step[c] PROVE FALSE
        <5>1. Kind(k) \in counted
          BY <4>2
        <5>2. QED BY <3>0, <5>1
      <4>3. QED BY <3>0, <4>1, <4>2
    <3>2. CASE step[c] = "waiting"
      BY <1>1, <1>2, <2>2, <3>1, <3>2 DEF Count, Knows, LastCount, TypeOK
    <3>3. CASE step[c] = "delayed"
      BY <1>1, <1>2, <2>2, <3>1, <3>3 DEF Count, Knows, LastCount, TypeOK, OneChain
    <3>4. CASE step[c] = "active"
      <4>1. \A k \in Validates : state[k] \notin {"waiting", "delayed", "active"}
        BY <1>1, <2>2, <3>1, <3>4 DEF OneChain, Knows
      <4>2. \A k \in Jobs : ~Pending(k)
        BY <4>1 DEF Pending
      <4>3. \A k \in Instances : ~Undecided(k)
        BY <1>1, <4>1 DEF OneChain, Undecided
      <4>4. step'[c] = "add"
        BY <1>1, <2>2, <3>4 DEF Count, LastCount, Returned, TypeOK
      <4>5. QED BY <1>4, <1>5, <2>2, <4>2, <4>3, <4>4 DEF Knows
    <3>5. QED BY <3>1, <3>2, <3>3, <3>4
  <2>3. QED BY <2>1, <2>2
<1>9. QED BY <1>6, <1>7, <1>8 DEF OneChain

\* A step that starts no chain, and shows no check's back a job, keeps the
\* invariant: what remains is unique, in the queue and known.
LEMMA NothingNew ==
    ASSUME OneChain,
           \A j \in Jobs : Pending(j)' => Pending(j) /\ state'[j] = state[j],
           \A k \in Instances :
             Undecided(k)' => /\ Undecided(k) /\ running'[k] = running[k]
                              /\ state'[running[k]] = state[running[k]],
           \A j \in Validates : state'[j] \in {"waiting", "delayed"} => Pending(j)',
           \A k \in Instances :
             \/ step'[B(k)] \in {"idle", "clean", "waiting"}
             \/ step'[B(k)] = step[B(k)] /\ seen'[B(k)] = seen[B(k)]
    PROVE  OneChain'
<1>1. AtMostOneChain'
  BY DEF OneChain, AtMostOneChain
<1>2. \A k \in Instances : Undecided(k)' => state'[running'[k]] = "active"
  BY DEF OneChain
<1>3. ASSUME NEW k \in Instances PROVE Knows(k)'
  BY DEF OneChain, Knows, Jobs
<1>4. QED BY <1>1, <1>2, <1>3 DEF OneChain

\* The steps in which an instance starts, dies, finishes or loses its job.
LEMMA QuietStep ==
    ASSUME SchedulingInv, ~raced', NEW i \in Instances,
           \/ Boot(i) \/ Clean(i) \/ TakeVerify(i) \/ Finish(i)
           \/ RedisFails(B(i)) \/ RedisFails(W(i)),
           ~raced
    PROVE  OneChain'
<1> USE CallersApart, JobsAssumption
    DEF queue, callers, history, Jobs
<1>1. OneChain /\ TypeOK /\ WorkersOK
  BY DEF SchedulingInv, ChainKnown, OneChain
<1>2. CASE Boot(i)
  <2>1. step'[B(i)] \in {step[B(i)], "clean", "waiting"}
    BY <1>1, <1>2 DEF Boot, TypeOK
  <2>2. /\ UNCHANGED <<state, running, seen>>
        /\ \A c \in Callers : c # B(i) => step'[c] = step[c]
    BY <1>1, <1>2 DEF Boot, TypeOK
  <2>3. QED BY <1>1, <2>1, <2>2, NothingNew DEF Pending, Undecided
<1>3. CASE Clean(i)
  <2>1. /\ \A j \in Validates : state'[j] = "none"
        /\ UNCHANGED <<running, seen>>
        /\ step' = [step EXCEPT ![B(i)] = "waiting"]
    BY <1>3 DEF Clean
  <2>2. \A k \in Instances : ~Undecided(k)'
    BY <1>1, <1>3, <2>1 DEF Clean, Undecided, TypeOK, WorkersOK
  <2>3. \A j \in Jobs : ~Pending(j)'
    BY <2>1 DEF Pending
  <2>4. QED BY <1>1, <2>1, <2>2, <2>3, NothingNew DEF TypeOK
<1>4. CASE TakeVerify(i)
  <2>1. PICK j \in Verifies :
           /\ state[j] = "waiting" /\ state' = [state EXCEPT ![j] = "active"]
           /\ running' = [running EXCEPT ![i] = j]
    BY <1>4 DEF TakeVerify
  <2>2. /\ running[i] = None /\ seen' = seen
        /\ step' = [step EXCEPT ![W(i)] = "finish"]
    BY <1>4 DEF TakeVerify
  <2>3. \A k \in Validates : Pending(k)' <=> Pending(k)
    BY <1>1, <2>1, <2>2 DEF Pending, TypeOK
  <2>4. \A k \in Instances : Undecided(k)' => k # i /\ Undecided(k)
    BY <1>1, <2>1, <2>2 DEF Undecided, TypeOK
  <2>5. \A k \in Verifies : ~Pending(k)' /\ ~Pending(k)
    BY DEF Pending
  <2>6. \A k \in Validates : state'[k] = state[k]
    BY <1>1, <2>1 DEF TypeOK
  <2>7. QED BY <1>1, <2>1, <2>2, <2>3, <2>4, <2>5, <2>6, NothingNew
            DEF Pending, Undecided, TypeOK
<1>5. ASSUME step[W(i)] # "idle", Ends(i),
             step' = [step EXCEPT ![W(i)] = "idle"],
             \A k \in Instances : seen'[B(k)] = seen[B(k)]
      PROVE  OneChain'
  <2>1. running[i] \in Jobs
    BY <1>1, <1>5 DEF TypeOK, WorkersOK
  <2>2. /\ state'[running[i]] \notin {"waiting", "delayed", "active"}
        /\ \A j \in Jobs : j # running[i] => state'[j] = state[j]
        /\ running' = [running EXCEPT ![i] = None]
    BY <1>1, <1>5, <2>1 DEF Ends, TypeOK, WorkersOK
  <2>3. \A j \in Jobs : Pending(j)' => Pending(j) /\ state'[j] = state[j]
    BY <1>1, <2>1, <2>2 DEF Pending, TypeOK
  <2>4. \A k \in Instances : Undecided(k)' => k # i /\ Undecided(k)
    BY <1>1, <1>5, <2>2 DEF Undecided, TypeOK
  <2>5. \A k \in Instances : Undecided(k)' =>
          /\ Undecided(k) /\ running'[k] = running[k]
          /\ state'[running[k]] = state[running[k]]
    BY <1>1, <2>1, <2>2, <2>4 DEF Undecided, TypeOK, WorkersOK
  <2>6. \A k \in Instances : step'[B(k)] = step[B(k)]
    BY <1>1, <1>5 DEF TypeOK
  <2>7. \A j \in Validates : state'[j] \in {"waiting", "delayed"} => Pending(j)'
    BY DEF Pending
  <2>8. QED BY <1>1, <1>5, <2>3, <2>5, <2>6, <2>7, NothingNew
<1>6. CASE Finish(i)
  BY <1>1, <1>5, <1>6 DEF Finish
<1>7. CASE RedisFails(W(i))
  BY <1>1, <1>5, <1>7 DEF RedisFails, TypeOK
<1>8. CASE RedisFails(B(i))
  <2>1. /\ UNCHANGED <<state, running>>
        /\ step' = [step EXCEPT ![B(i)] = "idle"]
        /\ \A k \in Instances : k # i => seen'[B(k)] = seen[B(k)]
    BY <1>1, <1>8 DEF RedisFails, TypeOK
  <2>2. QED BY <1>1, <2>1, NothingNew DEF Pending, Undecided, TypeOK
<1>9. QED BY <1>2, <1>3, <1>4, <1>6, <1>7, <1>8

\* A boot check that adds a job has found no chain; no other check misses it.
LEMMA BootAddStep ==
    ASSUME SchedulingInv, ~raced, ~raced', NEW i \in Instances, Add(B(i))
    PROVE  OneChain'
<1> USE CallersApart, JobsAssumption
    DEF queue, callers, history, Jobs
<1>1. OneChain /\ TypeOK /\ WorkersOK
  BY DEF SchedulingInv, ChainKnown, OneChain
<1>2. (\A j \in Jobs : ~Pending(j)) /\ (\A k \in Instances : ~Undecided(k))
  BY <1>1 DEF Add, OneChain, Knows, WorkersOK
<1>3. PICK j \in Validates : Unused(j) /\ state' = [state EXCEPT ![j] = "waiting"]
  BY DEF Add, Appear
<1>4. /\ running' = running /\ seen' = seen
      /\ step' = [step EXCEPT ![B(i)] = "idle"]
  BY DEF Add, Returned
<1>5. \A k \in Instances : ~Undecided(k)'
  BY <1>1, <1>2, <1>4 DEF Undecided, TypeOK
<1>6. \A k \in Jobs : Pending(k)' => k = j
  BY <1>1, <1>2, <1>3, <1>4 DEF Pending, TypeOK
<1>7. ASSUME NEW k \in Instances PROVE Knows(k)'
  <2>1. CASE k = i
    BY <1>1, <1>4, <2>1 DEF Knows, TypeOK
  <2>2. CASE k # i
    <3>1. seen[B(k)] # {} \/ step[B(k)] \notin {"delayed", "active", "add"}
      BY <2>2 DEF Add, Missed
    <3>2. step'[B(k)] = step[B(k)] /\ seen'[B(k)] = seen[B(k)]
      BY <1>1, <1>4, <2>2 DEF TypeOK
    <3>3. QED BY <3>1, <3>2 DEF Knows
  <2>3. QED BY <2>1, <2>2
<1>8. QED BY <1>5, <1>6, <1>7 DEF OneChain, AtMostOneChain

\* A worker that adds a job gives its chain to it.
LEMMA WorkerAddStep ==
    ASSUME SchedulingInv, ~raced, ~raced', NEW i \in Instances, Add(W(i))
    PROVE  OneChain'
<1> USE CallersApart, JobsAssumption
    DEF queue, callers, history, Jobs
<1>1. OneChain /\ TypeOK /\ WorkersOK
  BY DEF SchedulingInv, ChainKnown, OneChain
<1>2. Undecided(i)
  BY <1>1 DEF Add, Undecided, TypeOK, WorkersOK
<1>3. PICK j \in Validates : Unused(j) /\ state' = [state EXCEPT ![j] = "delayed"]
  BY DEF Add, Appear
<1>4. /\ running' = running /\ seen' = seen
      /\ step' = [step EXCEPT ![W(i)] = "finish"]
  BY DEF Add, Returned
<1>5. \A k \in Instances : ~Undecided(k)'
  <2>1. \A k \in Instances : Undecided(k) => k = i
    BY <1>1, <1>2 DEF OneChain, AtMostOneChain
  <2>2. QED BY <1>1, <1>4, <2>1 DEF Undecided, TypeOK
<1>6. \A k \in Jobs : ~Pending(k)
  BY <1>1, <1>2 DEF OneChain, AtMostOneChain
<1>7. \A k \in Jobs : Pending(k)' => k = j
  BY <1>1, <1>3, <1>4, <1>6 DEF Pending, TypeOK
<1>8. \A k \in Validates : state[k] \notin {"waiting", "delayed"}
  BY <1>6 DEF Pending
<1>9. ASSUME NEW k \in Instances PROVE Knows(k)'
  <2>1. seen[B(k)] # {} \/ step[B(k)] \notin {"active", "add"}
    BY DEF Add, Missed
  <2>2. step'[B(k)] = step[B(k)] /\ seen'[B(k)] = seen[B(k)]
    BY <1>1, <1>4 DEF TypeOK
  <2>3. \A l \in Validates : state'[l] # "waiting"
    BY <1>1, <1>3, <1>8 DEF TypeOK
  <2>4. QED BY <2>1, <2>2, <2>3 DEF Knows
<1>10. QED BY <1>5, <1>7, <1>9 DEF OneChain, AtMostOneChain

\* A worker that takes a validate job takes its chain over.
LEMMA TakeValidateStep ==
    ASSUME SchedulingInv, ~raced, NEW i \in Instances, TakeValidate(i)
    PROVE  OneChain'
<1> USE CallersApart, JobsAssumption
    DEF queue, callers, history, Jobs
<1>1. OneChain /\ TypeOK /\ WorkersOK
  BY DEF SchedulingInv, ChainKnown, OneChain
<1>2. PICK j \in Validates :
         /\ state[j] = "waiting"
         /\ \/ state' = [state EXCEPT ![j] = "active"]
            \/ \E k \in Verifies : state' = [state EXCEPT ![j] = "active",
                                                          ![k] = "children"]
         /\ running' = [running EXCEPT ![i] = j]
  BY DEF TakeValidate
<1>3. step' = [step EXCEPT ![W(i)] = "waiting"] /\ seen' = seen
  BY DEF TakeValidate
<1>4. /\ Pending(j)
      /\ \A k \in Jobs : Pending(k) => k = j
      /\ \A k \in Instances : ~Undecided(k)
  <2>1. Pending(j)
    BY <1>2 DEF Pending
  <2>2. QED BY <1>1, <2>1 DEF OneChain, AtMostOneChain
<1>5. state'[j] = "active" /\ \A k \in Validates : k # j => state'[k] = state[k]
  BY <1>1, <1>2 DEF TypeOK
<1>6. \A k \in Jobs : ~Pending(k)'
  <2>1. ASSUME NEW k \in Validates, k # j PROVE ~Pending(k)'
    <3>1. ~Pending(k) /\ state'[k] = state[k]
      BY <1>4, <1>5, <2>1
    <3>2. ASSUME NEW l \in Instances, running[l] = k PROVE running'[l] = k
      <4>1. running[i] = None
        BY DEF TakeValidate
      <4>2. QED BY <1>1, <1>2, <3>2, <4>1 DEF TypeOK
    <3>3. QED BY <3>1, <3>2 DEF Pending
  <2>2. ~Pending(j)'
    BY <1>1, <1>2, <1>5 DEF Pending, TypeOK
  <2>3. QED BY <2>1, <2>2 DEF Pending
<1>7. \A k \in Instances : Undecided(k)' => k = i
  BY <1>1, <1>2, <1>3, <1>4 DEF Undecided, TypeOK
<1>8. running'[i] = j
  BY <1>1, <1>2 DEF TypeOK
<1>9. ASSUME NEW k \in Instances PROVE Knows(k)'
  <2>1. step'[B(k)] = step[B(k)] /\ seen'[B(k)] = seen[B(k)]
    BY <1>1, <1>3 DEF TypeOK
  <2>2. ~(seen[B(k)] = {} /\ step[B(k)] = "add")
    BY <1>1, <1>4 DEF OneChain, Knows
  <2>3. Knows(k)
    BY <1>1 DEF OneChain
  <2>4. \A l \in Validates : state'[l] \in {"waiting", "delayed"} => state'[l] = state[l]
    BY <1>5
  <2>5. (seen'[B(k)] = {} /\ step'[B(k)] = "delayed") =>
          \A l \in Validates : state'[l] # "waiting"
    BY <2>1, <2>3, <2>4 DEF Knows
  <2>6. (seen'[B(k)] = {} /\ step'[B(k)] = "active") =>
          \A l \in Validates : state'[l] \notin {"waiting", "delayed"}
    BY <2>1, <2>3, <2>4 DEF Knows
  <2>7. QED BY <2>1, <2>2, <2>5, <2>6 DEF Knows
<1>10. QED BY <1>5, <1>6, <1>7, <1>8, <1>9 DEF OneChain, AtMostOneChain

\* When an instance dies the job of its worker is pending again, unless it has
\* passed its chain on.
LEMMA DieStep ==
    ASSUME SchedulingInv, ~raced, ~raced', NEW i \in Instances, Die(i)
    PROVE  OneChain'
<1> USE CallersApart, JobsAssumption
    DEF queue, callers, history, Jobs
<1>1. OneChain /\ TypeOK /\ WorkersOK
  BY DEF SchedulingInv, ChainKnown, OneChain
<1>2. /\ state' = state /\ running' = [running EXCEPT ![i] = None]
      /\ step' = [step EXCEPT ![B(i)] = "idle", ![W(i)] = "idle"]
      /\ seen' = [seen EXCEPT ![B(i)] = {}, ![W(i)] = {}]
  BY DEF Die
<1>3. running[i] \in Validates => Undecided(i)
  <2>0. ~(running[i] \in Validates /\ step[W(i)] = "finish")
    BY DEF Die
  <2>1. running[i] \in Validates => step[W(i)] \notin {"finish", "idle", "active", "clean"}
    <3>1. running[i] \in Validates => running[i] # None
      OBVIOUS
    <3>2. running[i] # None => step[W(i)] # "idle"
      BY <1>1 DEF WorkersOK
    <3>3. step[W(i)] \notin {"clean", "active"}
      BY <1>1 DEF TypeOK
    <3>4. QED BY <2>0, <3>1, <3>2, <3>3
  <2>2. step[W(i)] \in Steps
    BY <1>1 DEF TypeOK
  <2>3. QED BY <2>1, <2>2 DEF Undecided, Steps
<1>4. \A k \in Instances : Undecided(k)' => k # i /\ Undecided(k)
  BY <1>1, <1>2 DEF Undecided, TypeOK
<1>5. \A j \in Jobs : Pending(j)' => Pending(j) \/ (Undecided(i) /\ j = running[i])
  BY <1>1, <1>2, <1>3 DEF Pending, TypeOK
<1>6. AtMostOneChain'
  <2>1. CASE Undecided(i)
    <3>1. /\ \A j \in Jobs : ~Pending(j)
          /\ \A k \in Instances : Undecided(k) => k = i
      BY <1>1, <2>1 DEF OneChain, AtMostOneChain
    <3>2. QED BY <1>4, <1>5, <3>1 DEF AtMostOneChain
  <2>2. CASE ~Undecided(i)
    BY <1>1, <1>4, <1>5, <2>2 DEF OneChain, AtMostOneChain
  <2>3. QED BY <2>1, <2>2
<1>7. \A k \in Instances : Undecided(k)' => state'[running'[k]] = "active"
  BY <1>1, <1>2, <1>4 DEF OneChain, TypeOK
<1>8. ASSUME NEW k \in Instances PROVE Knows(k)'
  <2>1. CASE k = i
    BY <1>1, <1>2, <2>1 DEF Knows, TypeOK
  <2>2. CASE k # i
    <3>1. step'[B(k)] = step[B(k)] /\ seen'[B(k)] = seen[B(k)]
      BY <1>1, <1>2, <2>2 DEF TypeOK
    <3>2. Knows(k)
      BY <1>1 DEF OneChain
    <3>3. (seen[B(k)] = {} /\ step[B(k)] = "add") =>
            (\A j \in Jobs : ~Pending(j)') /\ (\A l \in Instances : ~Undecided(l)')
      BY <1>4, <1>5, <3>2 DEF Knows
    <3>4. (seen'[B(k)] = {} /\ step'[B(k)] = "delayed") =>
            \A j \in Validates : state'[j] # "waiting"
      BY <1>2, <3>1, <3>2 DEF Knows
    <3>5. (seen'[B(k)] = {} /\ step'[B(k)] = "active") =>
            \A j \in Validates : state'[j] \notin {"waiting", "delayed"}
      BY <1>2, <3>1, <3>2 DEF Knows
    <3>6. QED BY <3>1, <3>3, <3>4, <3>5 DEF Knows
  <2>3. QED BY <2>1, <2>2
<1>9. QED BY <1>6, <1>7, <1>8 DEF OneChain

\* A job that is promoted, whose children are done or that stalls stays the one
\* job of its chain.
LEMMA QueueStep ==
    ASSUME SchedulingInv, ~raced, ~raced', NEW j \in Jobs,
           Promote(j) \/ ChildrenDone(j) \/ Stall(j)
    PROVE  OneChain'
<1> USE CallersApart, JobsAssumption
    DEF queue, callers, history, Jobs
<1>1. OneChain /\ TypeOK /\ WorkersOK
  BY DEF SchedulingInv, ChainKnown, OneChain
<1>2. /\ \E x \in {"waiting", "none"} : state' = [state EXCEPT ![j] = x]
      /\ UNCHANGED <<running, step, seen>>
  BY DEF Promote, ChildrenDone, Stall
<1>3. \A k \in Instances : running[k] # j
  BY <1>1 DEF Promote, ChildrenDone, Stall, WorkersOK, TypeOK
<1>4. j \in Validates => Pending(j)
  BY <1>1, <1>3 DEF Promote, ChildrenDone, Stall, WorkersOK, Pending
<1>5. \A k \in Jobs : k # j => state'[k] = state[k]
  BY <1>1, <1>2 DEF TypeOK
<1>6. \A k \in Jobs : Pending(k)' => Pending(k)
  BY <1>2, <1>4, <1>5 DEF Pending
<1>7. \A k \in Instances : Undecided(k)' <=> Undecided(k)
  BY <1>2 DEF Undecided
<1>8. \A k \in Instances : Undecided(k)' => state'[running'[k]] = "active"
  BY <1>1, <1>2, <1>3, <1>5, <1>7 DEF OneChain, TypeOK, Undecided
<1>9. ASSUME NEW k \in Instances PROVE Knows(k)'
  <2>1. CASE j \notin Validates
    BY <1>1, <1>2, <1>5, <1>6, <1>7, <2>1 DEF OneChain, Knows
  <2>2. CASE j \in Validates
    <3> SUFFICES ASSUME seen[B(k)] = {}, step[B(k)] \in {"delayed", "active", "add"}
                 PROVE  FALSE
      BY <1>2 DEF Knows
    <3>1. step[B(k)] # "add"
      BY <1>1, <1>4, <2>2 DEF OneChain, Knows
    <3>2. ~Stall(j)
      BY <2>2, <3>1 DEF Stall, Unaware
    <3>3. ~ChildrenDone(j)
      BY <1>1, <2>2 DEF ChildrenDone, WorkersOK
    <3>4. step[B(k)] # "active" \/ ~Promote(j)
      BY <1>1, <2>2 DEF Promote, OneChain, Knows
    <3>5. step[B(k)] # "delayed" \/ ~Promote(j)
      BY DEF Promote, Unaware
    <3>6. QED BY <3>1, <3>2, <3>3, <3>4, <3>5
  <2>3. QED BY <2>1, <2>2
<1>10. QED BY <1>1, <1>6, <1>7, <1>8, <1>9 DEF OneChain, AtMostOneChain

\* The invariant is inductive.
LEMMA SchedulingStep == SchedulingInv /\ [Next]_vars => SchedulingInv'
<1> SUFFICES ASSUME SchedulingInv, [Next]_vars PROVE SchedulingInv'
  OBVIOUS
<1>1. TypeOK' /\ WorkersOK'
  BY SchedulingTypes, WorkersStep
<1>2. ASSUME ~raced' PROVE OneChain'
  <2>1. ~raced
    BY <1>2 DEF Next, Check, Work, Boot, Clean, Count, Add, TakeValidate,
       TakeVerify, Finish, Die, RedisFails, Promote, ChildrenDone, Stall, vars,
       history
  <2>2. CASE UNCHANGED vars
    BY <2>1, <2>2 DEF vars, queue, callers, history, SchedulingInv,
       ChainKnown, OneChain, AtMostOneChain, Knows, Pending, Undecided
  <2>3. ASSUME NEW i \in Instances, Boot(i) \/ Check(i) \/ Work(i) \/ Die(i)
        PROVE  OneChain'
    <3>1. B(i) \in Callers /\ W(i) \in Callers
      BY CallersApart
    <3>2. QED
      BY <1>2, <2>1, <2>3, <3>1, CountStep, QuietStep, BootAddStep,
         WorkerAddStep, TakeValidateStep, DieStep DEF Check, Work
  <2>4. ASSUME NEW c \in Callers, RedisFails(c) PROVE OneChain'
    <3>1. PICK i \in Instances : c = B(i) \/ c = W(i)
      BY CallersApart
    <3>2. QED BY <1>2, <2>1, <2>4, <3>1, QuietStep
  <2>5. ASSUME NEW j \in Jobs, Promote(j) \/ ChildrenDone(j) \/ Stall(j)
        PROVE  OneChain'
    BY <1>2, <2>1, <2>5, QueueStep
  <2>6. QED BY <2>2, <2>3, <2>4, <2>5 DEF Next
<1>3. QED BY <1>1, <1>2 DEF SchedulingInv, ChainKnown, OneChain

-----------------------------------------------------------------------------
(* The chain is kept                                                       *)

\* A handler that has seen no validate job, so it may still queue the next one.
MayQueue(k) ==
    /\ running[k] \in Validates /\ state[running[k]] = "active"
    /\ step[W(k)] \in {"waiting", "delayed", "add"}
    /\ "validate" \notin seen[W(k)]

\* The chain goes on: with a job, or with such a handler.
Chain == (\E j \in Jobs : Pending(j)) \/ (\E k \in Instances : MayQueue(k))

\* A handler that will not queue a successor: it has seen one, or has one.
Passed(k) ==
    /\ running[k] \in Validates /\ state[running[k]] = "active"
    /\ step[W(k)] = "finish" \/ "validate" \in seen[W(k)]

\* A boot check that may still queue a first job.
MayStart(i) == step[B(i)] # "idle" /\ "validate" \notin seen[B(i)]

\* A check has counted nothing before it begins and when it has decided.
StartsEmpty(i) ==
    /\ i \notin up => step[B(i)] = "idle"
    /\ step[B(i)] \in {"idle", "clean", "add"} => seen[B(i)] = {}
    /\ step[W(i)] \in {"idle", "add", "finish"} => seen[W(i)] = {}

\* While nothing failed, whoever does not go on has left the chain to others.
ChainKept ==
    /\ \A i \in Instances : StartsEmpty(i)
    /\ (~blocked /\ ~failed) =>
         /\ (\E k \in Instances : Passed(k)) => Chain
         /\ begun => Chain \/ \E i \in Instances : MayStart(i)

\* A step keeps the chain known if it keeps the chain, makes no handler pass it
\* on without keeping it, and no check stop that might have started one.
LEMMA ChainFrame ==
    ASSUME ChainKept, ~blocked, ~failed,
           Chain => Chain',
           \A k \in Instances : Passed(k)' => Passed(k) \/ Chain',
           begun' => begun \/ Chain',
           \A i \in Instances : MayStart(i) =>
             Chain' \/ \E k \in Instances : MayStart(k)'
    PROVE  /\ (\E k \in Instances : Passed(k)') => Chain'
           /\ begun' => Chain' \/ \E i \in Instances : MayStart(i)'
BY DEF ChainKept

\* What the steps of the queue and of workers without a decision leave alone.
LEMMA KeptByQuiet ==
    ASSUME SchedulingInv, ChainKept, ~blocked, ~failed, ~failed',
           \/ \E i \in Instances : Boot(i) \/ TakeVerify(i) \/ Finish(i) \/ Die(i)
           \/ \E j \in Jobs : Promote(j) \/ ChildrenDone(j) \/ Stall(j)
    PROVE  /\ (\E k \in Instances : Passed(k)') => Chain'
           /\ begun' => Chain' \/ \E i \in Instances : MayStart(i)'
<1> USE CallersApart, JobsAssumption
    DEF queue, callers, history, Jobs
<1>0. TypeOK /\ WorkersOK
  BY DEF SchedulingInv
<1>1. ASSUME NEW i \in Instances, Boot(i) PROVE
          /\ UNCHANGED <<state, running, seen, begun>>
          /\ \A k \in Instances : step'[W(k)] = step[W(k)]
          /\ \A k \in Instances : step[B(k)] # "idle" => step'[B(k)] # "idle"
  BY <1>0, <1>1 DEF Boot, TypeOK
<1>2. CASE \E i \in Instances : Boot(i)
  BY <1>1, <1>2, ChainFrame DEF Chain, Pending, MayQueue, Passed, MayStart
<1>3. ASSUME NEW i \in Instances, TakeVerify(i) PROVE
          /\ Chain => Chain'
          /\ \A k \in Instances : Passed(k)' => Passed(k)
          /\ begun' = begun /\ \A k \in Instances : MayStart(k) => MayStart(k)'
  <2>1. PICK j \in Verifies :
           /\ state[j] = "waiting" /\ state' = [state EXCEPT ![j] = "active"]
           /\ running' = [running EXCEPT ![i] = j]
    BY <1>3 DEF TakeVerify
  <2>2. /\ running[i] = None /\ seen' = seen /\ begun' = begun
        /\ step' = [step EXCEPT ![W(i)] = "finish"]
    BY <1>3 DEF TakeVerify
  <2>3. \A l \in Validates : state'[l] = state[l] /\ (Pending(l) => Pending(l)')
    BY <1>0, <2>1, <2>2 DEF Pending, TypeOK
  <2>4. \A k \in Instances : k # i =>
          running'[k] = running[k] /\ step'[W(k)] = step[W(k)]
    BY <1>0, <2>1, <2>2 DEF TypeOK
  <2>5. running'[i] = j /\ j \notin Validates /\ ~MayQueue(i)
    BY <1>0, <2>1, <2>2 DEF TypeOK, MayQueue
  <2>6. \A k \in Instances : MayQueue(k) => MayQueue(k)'
    BY <2>2, <2>3, <2>4, <2>5 DEF MayQueue
  <2>7. \A k \in Instances : Passed(k)' => Passed(k)
    BY <2>2, <2>3, <2>4, <2>5 DEF Passed
  <2>8. \A k \in Instances : MayStart(k) => MayStart(k)'
    BY <1>0, <2>2 DEF MayStart, TypeOK
  <2>9. Chain => Chain'
    <3>1. \A l \in Jobs : Pending(l) => Pending(l)'
      BY <2>3 DEF Pending
    <3>2. QED BY <2>6, <3>1 DEF Chain
  <2>10. QED BY <2>2, <2>7, <2>8, <2>9
<1>4. CASE \E i \in Instances : TakeVerify(i)
  BY <1>3, <1>4, ChainFrame
<1>5. ASSUME NEW i \in Instances, Finish(i) PROVE
          /\ (\E k \in Instances : Passed(k)') => Chain'
          /\ begun' => Chain' \/ \E k \in Instances : MayStart(k)'
  <2>1. /\ step[W(i)] = "finish" /\ running[i] \in Jobs /\ seen' = seen
        /\ begun' = begun /\ step' = [step EXCEPT ![W(i)] = "idle"]
        /\ state[running[i]] \in {"active", "none"}
    BY <1>0, <1>5 DEF Finish, TypeOK, WorkersOK
  <2>2. /\ state'[running[i]] = "none"
        /\ \A j \in Jobs : j # running[i] => state'[j] = state[j]
        /\ running' = [running EXCEPT ![i] = None]
    BY <1>0, <1>5, <2>1 DEF Finish, Ends, TypeOK
  <2>3. \A k \in Instances : k # i =>
          /\ running'[k] = running[k] /\ step'[W(k)] = step[W(k)]
          /\ running[k] # running[i]
    BY <1>0, <2>1, <2>2 DEF TypeOK, WorkersOK
  <2>4. \A j \in Jobs : Pending(j) => j # running[i]
    BY <2>1 DEF Pending
  <2>5. \A j \in Jobs : Pending(j) => Pending(j)'
    BY <1>0, <2>2, <2>3, <2>4 DEF Pending, TypeOK
  <2>6. \A k \in Instances : MayQueue(k) => MayQueue(k)'
    <3>1. ~MayQueue(i)
      BY <2>1 DEF MayQueue
    <3>2. QED BY <2>1, <2>2, <2>3, <3>1 DEF MayQueue
  <2>7. \A k \in Instances : Passed(k)' => Passed(k)
    <3>1. ~Passed(i)'
      BY <1>0, <2>2 DEF Passed, TypeOK
    <3>2. QED BY <2>1, <2>2, <2>3, <3>1 DEF Passed
  <2>8. \A k \in Instances : MayStart(k) => MayStart(k)'
    BY <1>0, <2>1 DEF MayStart, TypeOK
  <2>9. QED BY <2>1, <2>5, <2>6, <2>7, <2>8, ChainFrame DEF Chain
<1>6. ASSUME NEW i \in Instances, Die(i) PROVE
          /\ (\E k \in Instances : Passed(k)') => Chain'
          /\ begun' => Chain' \/ \E k \in Instances : MayStart(k)'
  <2>1. /\ step[B(i)] = "idle" /\ state' = state /\ begun' = begun
        /\ running' = [running EXCEPT ![i] = None]
        /\ step' = [step EXCEPT ![B(i)] = "idle", ![W(i)] = "idle"]
        /\ seen' = [seen EXCEPT ![B(i)] = {}, ![W(i)] = {}]
    BY <1>6 DEF Die
  <2>2. \A k \in Instances : k # i =>
          /\ running'[k] = running[k] /\ step'[W(k)] = step[W(k)]
          /\ seen'[W(k)] = seen[W(k)]
          /\ step'[B(k)] = step[B(k)] /\ seen'[B(k)] = seen[B(k)]
    BY <1>0, <2>1 DEF TypeOK
  <2>3. running'[i] = None
    BY <1>0, <2>1 DEF TypeOK
  <2>4. \A j \in Jobs : Pending(j) => Pending(j)'
    BY <2>1, <2>2, <2>3 DEF Pending
  <2>5. ASSUME MayQueue(i), NEW j \in Jobs, j = running[i] PROVE Pending(j)'
    <3>1. j # None /\ \A k \in Instances : k # i => running[k] # j
      BY <1>0, <2>5 DEF MayQueue, WorkersOK
    <3>2. \A k \in Instances : running'[k] # j
      BY <2>2, <2>3, <3>1
    <3>3. QED BY <2>1, <2>5, <3>2 DEF MayQueue, Pending
  <2>6. \A k \in Instances : MayQueue(k) => k = i \/ MayQueue(k)'
    BY <2>1, <2>2 DEF MayQueue
  <2>7. Chain => Chain'
    <3>1. MayQueue(i) => running[i] \in Jobs
      BY DEF MayQueue
    <3>2. QED BY <2>4, <2>5, <2>6, <3>1 DEF Chain
  <2>8. \A k \in Instances : Passed(k)' => Passed(k)
    BY <2>1, <2>2, <2>3 DEF Passed
  <2>9. \A k \in Instances : MayStart(k) => MayStart(k)'
    BY <2>1, <2>2 DEF MayStart
  <2>10. QED BY <2>1, <2>7, <2>8, <2>9, ChainFrame
<1>7. ASSUME NEW j \in Jobs, Promote(j) \/ ChildrenDone(j) \/ Stall(j) PROVE
          /\ (\E k \in Instances : Passed(k)') => Chain'
          /\ begun' => Chain' \/ \E k \in Instances : MayStart(k)'
  <2>1. /\ UNCHANGED <<running, step, seen, begun>>
        /\ \A k \in Instances : running[k] # j
        /\ \A l \in Jobs : l # j => state'[l] = state[l]
    BY <1>0, <1>7 DEF Promote, ChildrenDone, Stall, WorkersOK, TypeOK
  <2>2. j \in Validates => state'[j] = "waiting"
    BY <1>0, <1>7 DEF Promote, ChildrenDone, Stall, WorkersOK, TypeOK
  <2>3. \A l \in Jobs : Pending(l) => Pending(l)'
    BY <2>1, <2>2 DEF Pending
  <2>4. \A k \in Instances :
          /\ MayQueue(k) => MayQueue(k)'
          /\ Passed(k)' => Passed(k)
          /\ MayStart(k) => MayStart(k)'
    BY <2>1 DEF MayQueue, Passed, MayStart
  <2>5. QED BY <2>1, <2>3, <2>4, ChainFrame DEF Chain
<1>8. QED BY <1>2, <1>4, <1>5, <1>6, <1>7

\* A check that has counted passes the chain on only to a job it has seen.
LEMMA KeptByCount ==
    ASSUME SchedulingInv, ChainKept, ~blocked, ~blocked', ~failed,
           NEW c \in Callers, Count(c)
    PROVE  /\ (\E k \in Instances : Passed(k)') => Chain'
           /\ begun' => Chain' \/ \E i \in Instances : MayStart(i)'
<1> USE CallersApart, JobsAssumption
    DEF queue, callers, history, Jobs
<1> DEFINE counted == seen[c] \cup {Kind(k) : k \in {l \in Jobs : state[l] = step[c]}}
<1>0. TypeOK /\ WorkersOK
  BY DEF SchedulingInv
<1>1. /\ UNCHANGED <<state, running, begun>>
      /\ \A d \in Callers : d # c => step'[d] = step[d] /\ seen'[d] = seen[d]
  BY <1>0 DEF Count, TypeOK
<1>2. /\ step[c] \in {"waiting", "delayed", "active"}
      /\ seen'[c] \in {counted, {}}
      /\ \/ counted = {} /\ step'[c] = "add"
         \/ "validate" \in counted /\ step'[c] = Returned(c)
         \/ step[c] # LastCount(c) /\ seen'[c] = counted
             /\ step'[c] = IF step[c] = "waiting" THEN "delayed" ELSE "active"
  <2>1. seen[c] \subseteq {"validate", "verify"}
    BY <1>0 DEF TypeOK
  <2>2. \A k \in Jobs : Kind(k) \in {"validate", "verify"}
    BY DEF Kind
  <2>3. counted = {} \/ counted = {"verify"} \/ "validate" \in counted
    BY <2>1, <2>2
  <2>4. /\ step[c] \in {"waiting", "delayed", "active"}
        /\ seen' = [seen EXCEPT ![c] = IF step[c] = LastCount(c) THEN {} ELSE counted]
        /\ step' = [step EXCEPT ![c] =
               IF step[c] # LastCount(c)
               THEN IF step[c] = "waiting" THEN "delayed" ELSE "active"
               ELSE IF counted = {} THEN "add" ELSE Returned(c)]
        /\ blocked' = (blocked \/ (step[c] = LastCount(c) /\ counted = {"verify"}))
    BY DEF Count
  <2> HIDE DEF counted
  <2>5. seen'[c] = (IF step[c] = LastCount(c) THEN {} ELSE counted)
    BY <1>0, <2>4 DEF TypeOK
  <2>6. step'[c] = (IF step[c] # LastCount(c)
               THEN IF step[c] = "waiting" THEN "delayed" ELSE "active"
               ELSE IF counted = {} THEN "add" ELSE Returned(c))
    BY <1>0, <2>4 DEF TypeOK
  <2>7. ~(step[c] = LastCount(c) /\ counted = {"verify"})
    BY <2>4
  <2>8. QED BY <2>3, <2>4, <2>5, <2>6, <2>7
<1>3. \A j \in Jobs : Pending(j)' <=> Pending(j)
  BY <1>1 DEF Pending
\* A validate job in the counted state is pending, or active with its worker.
<1>4. ASSUME "validate" \in counted, "validate" \notin seen[c]
      PROVE  \E j \in Validates : state[j] = step[c]
  <2>1. PICK j \in Jobs : state[j] = step[c] /\ Kind(j) = "validate"
    BY <1>4
  <2>2. j \in Validates
    BY <2>1 DEF Kind
  <2>3. QED BY <2>1, <2>2
<1>5. ASSUME NEW i \in Instances, c = W(i) PROVE
          /\ "validate" \in counted /\ "validate" \notin seen[c] => Chain'
          /\ Chain => Chain'
          /\ \A k \in Instances : Passed(k)' => Passed(k) \/ Chain'
  <2>1. step[c] \in {"waiting", "delayed"} /\ LastCount(c) = "delayed"
        /\ Returned(c) = "finish"
    BY <1>0, <1>2, <1>5 DEF TypeOK, LastCount, Returned
  <2>2. ("validate" \in counted /\ "validate" \notin seen[c]) => Chain'
    <3> HAVE "validate" \in counted /\ "validate" \notin seen[c]
    <3>1. PICK j \in Validates : state[j] = step[c]
      BY <1>4
    <3>2. Pending(j)
      BY <2>1, <3>1 DEF Pending
    <3>3. QED BY <1>3, <3>2 DEF Chain
  <2>3. seen[c] \subseteq counted
    OBVIOUS
  <2> HIDE DEF counted
  <2>4. MayQueue(i) => MayQueue(i)' \/ Chain'
    <3>1. CASE "validate" \in counted
      BY <1>5, <2>2, <3>1 DEF MayQueue
    <3>2. CASE "validate" \notin counted
      BY <1>1, <1>2, <1>5, <2>1, <3>2 DEF MayQueue
    <3>3. QED BY <3>1, <3>2
  <2>5. \A k \in Instances : k # i => (MayQueue(k) => MayQueue(k)')
    BY <1>1, <1>5 DEF MayQueue
  <2>6. Chain => Chain'
    BY <1>3, <2>4, <2>5 DEF Chain
  <2>7. Passed(i)' => Passed(i) \/ Chain'
    <3>1. CASE "validate" \in counted
      BY <1>1, <1>5, <2>2, <3>1 DEF Passed
    <3>2. CASE "validate" \notin counted
      BY <1>1, <1>2, <1>5, <2>1, <3>2 DEF Passed
    <3>3. QED BY <3>1, <3>2
  <2>8. \A k \in Instances : k # i => (Passed(k)' => Passed(k))
    BY <1>1, <1>5 DEF Passed
  <2>9. QED BY <2>2, <2>6, <2>7, <2>8
<1>6. CASE \E i \in Instances : c = W(i)
  <2>1. \A i \in Instances : MayStart(i) => MayStart(i)'
    BY <1>1, <1>6 DEF MayStart
  <2>2. QED BY <1>1, <1>5, <1>6, <2>1, ChainFrame
<1>7. ASSUME NEW i \in Instances, c = B(i) PROVE
          /\ Chain => Chain'
          /\ \A k \in Instances : Passed(k)' => Passed(k)
          /\ \A k \in Instances : MayStart(k) => MayStart(k)' \/ Chain'
  <2>1. \A k \in Instances :
          (MayQueue(k) <=> MayQueue(k)') /\ (Passed(k)' <=> Passed(k))
    BY <1>1, <1>7 DEF MayQueue, Passed
  <2>2. Chain => Chain'
    BY <1>3, <2>1 DEF Chain
  <2>3. ("validate" \in counted /\ "validate" \notin seen[c]) => Chain
    <3> HAVE "validate" \in counted /\ "validate" \notin seen[c]
    <3>1. PICK j \in Validates : state[j] = step[c]
      BY <1>4
    <3>2. CASE Pending(j)
      BY <3>2 DEF Chain
    <3>3. CASE ~Pending(j)
      <4>1. state[j] = "active" /\ \E k \in Instances : running[k] = j
        BY <1>2, <3>1, <3>3 DEF Pending
      <4>2. PICK k \in Instances : running[k] = j
        BY <4>1
      <4>3. step[W(k)] \in {"waiting", "delayed", "add", "finish"}
        <5>1. step[W(k)] # "idle" /\ step[W(k)] \in Steps
              /\ step[W(k)] \notin {"clean", "active"}
          BY <1>0, <4>2 DEF WorkersOK, TypeOK
        <5>2. QED BY <5>1 DEF Steps
      <4>4. MayQueue(k) \/ Passed(k)
        BY <4>1, <4>2, <4>3 DEF MayQueue, Passed
      <4>5. QED BY <4>4 DEF Chain, ChainKept
    <3>4. QED BY <3>2, <3>3
  <2> HIDE DEF counted
  <2>4. MayStart(i) => MayStart(i)' \/ Chain'
    <3>1. CASE "validate" \in counted
      BY <1>7, <2>2, <2>3, <3>1 DEF MayStart
    <3>2. CASE "validate" \notin counted
      BY <1>2, <1>7, <3>2 DEF MayStart
    <3>3. QED BY <3>1, <3>2
  <2>5. \A k \in Instances : k # i => (MayStart(k) => MayStart(k)')
    BY <1>1, <1>7 DEF MayStart
  <2>6. QED BY <2>1, <2>2, <2>4, <2>5
<1>8. CASE \E i \in Instances : c = B(i)
  BY <1>1, <1>7, <1>8, ChainFrame
<1>9. QED BY <1>6, <1>8

\* Who adds a job, or takes one, has the chain; who cleans up, may start one.
LEMMA KeptByOwner ==
    ASSUME SchedulingInv, ChainKept, NEW i \in Instances,
           Clean(i) \/ Add(B(i)) \/ Add(W(i)) \/ TakeValidate(i)
    PROVE  /\ (\E k \in Instances : Passed(k)') => Chain'
           /\ begun' => Chain' \/ \E k \in Instances : MayStart(k)'
<1> USE CallersApart, JobsAssumption
    DEF queue, callers, history, Jobs
<1>0. TypeOK /\ WorkersOK
  BY DEF SchedulingInv
<1>1. CASE Clean(i)
  <2>1. step'[B(i)] = "waiting" /\ seen'[B(i)] = {}
    BY <1>0, <1>1 DEF Clean, TypeOK, ChainKept, StartsEmpty
  <2>2. \A j \in Validates : state'[j] # "active"
    BY <1>1 DEF Clean
  <2>3. QED BY <2>1, <2>2 DEF MayStart, Passed
<1>2. ASSUME NEW c \in Callers, Add(c) PROVE Chain'
  <2>1. PICK j \in Validates :
           state' = [state EXCEPT ![j] = IF c[2] = "boot" THEN "waiting" ELSE "delayed"]
    BY <1>2 DEF Add, Appear
  <2>2. Pending(j)'
    BY <1>0, <2>1 DEF Pending, TypeOK
  <2>3. QED BY <2>2 DEF Chain
<1>3. CASE TakeValidate(i)
  <2>1. PICK j \in Validates :
           /\ state[j] = "waiting"
           /\ \/ state' = [state EXCEPT ![j] = "active"]
              \/ \E k \in Verifies :
                   Unused(k) /\ state' = [state EXCEPT ![j] = "active",
                                                       ![k] = "children"]
           /\ running' = [running EXCEPT ![i] = j]
    BY <1>3 DEF TakeValidate
  <2>2. /\ running[i] = None /\ step' = [step EXCEPT ![W(i)] = "waiting"]
        /\ seen' = seen
    BY <1>3 DEF TakeValidate
  <2>3. state'[j] = "active" /\ running'[i] = j
    BY <1>0, <2>1 DEF TypeOK
  <2>4. step'[W(i)] = "waiting" /\ seen'[W(i)] = {}
    BY <1>0, <2>2 DEF TypeOK, WorkersOK, ChainKept, StartsEmpty
  <2>5. MayQueue(i)'
    BY <2>3, <2>4 DEF MayQueue
  <2>6. QED BY <2>5 DEF Chain
<1>4. QED BY <1>1, <1>2, <1>3

\* Every step keeps what is known of counts.
LEMMA CountsStartEmpty ==
    ASSUME SchedulingInv, \A i \in Instances : StartsEmpty(i), [Next]_vars
    PROVE  \A i \in Instances : StartsEmpty(i)'
<1> USE CallersApart DEF queue, callers, history, StartsEmpty
<1>0. TypeOK /\ WorkersOK
  BY DEF SchedulingInv
<1>1. CASE UNCHANGED vars
  BY <1>1 DEF vars
<1>2. ASSUME NEW k \in Instances, Boot(k) PROVE \A i \in Instances : StartsEmpty(i)'
  <2>1. /\ up' = up \cup {k} /\ seen' = seen
        /\ step' = step \/ step' = [step EXCEPT ![B(k)] = "clean"]
           \/ step' = [step EXCEPT ![B(k)] = "waiting"]
    BY <1>2 DEF Boot
  <2>2. seen[B(k)] = {}
    BY <1>2 DEF Boot
  <2>3. QED BY <1>0, <2>1, <2>2 DEF TypeOK
<1>3. ASSUME NEW k \in Instances, Clean(k) PROVE \A i \in Instances : StartsEmpty(i)'
  BY <1>0, <1>3 DEF Clean, TypeOK
<1>4. ASSUME NEW c \in Callers, Count(c) PROVE \A i \in Instances : StartsEmpty(i)'
  <2>1. /\ up' = up /\ step[c] # "idle"
        /\ \A d \in Callers : d # c => step'[d] = step[d] /\ seen'[d] = seen[d]
        /\ seen'[c] = {} \/ step'[c] \in {"delayed", "active"}
    BY <1>0, <1>4 DEF Count, TypeOK
  <2>2. QED BY <2>1
<1>5. ASSUME NEW c \in Callers, Add(c) PROVE \A i \in Instances : StartsEmpty(i)'
  <2>1. /\ up' = up /\ step[c] = "add" /\ seen' = seen
        /\ \A d \in Callers : d # c => step'[d] = step[d]
    BY <1>0, <1>5 DEF Add, TypeOK
  <2>2. seen[c] = {}
    BY <2>1
  <2>3. QED BY <2>1, <2>2
<1>6. ASSUME NEW k \in Instances, TakeValidate(k) \/ TakeVerify(k)
      PROVE  \A i \in Instances : StartsEmpty(i)'
  <2>1. /\ up' = up /\ seen' = seen /\ running[k] = None
        /\ step' = [step EXCEPT ![W(k)] = "waiting"]
           \/ step' = [step EXCEPT ![W(k)] = "finish"]
    BY <1>6 DEF TakeValidate, TakeVerify
  <2>2. seen[W(k)] = {}
    BY <1>0, <2>1 DEF WorkersOK
  <2>3. QED BY <1>0, <2>1, <2>2 DEF TypeOK
<1>7. ASSUME NEW k \in Instances, Finish(k) PROVE \A i \in Instances : StartsEmpty(i)'
  BY <1>0, <1>7 DEF Finish, TypeOK
<1>8. ASSUME NEW k \in Instances, Die(k) PROVE \A i \in Instances : StartsEmpty(i)'
  BY <1>0, <1>8 DEF Die, TypeOK
<1>9. ASSUME NEW c \in Callers, RedisFails(c) PROVE \A i \in Instances : StartsEmpty(i)'
  BY <1>0, <1>9 DEF RedisFails, TypeOK
<1>10. ASSUME NEW j \in Jobs, Promote(j) \/ ChildrenDone(j) \/ Stall(j)
       PROVE  \A i \in Instances : StartsEmpty(i)'
  BY <1>10 DEF Promote, ChildrenDone, Stall
<1>11. QED
  BY <1>1, <1>2, <1>3, <1>4, <1>5, <1>6, <1>7, <1>8, <1>9, <1>10, CallersApart
     DEF Next, Check, Work

\* The strengthening is inductive beside the invariant.
LEMMA ChainStep ==
    ASSUME SchedulingInv, ChainKept, [Next]_vars
    PROVE  ChainKept'
<1>1. \A i \in Instances : StartsEmpty(i)'
  BY CountsStartEmpty DEF SchedulingInv, ChainKept
<1>2. ASSUME ~blocked', ~failed'
      PROVE  /\ (\E k \in Instances : Passed(k)') => Chain'
             /\ begun' => Chain' \/ \E i \in Instances : MayStart(i)'
  <2>1. ~blocked /\ ~failed
    <3>0. TypeOK
      BY DEF SchedulingInv
    <3>1. CASE \E c \in Callers : Count(c)
      BY <1>2, <3>0, <3>1 DEF Count, TypeOK
    <3>2. CASE \E i \in Instances : Die(i)
      BY <1>2, <3>0, <3>2 DEF Die, TypeOK
    <3>3. CASE \E j \in Jobs : Stall(j)
      BY <1>2, <3>0, <3>3 DEF Stall, TypeOK
    <3>4. CASE \E c \in Callers : RedisFails(c)
      BY <1>2, <3>4 DEF RedisFails
    <3>5. CASE UNCHANGED <<blocked, failed>>
      BY <1>2, <3>5
    <3>6. ASSUME ~\E c \in Callers : Count(c), ~\E i \in Instances : Die(i),
                 ~\E j \in Jobs : Stall(j), ~\E c \in Callers : RedisFails(c)
          PROVE  UNCHANGED <<blocked, failed>>
      BY <3>6, CallersApart DEF Next, Check, Work, Boot, Clean, Add,
         TakeValidate, TakeVerify, Finish, Promote, ChildrenDone, vars, history
    <3>7. QED BY <3>1, <3>2, <3>3, <3>4, <3>5, <3>6
  <2>2. CASE UNCHANGED vars
    BY <2>1, <2>2 DEF vars, queue, callers, history, ChainKept, Chain, Pending,
       MayQueue, Passed, MayStart
  <2>3. CASE \E i \in Instances : Boot(i) \/ TakeVerify(i) \/ Finish(i) \/ Die(i)
    BY <1>2, <2>1, <2>3, KeptByQuiet
  <2>4. CASE \E j \in Jobs : Promote(j) \/ ChildrenDone(j) \/ Stall(j)
    BY <1>2, <2>1, <2>4, KeptByQuiet
  <2>5. ASSUME NEW c \in Callers, Count(c)
        PROVE  /\ (\E k \in Instances : Passed(k)') => Chain'
               /\ begun' => Chain' \/ \E i \in Instances : MayStart(i)'
    BY <1>2, <2>1, <2>5, KeptByCount
  <2>6. ASSUME NEW i \in Instances,
               Clean(i) \/ Add(B(i)) \/ Add(W(i)) \/ TakeValidate(i)
        PROVE  /\ (\E k \in Instances : Passed(k)') => Chain'
               /\ begun' => Chain' \/ \E l \in Instances : MayStart(l)'
    BY <2>6, KeptByOwner
  <2>7. ~\E c \in Callers : RedisFails(c)
    BY <1>2 DEF RedisFails
  <2>8. QED BY <2>2, <2>3, <2>4, <2>5, <2>6, <2>7, CallersApart DEF Next, Check, Work
<1>3. QED BY <1>1, <1>2 DEF ChainKept


-----------------------------------------------------------------------------
(* Theorems                                                                *)

\* The scheduler's state has its types: a validate job never counts active
\* jobs, a boot check never waits for a job to finish.
THEOREM SchedulingTypeCorrect == Spec => []TypeOK
<1>1. Spec => []SchedulingInv
  BY SchedulingInit, SchedulingStep, PTL DEF Spec
<1>2. SchedulingInv => TypeOK
  BY DEF SchedulingInv
<1>3. QED BY <1>1, <1>2, PTL

\* There are two chains of rounds only after a race, for any instances and jobs,
\* any clean-ups and any number of lost processes and failed requests.
THEOREM ChainsRaceOnly == Spec => []SecondChainNeedsRace
<1>1. Spec => []SchedulingInv
  BY SchedulingInit, SchedulingStep, PTL DEF Spec
<1>2. SchedulingInv => SecondChainNeedsRace
  BY DEF SchedulingInv, ChainKnown, SecondChainNeedsRace
<1>3. QED BY <1>1, <1>2, PTL

\* README.md: the pipeline is "re-queued on a 1-hour interval": once started, the
\* chain of rounds is lost only when verify jobs alone stopped a check, a validate
\* job failed or a leader failed to boot, for any instances, jobs and races.
THEOREM ChainGoesOn == Spec => []ChainLostOnlyByFailure
<1>1. Init => ChainKept
  BY CallersApart, JobsAssumption DEF Init, ChainKept, StartsEmpty, Passed, Chain,
     MayStart
<1>2. SchedulingInv /\ ChainKept /\ [Next]_vars => SchedulingInv' /\ ChainKept'
  BY SchedulingStep, ChainStep
<1>3. SchedulingInv /\ ChainKept => ChainLostOnlyByFailure
  BY DEF ChainKept, ChainLostOnlyByFailure, Chain, MayQueue, Undecided, MayStart
<1>4. QED BY <1>1, <1>2, <1>3, SchedulingInit, PTL DEF Spec

=============================================================================
