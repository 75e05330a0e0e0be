--------------------------- MODULE TaskScheduling ---------------------------
(***************************************************************************)
(* The chain of rounds in tasks-queue.  A validate job starts a round and  *)
(* queues its successor an hour later, unless jobs are counted in the      *)
(* queue; a leader that boots queues the first one, under the same check.  *)
(* The three counts are three requests to Redis, and the workers of all    *)
(* instances take jobs, die and fail meanwhile.                            *)
(*                                                                         *)
(* What a round does is in RelayPipeline, who leads in LeaderElection: here *)
(* any booting instance may be told that it leads.                         *)
(***************************************************************************)
EXTENDS Naturals

CONSTANTS
    Instances,   \* controller processes, each with a worker for tasks-queue
    Validates,   \* IDs of validate jobs; one is used again when its job is gone
    Verifies,    \* IDs of verify jobs
    None,        \* no job
    Cleans,      \* values of DO_CLEAN = "true" (or IS_LIVE other than "true")
    MaxFaults    \* bound: processes that die and requests to Redis that fail

ASSUME JobsAssumption ==
    Validates \cap Verifies = {} /\ None \notin Validates \cup Verifies
ASSUME CleansAssumption == Cleans \subseteq BOOLEAN
ASSUME BoundsAssumption == MaxFaults \in Nat

Jobs == Validates \cup Verifies
Kind(j) == IF j \in Validates THEN "validate" ELSE "verify"

\* Who runs queueValidateRelays in an instance: onApplicationBootstrap, which
\* does not await it, and the worker.
B(i) == <<i, "boot">>
W(i) == <<i, "work">>
Callers == Instances \X {"boot", "work"}

VARIABLES
    state,     \* job -> where BullMQ has it ("children": waits for its children)
    stalled,   \* job -> it has lost a worker before
    up,        \* instances whose process runs
    running,   \* instance -> the job its worker runs, or None
    step,      \* caller -> where it is in queueValidateRelays
    seen,      \* caller -> kinds of the jobs it has counted
    begun,     \* history: a leader has queued a first job
    raced,     \* history: a job slipped past a check, or runs a second time
    blocked,   \* history: a check stopped because of verify jobs alone
    failed,    \* history: a validate job failed, or a boot check did
    faults     \* how much of the bound is used

queue   == <<state, stalled>>
callers == <<step, seen>>
history == <<begun, raced, blocked, failed>>
vars    == <<queue, up, running, callers, history, faults>>

Steps == {"idle", "clean", "waiting", "delayed", "active", "add", "finish"}

TypeOK ==
    /\ state \in [Jobs -> {"none", "delayed", "waiting", "active", "children"}]
    /\ stalled \in [Jobs -> BOOLEAN]
    /\ up \in SUBSET Instances
    /\ running \in [Instances -> Jobs \cup {None}]
    /\ step \in [Callers -> Steps]
    /\ \A i \in Instances : step[B(i)] # "finish" /\ step[W(i)] \notin {"clean", "active"}
    /\ seen \in [Callers -> SUBSET {"validate", "verify"}]
    /\ begun \in BOOLEAN /\ raced \in BOOLEAN
    /\ blocked \in BOOLEAN /\ failed \in BOOLEAN
    /\ faults \in Nat

Init ==
    /\ state = [j \in Jobs |-> "none"]
    /\ stalled = [j \in Jobs |-> FALSE]
    /\ up = {}
    /\ running = [i \in Instances |-> None]
    /\ step = [c \in Callers |-> "idle"]
    /\ seen = [c \in Callers |-> {}]
    /\ begun = FALSE /\ raced = FALSE /\ blocked = FALSE /\ failed = FALSE
    /\ faults = 0

-----------------------------------------------------------------------------
(* queueValidateRelays                                                     *)

\* Boot checks that are at one of these steps and have seen no job.
Unaware(steps) ==
    \E i \in Instances : step[B(i)] \in steps /\ seen[B(i)] = {}

\* Mutant: active jobs are never counted.
LastCountShort(c) == "delayed"

\* Mutant: skipActiveCheck is not passed on.
LastCountFull(c) == "active"

\* skipActiveCheck: a validate job does not count the active ones, of which it
\* is one itself.
LastCount(c) == IF c[2] = "boot" THEN "active" ELSE "delayed"

\* queueValidateRelays returns.
Returned(c) == IF c[2] = "boot" THEN "idle" ELSE "finish"

\* getWaitingCount, getDelayedCount or getActiveCount returns; after the last
\* one it is decided whether to add a job.
Count(c) ==
    /\ step[c] \in {"waiting", "delayed", "active"}
    /\ LET counted == seen[c] \cup {Kind(j) : j \in {k \in Jobs : state[k] = step[c]}}
           last == step[c] = LastCount(c)
       IN /\ seen' = [seen EXCEPT ![c] = IF last THEN {} ELSE counted]
          /\ step' = [step EXCEPT ![c] =
               IF ~last THEN IF step[c] = "waiting" THEN "delayed" ELSE "active"
               ELSE IF counted = {} THEN "add" ELSE Returned(c)]
          /\ blocked' = (blocked \/ (last /\ counted = {"verify"}))
    /\ UNCHANGED <<queue, up, running, begun, raced, failed, faults>>

\* A job that is gone, and no handler has it in its hands any more.
Unused(j) == state[j] = "none" /\ \A i \in Instances : running[i] # j

\* The job appears in the queue, at once or to run in an hour.
Appear(c) ==
    \E j \in Validates :
      /\ Unused(j)
      /\ state' = [state EXCEPT ![j] = IF c[2] = "boot" THEN "waiting"
                                                        ELSE "delayed"]

\* Boot checks that have counted the state the new job appears in.
Missed(c) ==
    \E i \in Instances :
      /\ B(i) # c /\ seen[B(i)] = {}
      /\ step[B(i)] \in IF c[2] = "boot" THEN {"delayed", "active", "add"}
                                          ELSE {"active", "add"}

\* tasksQueue.add.
Add(c) ==
    /\ step[c] = "add"
    /\ Appear(c)
    /\ step' = [step EXCEPT ![c] = Returned(c)]
    /\ begun' = (begun \/ c[2] = "boot")
    /\ raced' = (raced \/ Missed(c))
    /\ UNCHANGED <<stalled, up, running, seen, blocked, failed, faults>>

\* The job of a worker completes or fails, and is not tried again.
Ends(i) ==
    /\ state' = [state EXCEPT ![running[i]] = IF @ = "active" THEN "none" ELSE @]
    /\ stalled' = [stalled EXCEPT ![running[i]] = FALSE]
    /\ running' = [running EXCEPT ![i] = None]

\* A request of queueValidateRelays to Redis fails, or its reply is lost.  At boot
\* the error is logged.
RedisFails(c) ==
    /\ step[c] \in {"waiting", "delayed", "active", "add"}
    /\ faults < MaxFaults
    /\ faults' = faults + 1
    /\ step' = [step EXCEPT ![c] = "idle"]
    /\ failed' = TRUE
    /\ seen' = [seen EXCEPT ![c] = {}]
    /\ IF c[2] = "boot" THEN UNCHANGED <<queue, running>> ELSE Ends(c[1])
    /\ UNCHANGED <<up, begun, raced, blocked>>

-----------------------------------------------------------------------------
(* An instance                                                             *)

\* The process starts, with its worker; if isTheOne(), the check begins, after
\* the queues have been cleaned.
Boot(i) ==
    /\ i \notin up
    /\ up' = up \cup {i}
    /\ \/ UNCHANGED step
       \/ \E clean \in Cleans :
            step' = [step EXCEPT ![B(i)] = IF clean THEN "clean" ELSE "waiting"]
    /\ UNCHANGED <<queue, running, seen, history, faults>>

\* Mutant: a leader that has cleaned the queues returns.
CleanOnly(i) ==
    /\ step[B(i)] = "clean"
    /\ step' = [step EXCEPT ![B(i)] = "idle"]
    /\ state' = [j \in Jobs |-> "none"]
    /\ stalled' = [j \in Jobs |-> FALSE]
    /\ UNCHANGED <<up, running, seen, history, faults>>

\* obliterate({force}): every job is gone, but handlers that run one go on, and
\* flows on their way are added.
Clean(i) ==
    /\ step[B(i)] = "clean"
    /\ step' = [step EXCEPT ![B(i)] = "waiting"]
    /\ \E late \in SUBSET {j \in Verifies : state[j] = "children"} :
         state' = [j \in Jobs |-> IF j \in late THEN "children" ELSE "none"]
    /\ stalled' = [j \in Jobs |-> FALSE]
    /\ raced' = (raced \/ \E k \in Instances :
         running[k] \in Validates /\ step[W(k)] # "finish")
    /\ UNCHANGED <<up, running, seen, begun, blocked, failed, faults>>

\* The worker takes a validate job.  It adds the validation flow without waiting
\* for it, so the verify job of this flow may also never come.
TakeValidate(i) ==
    /\ i \in up /\ running[i] = None
    /\ \E j \in Validates :
         /\ state[j] = "waiting"
         /\ \/ state' = [state EXCEPT ![j] = "active"]
            \/ \E k \in Verifies :
                 Unused(k) /\ state' = [state EXCEPT ![j] = "active",
                                                     ![k] = "children"]
         /\ running' = [running EXCEPT ![i] = j]
    /\ step' = [step EXCEPT ![W(i)] = "waiting"]
    /\ UNCHANGED <<stalled, up, seen, history, faults>>

\* A verify job reads its children, adds the second flow and is done here.
TakeVerify(i) ==
    /\ i \in up /\ running[i] = None
    /\ \E j \in Verifies :
         /\ state[j] = "waiting"
         /\ state' = [state EXCEPT ![j] = "active"]
         /\ running' = [running EXCEPT ![i] = j]
    /\ step' = [step EXCEPT ![W(i)] = "finish"]
    /\ UNCHANGED <<stalled, up, seen, history, faults>>

\* The handler has returned and BullMQ removes the job.
Finish(i) ==
    /\ step[W(i)] = "finish"
    /\ Ends(i)
    /\ step' = [step EXCEPT ![W(i)] = "idle"]
    /\ UNCHANGED <<up, seen, history, faults>>

\* The process dies, also of a clean-up that fails before or after the jobs are
\* gone (onApplicationBootstrap rejects), or of a flow that could not be added:
\* the rejection is not handled.  A job whose handler had returned will run again.
Die(i) ==
    /\ i \in up
    /\ faults < MaxFaults
    /\ faults' = faults + 1
    /\ up' = up \ {i}
    /\ running' = [running EXCEPT ![i] = None]
    /\ step' = [step EXCEPT ![B(i)] = "idle", ![W(i)] = "idle"]
    /\ seen' = [seen EXCEPT ![B(i)] = {}, ![W(i)] = {}]
    /\ raced' = (raced \/ (running[i] \in Validates /\ step[W(i)] = "finish"))
    /\ failed' = (failed \/ step[B(i)] # "idle")
    /\ UNCHANGED <<queue, begun, blocked>>

-----------------------------------------------------------------------------
(* BullMQ (external)                                                       *)

\* An hour has passed.
Promote(j) ==
    /\ up # {}
    /\ state[j] = "delayed"
    /\ state' = [state EXCEPT ![j] = "waiting"]
    /\ raced' = (raced \/ Unaware({"delayed"}))
    /\ UNCHANGED <<stalled, up, running, callers, begun, blocked, failed,
                   faults>>

\* validate-relays is done and the verify job may run.
ChildrenDone(j) ==
    /\ state[j] = "children"
    /\ state' = [state EXCEPT ![j] = "waiting"]
    /\ UNCHANGED <<stalled, up, running, callers, history, faults>>

\* An active job without a worker runs again; the second time it fails.
Stall(j) ==
    /\ up # {}
    /\ state[j] = "active" /\ \A i \in Instances : running[i] # j
    /\ stalled' = [stalled EXCEPT ![j] = ~stalled[j]]
    /\ state' = [state EXCEPT ![j] = IF stalled[j] THEN "none" ELSE "waiting"]
    /\ failed' = (failed \/ (stalled[j] /\ j \in Validates))
    /\ raced' = (raced \/ (j \in Validates /\ Unaware({"delayed", "active"})))
    /\ UNCHANGED <<up, running, callers, begun, blocked, faults>>

-----------------------------------------------------------------------------

\* What makes progress when nothing fails.
Work(i) == TakeValidate(i) \/ TakeVerify(i) \/ Count(W(i)) \/ Add(W(i)) \/ Finish(i)
Check(i) == Clean(i) \/ Count(B(i)) \/ Add(B(i))

Next ==
    \/ \E i \in Instances : \/ Boot(i) \/ Check(i) \/ Work(i) \/ Die(i)
    \/ \E c \in Callers : RedisFails(c)
    \/ \E j \in Jobs : Promote(j) \/ ChildrenDone(j) \/ Stall(j)

Spec == Init /\ [][Next]_vars

\* Requests return, an hour passes, and the scheduler restarts a dead process.
\* Nothing is assumed of who leads, nor of the rounds.
FairSpec ==
    /\ Spec
    /\ \A i \in Instances : WF_vars(Boot(i)) /\ WF_vars(Work(i)) /\ WF_vars(Check(i))
    /\ \A j \in Jobs : WF_vars(Promote(j)) /\ WF_vars(Stall(j))

-----------------------------------------------------------------------------
(* Properties                                                              *)

\* A chain is a validate job that will run, or a handler of one that has not
\* decided about its successor.
Pending(j) ==
    /\ j \in Validates
    /\ \/ state[j] \in {"delayed", "waiting"}
       \/ state[j] = "active" /\ \A i \in Instances : running[i] # j
Undecided(i) ==
    running[i] \in Validates /\ step[W(i)] \in {"waiting", "delayed", "add"}

AtMostOneChain ==
    /\ \A j, k \in Jobs : Pending(j) /\ Pending(k) => j = k
    /\ \A i, k \in Instances : Undecided(i) /\ Undecided(k) => i = k
    /\ ~((\E j \in Jobs : Pending(j)) /\ (\E i \in Instances : Undecided(i)))

\* queueValidateRelays keeps a second chain of rounds out although its counts
\* are not atomic, however often leaders boot and jobs run again: there are two
\* only after a job has moved behind a check's back, has been cleaned away from
\* under its handler, or has lost its worker after it had queued its successor.
SecondChainNeedsRace == ~raced => AtMostOneChain

\* README.md: the pipeline is "re-queued on a 1-hour interval".  Once started,
\* the chain is never lost, except that a check may stop for verify jobs alone,
\* a validate job may fail and a leader may fail to boot.
ChainLostOnlyByFailure ==
    (begun /\ ~blocked /\ ~failed) =>
        \/ \E j \in Jobs : Pending(j)
        \/ \E i \in Instances : Undecided(i) \/ step[B(i)] # "idle"

\* The same over time: there is always another round to come.
RoundsRecur ==
    []<>(~begun \/ blocked \/ failed \/ \E i \in Instances : Undecided(i))

=============================================================================
