--------------------------- MODULE LeaderElection ---------------------------
(***************************************************************************)
(* ClusterService: every instance creates a Consul session, tries to       *)
(* acquire the leader key with it and watches the key; TasksService then   *)
(* asks isTheOne() whether to clean the queues and start the first job.    *)
(*                                                                         *)
(* Requests to Consul and their replies are separate steps, so a session   *)
(* may expire, a process die or the key change between them.  Consul keeps *)
(* a key locked by a session that was invalidated from being acquired      *)
(* again for a while (lock-delay, 15 s when session.create sets none).     *)
(***************************************************************************)
EXTENDS Naturals

CONSTANTS
    Instances,     \* controller instances
    Sessions,      \* Consul session IDs, each created once
    None,          \* no session, no holder
    MaxCrashes,    \* bound: processes that die or are stopped
    MaxExpiries,   \* bound: sessions that expire under a running process
    MaxErrors      \* bound: requests to Consul that fail

ASSUME SessionAssumption == None \notin Sessions
ASSUME BoundsAssumption ==
    MaxCrashes \in Nat /\ MaxExpiries \in Nat /\ MaxErrors \in Nat

VARIABLES
    phase,       \* instance -> where its bootstrap or shutdown is
    isLeader,    \* instance -> "yes", "no" or "undefined"
    session,     \* instance -> sessionId
    stale,       \* instance -> the watch has a change to deliver
    replies,     \* instance -> results of kv.set on their way to it
    enqueued,    \* instance -> it has cleaned the queues and queued a job
    requests,    \* sessions with an acquire on its way to Consul
    live,        \* Consul: sessions that are valid
    used,        \* Consul: sessions ever created
    holder,      \* Consul: the session that holds the key
    delayed,     \* Consul: lock-delay is in force
    crashes, expiries, errors   \* how much of the bounds is used

process == <<phase, isLeader, session, stale, replies, enqueued>>
consul  == <<live, used, holder, delayed>>
faults  == <<crashes, expiries, errors>>
vars    == <<process, requests, consul, faults>>

Phases == {"down", "creating", "electing", "tasks", "up", "stopping", "stopped"}
Replies == {"true", "false", "error"}

TypeOK ==
    /\ phase \in [Instances -> Phases]
    /\ isLeader \in [Instances -> {"yes", "no", "undefined"}]
    /\ session \in [Instances -> Sessions \cup {None}]
    /\ stale \in [Instances -> BOOLEAN]
    /\ replies \in [Instances -> SUBSET Replies]
    /\ enqueued \in [Instances -> BOOLEAN]
    /\ requests \in SUBSET Sessions
    /\ live \in SUBSET Sessions
    /\ used \in SUBSET Sessions
    /\ holder \in Sessions \cup {None}
    /\ delayed \in BOOLEAN
    /\ crashes \in Nat /\ expiries \in Nat /\ errors \in Nat

Init ==
    /\ phase = [i \in Instances |-> "down"]
    /\ isLeader = [i \in Instances |-> "undefined"]
    /\ session = [i \in Instances |-> None]
    /\ stale = [i \in Instances |-> FALSE]
    /\ replies = [i \in Instances |-> {}]
    /\ enqueued = [i \in Instances |-> FALSE]
    /\ requests = {} /\ live = {} /\ used = {}
    /\ holder = None
    /\ delayed = FALSE
    /\ crashes = 0 /\ expiries = 0 /\ errors = 0

-----------------------------------------------------------------------------
(* Consul (external)                                                       *)

\* The watches of all instances see that the key was created or deleted.
KeyChanges == stale' = [i \in Instances |-> phase[i] # "down"]

\* A session is invalidated: with behavior 'delete' its key goes with it.
Invalidate(s) ==
    /\ live' = live \ {s}
    /\ IF holder = s
       THEN holder' = None /\ delayed' = TRUE /\ KeyChanges
       ELSE UNCHANGED <<holder, delayed, stale>>
    /\ UNCHANGED used

\* The answer to kv.set with acquire.
Granted(s) == s \in live /\ (holder = s \/ (holder = None /\ ~delayed))

Reply(s, x) ==
    replies' = [i \in Instances |-> IF session[i] = s
                                    THEN replies[i] \cup {x} ELSE replies[i]]

\* Consul takes an acquire; the sender may be gone by then.
Acquire(s) ==
    /\ s \in requests
    /\ requests' = requests \ {s}
    /\ \/ /\ Granted(s)
          /\ holder' = s
          /\ Reply(s, "true")
          /\ IF holder = None THEN KeyChanges ELSE UNCHANGED stale
       \/ /\ ~Granted(s)
          /\ Reply(s, IF s \in live THEN "false" ELSE "error")
          /\ UNCHANGED <<holder, stale>>
    /\ UNCHANGED <<phase, isLeader, session, enqueued, live, used, delayed,
                   faults>>

\* The request, or its reply, fails on the way.
AcquireFails(s) ==
    /\ s \in requests
    /\ errors < MaxErrors
    /\ errors' = errors + 1
    /\ requests' = requests \ {s}
    /\ Reply(s, "error")
    /\ \/ Granted(s) /\ holder' = s
          /\ IF holder = None THEN KeyChanges ELSE UNCHANGED stale
       \/ UNCHANGED <<holder, stale>>
    /\ UNCHANGED <<phase, isLeader, session, enqueued, live, used, delayed,
                   crashes, expiries>>

DelayEnds ==
    /\ delayed
    /\ delayed' = FALSE
    /\ UNCHANGED <<process, requests, live, used, holder, faults>>

Orphaned(s) == \A i \in Instances : session[i] # s

\* The TTL of a session runs out: nobody renews it any more,
ExpireOrphan(s) ==
    /\ s \in live /\ Orphaned(s)
    /\ Invalidate(s)
    /\ UNCHANGED <<phase, isLeader, session, replies, enqueued, requests,
                   faults>>

\* or its process could not reach Consul for too long.  Later renewals fail,
\* and are only logged.
ExpireRunning(s) ==
    /\ s \in live /\ ~Orphaned(s)
    /\ expiries < MaxExpiries
    /\ expiries' = expiries + 1
    /\ Invalidate(s)
    /\ UNCHANGED <<phase, isLeader, session, replies, enqueued, requests,
                   crashes, errors>>

-----------------------------------------------------------------------------
(* An instance                                                             *)

Start(i) ==
    /\ phase[i] = "down"
    /\ phase' = [phase EXCEPT ![i] = "creating"]
    /\ UNCHANGED <<isLeader, session, stale, replies, enqueued, requests,
                   consul, faults>>

\* Mutant: the first acquireLock is left to the watch, whose first answer has it
\* sent, but nothing waits for it any more.
SessionCreatedOnly(i) ==
    /\ phase[i] = "creating"
    /\ \E s \in Sessions \ used :
         /\ session' = [session EXCEPT ![i] = s]
         /\ live' = live \cup {s}
         /\ used' = used \cup {s}
    /\ phase' = [phase EXCEPT ![i] = "tasks"]
    /\ stale' = [stale EXCEPT ![i] = TRUE]
    /\ UNCHANGED <<isLeader, replies, enqueued, requests, holder, delayed, faults>>

\* createSession, then the first acquireLock is sent.
SessionCreated(i) ==
    /\ phase[i] = "creating"
    /\ \E s \in Sessions \ used :
         /\ session' = [session EXCEPT ![i] = s]
         /\ live' = live \cup {s}
         /\ used' = used \cup {s}
         /\ requests' = requests \cup {s}
    /\ phase' = [phase EXCEPT ![i] = "electing"]
    /\ UNCHANGED <<isLeader, stale, replies, enqueued, holder, delayed, faults>>

\* The error is logged; there is no session, no watch and no second try.
SessionFails(i) ==
    /\ phase[i] = "creating"
    /\ errors < MaxErrors
    /\ errors' = errors + 1
    /\ phase' = [phase EXCEPT ![i] = "tasks"]
    /\ UNCHANGED <<isLeader, session, stale, replies, enqueued, requests,
                   consul, crashes, expiries>>

\* Mutant: isLeader takes whatever the call gave, an error as well.
AnsweredRaw(i) ==
    /\ phase[i] = "electing"
    /\ \E x \in replies[i] :
         /\ replies' = [replies EXCEPT ![i] = @ \ {x}]
         /\ isLeader' = [isLeader EXCEPT ![i] = x]
    /\ phase' = [phase EXCEPT ![i] = "tasks"]
    /\ UNCHANGED <<session, stale, enqueued, requests, consul, faults>>

\* Mutant: only an explicit refusal makes the instance a follower.
AnsweredTrusting(i) ==
    /\ phase[i] # "down"
    /\ \E x \in replies[i] :
         /\ replies' = [replies EXCEPT ![i] = @ \ {x}]
         /\ isLeader' = [isLeader EXCEPT ![i] =
              IF x = "false" THEN "no" ELSE "yes"]
    /\ IF phase[i] = "electing"
       THEN /\ phase' = [phase EXCEPT ![i] = "tasks"]
            /\ stale' = [stale EXCEPT ![i] = TRUE]
       ELSE UNCHANGED <<phase, stale>>
    /\ UNCHANGED <<session, enqueued, requests, consul, faults>>

\* kv.set returns in acquireLock.  The first time the watch starts as well,
\* and its first answer counts as a change.
Answered(i) ==
    /\ phase[i] # "down"
    /\ \E x \in replies[i] :
         /\ replies' = [replies EXCEPT ![i] = @ \ {x}]
         /\ isLeader' = [isLeader EXCEPT ![i] =
              IF x = "true" THEN "yes" ELSE IF x = "false" THEN "no" ELSE @]
    /\ IF phase[i] = "electing"
       THEN /\ phase' = [phase EXCEPT ![i] = "tasks"]
            /\ stale' = [stale EXCEPT ![i] = TRUE]
       ELSE UNCHANGED <<phase, stale>>
    /\ UNCHANGED <<session, enqueued, requests, consul, faults>>

\* The watch delivers a change; only a deleted key makes it acquire again.
Change(i) ==
    /\ phase[i] \in {"tasks", "up", "stopping", "stopped"}
    /\ stale[i] /\ session[i] # None
    /\ stale' = [stale EXCEPT ![i] = FALSE]
    /\ requests' = IF holder = None THEN requests \cup {session[i]}
                                    ELSE requests
    /\ UNCHANGED <<phase, isLeader, session, replies, enqueued, consul, faults>>

\* The watch also fires when Consul's index moves for another reason, as with a
\* write to some other key while this one is missing.
OtherChange(i) ==
    /\ phase[i] \in {"tasks", "up", "stopping", "stopped"}
    /\ session[i] # None /\ ~stale[i]
    /\ stale' = [stale EXCEPT ![i] = TRUE]
    /\ UNCHANGED <<phase, isLeader, session, replies, enqueued, requests,
                   consul, faults>>

\* Mutant: isTheOne() counts an undecided election as won.
BootTasksUndecided(i) ==
    /\ phase[i] = "tasks"
    /\ phase' = [phase EXCEPT ![i] = "up"]
    /\ enqueued' = [enqueued EXCEPT ![i] = (isLeader[i] # "no")]
    /\ UNCHANGED <<isLeader, session, stale, replies, requests, consul, faults>>

\* TasksService.onApplicationBootstrap, after that of ClusterService.
BootTasks(i) ==
    /\ phase[i] = "tasks"
    /\ phase' = [phase EXCEPT ![i] = "up"]
    /\ enqueued' = [enqueued EXCEPT ![i] = (isLeader[i] = "yes")]
    /\ UNCHANGED <<isLeader, session, stale, replies, requests, consul, faults>>

\* beforeApplicationShutdown stops renewing and destroys the session.
Stop(i) ==
    /\ phase[i] = "up"
    /\ crashes < MaxCrashes
    /\ crashes' = crashes + 1
    /\ phase' = [phase EXCEPT ![i] = "stopping"]
    /\ UNCHANGED <<isLeader, session, stale, replies, enqueued, requests,
                   consul, expiries, errors>>

Destroy(i) ==
    /\ phase[i] = "stopping"
    /\ phase' = [phase EXCEPT ![i] = "stopped"]
    /\ IF session[i] \in live THEN Invalidate(session[i])
                              ELSE UNCHANGED <<consul, stale>>
    /\ UNCHANGED <<isLeader, session, replies, enqueued, requests, faults>>

Gone(i) ==
    /\ phase' = [phase EXCEPT ![i] = "down"]
    /\ isLeader' = [isLeader EXCEPT ![i] = "undefined"]
    /\ session' = [session EXCEPT ![i] = None]
    /\ stale' = [stale EXCEPT ![i] = FALSE]
    /\ replies' = [replies EXCEPT ![i] = {}]
    /\ enqueued' = [enqueued EXCEPT ![i] = FALSE]
    /\ UNCHANGED <<requests, consul>>

Exit(i) == phase[i] = "stopped" /\ Gone(i) /\ UNCHANGED faults

\* The process dies; its session lives on until its TTL runs out.
Crash(i) ==
    /\ phase[i] # "down"
    /\ crashes < MaxCrashes
    /\ crashes' = crashes + 1
    /\ Gone(i)
    /\ UNCHANGED <<expiries, errors>>

-----------------------------------------------------------------------------

Lifecycle(i) == Start(i) \/ SessionCreated(i) \/ BootTasks(i) \/ Destroy(i)
                \/ Exit(i)

Next ==
    \/ \E i \in Instances : \/ Lifecycle(i) \/ Answered(i)
                             \/ Change(i) \/ OtherChange(i)
                             \/ SessionFails(i) \/ Stop(i) \/ Crash(i)
    \/ \E s \in Sessions : \/ Acquire(s) \/ AcquireFails(s)
                           \/ ExpireOrphan(s) \/ ExpireRunning(s)
    \/ DelayEnds

Spec == Init /\ [][Next]_vars

\* Calls return, Consul answers, orphaned sessions expire and the lock-delay
\* ends.  Nothing is assumed of faults, nor of writes to other keys.
FairSpec ==
    /\ Spec
    /\ \A i \in Instances :
         WF_vars(Lifecycle(i)) /\ WF_vars(Answered(i)) /\ WF_vars(Change(i))
    /\ \A s \in Sessions : WF_vars(Acquire(s)) /\ WF_vars(ExpireOrphan(s))
    /\ WF_vars(DelayEnds)

-----------------------------------------------------------------------------
(* Properties                                                              *)

\* An instance that believes it leads, or is about to be told so, holds the
\* key, unless its session is gone.
Leads(i) == isLeader[i] = "yes" \/ "true" \in replies[i]

\* Whoever believes to be the leader holds the lock or has lost its session: a
\* reply that arrives late never makes a leader of an instance while another
\* one holds the lock with a session that was not invalidated since.
LeaderHoldsLock ==
    \A i \in Instances : Leads(i) =>
        session[i] # None /\ (holder = session[i] \/ session[i] \notin live)

\* Two instances lead at once only if one of them has lost its session.
SplitBrainNeedsExpiry ==
    \A i, j \in Instances :
        (Leads(i) /\ Leads(j) /\ i # j) =>
            session[i] \notin live \/ session[j] \notin live

\* While no process and no session is lost, exactly the instance that holds
\* the lock cleans the queues and starts the first job.
OneEnqueuer ==
    (crashes = 0 /\ expiries = 0) =>
        \A i, j \in Instances : enqueued[i] /\ enqueued[j] => i = j

\* Sessions belong to one process each and are never created again; the holder
\* of the key is valid; nobody has an answer before it has a session.
SessionsKnown ==
    /\ live \subseteq used /\ requests \subseteq used
    /\ holder # None => holder \in live
    /\ \A i \in Instances : session[i] # None => session[i] \in used
    /\ \A i, j \in Instances :
         (session[i] # None /\ session[i] = session[j]) => i = j
    /\ \A i \in Instances : phase[i] \in {"down", "creating"} =>
         session[i] = None /\ ~Leads(i) /\ ~enqueued[i]

\* While nothing is lost every session is held by a running process, and who
\* has queued the first job still holds the lock.
QuietElection ==
    (crashes = 0 /\ expiries = 0) =>
        /\ live = used
        /\ \A s \in used : ~Orphaned(s)
        /\ \A i \in Instances :
             /\ phase[i] \notin {"stopping", "stopped"}
             /\ enqueued[i] => session[i] # None /\ holder = session[i]

\* The inductive invariant behind the safety properties.
ElectionInv == LeaderHoldsLock /\ SessionsKnown /\ QuietElection

\* The election implements Leadership: a belief, also one that is still on its
\* way as a reply, begins only with the grant of a free lock (or of the
\* instance's own), whatever is late, lost or reordered between.
Status(s) == IF s \notin used THEN "unborn"
             ELSE IF s \in live THEN "open" ELSE "closed"
Lease(i) == IF Leads(i) THEN session[i] ELSE None

Abstract == INSTANCE Leadership
    WITH status <- [s \in Sessions |-> Status(s)],
         lease <- [i \in Instances |-> Lease(i)]
ImplementsLeadership == Abstract!Spec

\* While no process and no session is lost, the lock is taken by an instance that
\* learns of it, in time to clean the queues and to queue the first job; an
\* instance whose session could not be created does not keep the others from it.
\* Only when an acquire failed may the job be left to nobody, and the holder not
\* know that it leads: nothing makes it ask again while the key is there.
LeaderElected ==
    <>( \/ crashes + expiries > 0
        \/ \A i \in Instances : phase[i] = "up" /\ session[i] = None
        \/ \E i \in Instances :
             /\ phase[i] = "up" /\ session[i] # None /\ holder = session[i]
             /\ \/ isLeader[i] = "yes" /\ (errors = 0 => enqueued[i])
                \/ errors > 0 /\ isLeader[i] = "undefined"
                   /\ replies[i] = {} /\ session[i] \notin requests )

\* README.md, Clustering: "if the leader dies, its session is deleted and
\* another instance acquires the lock".
AnotherTakesOver ==
    \A i, j \in Instances :
        (/\ i # j /\ phase[j] = "up" /\ session[j] # None
         /\ phase[i] \in {"stopping", "stopped"} /\ isLeader[i] = "yes") ~>
            \E k \in Instances :
                phase[k] = "up" /\ session[k] # None /\ holder = session[k]

=============================================================================
