----------------------------- MODULE Leadership -----------------------------
(***************************************************************************)
(* What the election promises, without requests, replies and the watch: a  *)
(* session is opened once and closed once; the lock goes to an open        *)
(* session, and only when it is free; an instance comes to lead only in    *)
(* the step that gives the lock to its session, which no other instance    *)
(* leads with.  Whoever leads may go on believing so when its session is   *)
(* closed, but nobody comes to lead that way.                              *)
(***************************************************************************)
CONSTANTS Instances, Sessions, None

VARIABLES
    status,   \* session -> "unborn", "open" or "closed"
    holder,   \* the session that holds the lock, or None
    lease     \* instance -> the session it believes to lead with, or None

vars == <<status, holder, lease>>

Init ==
    /\ status = [s \in Sessions |-> "unborn"]
    /\ holder = None
    /\ lease = [i \in Instances |-> None]

Open(s) ==
    /\ status[s] = "unborn"
    /\ status' = [status EXCEPT ![s] = "open"]
    /\ UNCHANGED <<holder, lease>>

\* Nobody may be left to hear of it.
Grant(s) ==
    /\ status[s] = "open"
    /\ holder \in {None, s}
    /\ holder' = s
    /\ \/ UNCHANGED lease
       \/ \E i \in Instances :
            /\ lease[i] = None
            /\ \A j \in Instances : lease[j] # s
            /\ lease' = [lease EXCEPT ![i] = s]
    /\ UNCHANGED status

Close(s) ==
    /\ status[s] = "open"
    /\ status' = [status EXCEPT ![s] = "closed"]
    /\ holder' = IF holder = s THEN None ELSE holder
    /\ UNCHANGED lease

StepDown(i) ==
    /\ lease[i] # None
    /\ lease' = [lease EXCEPT ![i] = None]
    /\ UNCHANGED <<status, holder>>

Next == \/ \E s \in Sessions : Open(s) \/ Grant(s) \/ Close(s)
        \/ \E i \in Instances : StepDown(i)

Spec == Init /\ [][Next]_vars

=============================================================================
