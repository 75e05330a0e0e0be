----------------------------- MODULE Submission -----------------------------
(***************************************************************************)
(* What submitting certificates to the operator registry promises: a round *)
(* is told of a success only for relays that are registered, and nothing   *)
(* is submitted again for a relay it has been told of until an operator    *)
(* has renounced it.  Relays may be registered without the round ever      *)
(* being told.                                                             *)
(***************************************************************************)

CONSTANT Relays   \* fingerprints

VARIABLES
    registered,   \* relays the registry process has
    told          \* those a round was told of since they were registered

Init == registered = {} /\ told = {}

\* Certificates take effect.
Register(fs) == registered' = registered \cup fs /\ UNCHANGED told

\* A success is reported, once per registration.
Tell(fs) ==
    /\ fs \subseteq registered \ told
    /\ told' = told \cup fs
    /\ UNCHANGED registered

\* An operator gives relays up: they may be submitted again.
Renounce(fs) ==
    /\ registered' = registered \ fs
    /\ told' = told \ fs

Next == \E fs \in SUBSET Relays : Register(fs) \/ Tell(fs) \/ Renounce(fs)

Spec == Init /\ [][Next]_<<registered, told>>

=============================================================================
