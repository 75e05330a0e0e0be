---------------------------- MODULE DeviceLedger ----------------------------
(***************************************************************************)
(* What hardware verification promises, without how it decides: records of *)
(* verified hardware are only added, and the registry flags a relay as     *)
(* hardware only when a record of that relay has been written before.      *)
(***************************************************************************)
CONSTANTS
    Relays,   \* relay fingerprints
    Records   \* VerifiedHardware documents; r.fingerprint is the relay's

VARIABLES
    records,  \* the documents written
    flagged   \* VerifiedHardwareFingerprints of the registry

vars == <<records, flagged>>

Recorded == {r.fingerprint : r \in records}

Init == records = {} /\ flagged = {}

Verify ==
    /\ \E r \in Records : records' = records \cup {r}
    /\ UNCHANGED flagged

Flag ==
    /\ \E S \in SUBSET (Recorded \cap Relays) : flagged' = flagged \cup S
    /\ UNCHANGED records

Next == Verify \/ Flag

Spec == Init /\ [][Next]_vars

=============================================================================
