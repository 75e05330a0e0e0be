------------------------ MODULE HardwareVerification ------------------------
(***************************************************************************)
(* How verify-relays decides on relays that come with hardware_info: the   *)
(* lookup of earlier verifications of the device, the two kinds of proof   *)
(* and the records they leave, for several relays of one round and several *)
(* rounds.  Two rounds may run at once (see RelayPipeline, Boot).          *)
(*                                                                         *)
(* What a relay lists may change from round to round: its validation       *)
(* stores the current hardware_info, and a round reads it per relay.       *)
(*                                                                         *)
(* Data: a serial is compared in lower case; upper says that the relay     *)
(* writes it with capital letters.  id says that the node id is there,     *)
(* rest that device serial, public key and signature are; signed that      *)
(* those which are there are well formed and, if all are, that the         *)
(* signature verifies.  NFT owners answer as they like.                    *)
(***************************************************************************)
EXTENDS Naturals

CONSTANTS
    Relays,     \* fingerprints of relays with a real address
    Offers,     \* the hardware_info they may list
    Serials,    \* ATEC serials, in lower case
    Known,      \* serials of known_devices
    Verifiers,  \* verify-relays jobs that run at the same time
    None,       \* no serial; no relay; no hardware_info
    MaxRounds   \* bound: verify-relays jobs started

Info == [atec : Serials \cup {None}, upper : BOOLEAN, nft : BOOLEAN,
         id : BOOLEAN, rest : BOOLEAN, signed : BOOLEAN]

ASSUME OffersAssumption == Offers \subseteq Info
ASSUME KnownAssumption == Known \subseteq Serials
ASSUME NoneAssumption ==
    None \notin Serials /\ None \notin Relays /\ None \notin Info
ASSUME RoundsAssumption == MaxRounds \in Nat

VARIABLES
    registry,  \* the operator registry on AO (external): relay -> status
    flagged,   \* the registry's VerifiedHardwareFingerprints (external)
    records,   \* the VerifiedHardware collection
    failures,  \* relays in the HardwareVerificationFailure collection
    pc,        \* verifier -> where it is
    current,   \* verifier -> the relay its loop is at, or None
    listed,    \* verifier -> the hardware_info of that relay, or None
    todo,      \* verifier -> relays its loop has not reached
    snapshot,  \* verifier -> the registry state it has read
    known,     \* verifier -> the hardware flags it has read
    toAdd,     \* verifier -> relaysToAddAsClaimable
    proven,    \* verifier -> those of toAdd with isHardwareProofValid
    rounds,    \* rounds started
    faults     \* history: lost workers and failing calls

external == <<registry, flagged>>
stored   == <<records, failures>>
job      == <<pc, current, listed, todo, snapshot, known, toAdd, proven>>
vars     == <<external, stored, job, rounds, faults>>

Status == {"none", "claimable", "verified"}
Record == [fingerprint : Relays, atec : Serials, upper : BOOLEAN]
Places == {"idle", "deciding", "looking", "proving"}

TypeOK ==
    /\ registry \in [Relays -> Status]
    /\ flagged \in SUBSET Relays
    /\ records \in SUBSET Record
    /\ failures \in SUBSET Relays
    /\ pc \in [Verifiers -> Places]
    /\ current \in [Verifiers -> Relays \cup {None}]
    /\ listed \in [Verifiers -> Info \cup {None}]
    /\ todo \in [Verifiers -> SUBSET Relays]
    /\ snapshot \in [Verifiers -> [Relays -> Status]]
    /\ known \in [Verifiers -> SUBSET Relays]
    /\ toAdd \in [Verifiers -> SUBSET Relays]
    /\ proven \in [Verifiers -> SUBSET Relays]
    /\ rounds \in Nat /\ faults \in Nat

Init ==
    /\ registry = [f \in Relays |-> "none"]
    /\ flagged = {} /\ records = {} /\ failures = {}
    /\ pc = [v \in Verifiers |-> "idle"]
    /\ current = [v \in Verifiers |-> None]
    /\ listed = [v \in Verifiers |-> None]
    /\ todo = [v \in Verifiers |-> {}]
    /\ snapshot = [v \in Verifiers |-> [f \in Relays |-> "none"]]
    /\ known = [v \in Verifiers |-> {}]
    /\ toAdd = [v \in Verifiers |-> {}]
    /\ proven = [v \in Verifiers |-> {}]
    /\ rounds = 0 /\ faults = 0

-----------------------------------------------------------------------------
(* A round of verify-relays                                                *)

\* View-State is read once, for all relays of the round.
StartRound(v) ==
    /\ pc[v] = "idle"
    /\ rounds < MaxRounds
    /\ rounds' = rounds + 1
    /\ pc' = [pc EXCEPT ![v] = "deciding"]
    /\ \E S \in SUBSET Relays \ {{}} : todo' = [todo EXCEPT ![v] = S]
    /\ snapshot' = [snapshot EXCEPT ![v] = registry]
    /\ known' = [known EXCEPT ![v] = flagged]
    /\ toAdd' = [toAdd EXCEPT ![v] = {}]
    /\ proven' = [proven EXCEPT ![v] = {}]
    /\ UNCHANGED <<external, stored, current, listed, faults>>

\* The round ends with nothing submitted; its locals are gone.
Abandon(v) ==
    /\ pc' = [pc EXCEPT ![v] = "idle"]
    /\ current' = [current EXCEPT ![v] = None]
    /\ listed' = [listed EXCEPT ![v] = None]
    /\ todo' = [todo EXCEPT ![v] = {}]
    /\ toAdd' = [toAdd EXCEPT ![v] = {}]
    /\ proven' = [proven EXCEPT ![v] = {}]
    /\ UNCHANGED <<snapshot, known>>

\* The loop gets to a relay of the batch; None: it lists no hardware_info.
Take(v) ==
    /\ pc[v] = "deciding"
    /\ \E f \in todo[v], i \in Offers \cup {None} :
         /\ todo' = [todo EXCEPT ![v] = @ \ {f}]
         /\ current' = [current EXCEPT ![v] = f]
         /\ listed' = [listed EXCEPT ![v] = i]
    /\ pc' = [pc EXCEPT ![v] = "looking"]
    /\ UNCHANGED <<external, stored, snapshot, known, toAdd, proven, rounds, faults>>

\* The loop is done with a relay.
Leave(v) ==
    /\ pc' = [pc EXCEPT ![v] = "deciding"]
    /\ current' = [current EXCEPT ![v] = None]
    /\ listed' = [listed EXCEPT ![v] = None]
    /\ UNCHANGED <<todo, snapshot, known>>

\* A relay that needs a proof in this round.
Fresh(v) ==
    /\ snapshot[v][current[v]] = "none"
    /\ listed[v] # None /\ current[v] \notin known[v]

\* AlreadyRegistered or AlreadyVerified; or to be added without a proof: it
\* lists no hardware, or was flagged as hardware before.
Decide(v) ==
    /\ pc[v] = "looking" /\ ~Fresh(v)
    /\ toAdd' = IF snapshot[v][current[v]] = "none"
                THEN [toAdd EXCEPT ![v] = @ \cup {current[v]}] ELSE toAdd
    /\ Leave(v)
    /\ UNCHANGED <<external, stored, proven, rounds, faults>>

\* What findOne may find: records keep the serial as the relay wrote it, and
\* it is looked up in lower case.
Earlier(s) == {r \in records : r.atec = s /\ ~r.upper}

\* The device of r is in use by another relay than f.
InUse(v, r, f) ==
    r.fingerprint # f /\ snapshot[v][r.fingerprint] # "none"

\* getVerifiedHardwareByAtecSerial; any one record of the device counts, and it
\* must name the relay itself or one that is not registered.
LookUp(v) ==
    /\ pc[v] = "looking" /\ Fresh(v) /\ listed[v].atec # None
    /\ LET found == Earlier(listed[v].atec)
       IN \/ /\ \E r \in found : InUse(v, r, current[v])
             /\ Leave(v)
          \/ /\ found = {} \/ \E r \in found : ~InUse(v, r, current[v])
             /\ pc' = [pc EXCEPT ![v] = "proving"]
             /\ UNCHANGED <<current, listed, todo, snapshot, known>>
    /\ UNCHANGED <<external, stored, toAdd, proven, rounds, faults>>

\* Without an ATEC serial, toLowerCase of undefined throws.
LookUpThrows(v) ==
    /\ pc[v] = "looking" /\ Fresh(v) /\ listed[v].atec = None
    /\ Abandon(v)
    /\ UNCHANGED <<external, stored, rounds, faults>>

Answers == {"owner", "other", "error"}

\* isOwnerOfRelayupNft: the backup provider is asked when the first one fails.
IsOwner(first, backup) ==
    first = "owner" \/ (first = "error" /\ backup = "owner")

\* The proofs that may hold of hardware_info i: the NFT it names, or else the
\* signature of a known device.
MayHold(i) ==
    IF i.nft
    THEN {IsOwner(first, backup) : first \in Answers, backup \in Answers}
    ELSE {i.atec \in Known /\ i.signed}

\* A value is missing that the proof or the record needs.
Lacks(i) == ~i.rest \/ (~i.nft /\ ~i.id)

\* Mutant: a malformed value throws as well.
ThrowsMalformed(i, holds) ==
    (Lacks(i) \/ ~i.signed) /\ (holds \/ (~i.nft /\ i.atec \in Known))

\* Which throws: with an NFT when the record is created, without one when the
\* signature is checked.
Throws(i, holds) == Lacks(i) /\ (holds \/ (~i.nft /\ i.atec \in Known))

\* The record relay f leaves when it lists i.
RecordOf(f, i) == [fingerprint |-> f, atec |-> i.atec, upper |-> i.upper]

\* Mutant: the record is written of whatever current is by then.
ProofHoldsLate(v) ==
    /\ pc[v] = "proving"
    /\ TRUE \in MayHold(listed[v]) /\ ~Throws(listed[v], TRUE)
    /\ toAdd' = [toAdd EXCEPT ![v] = @ \cup {current[v]}]
    /\ proven' = [proven EXCEPT ![v] = @ \cup {current[v]}]
    /\ Leave(v)
    /\ records' = records \cup {RecordOf(current'[v], listed[v])}
    /\ UNCHANGED <<external, failures, rounds, faults>>

\* Mutant: the second kind of proof leaves no record.
ProofHoldsUnrecorded(v) ==
    /\ pc[v] = "proving"
    /\ TRUE \in MayHold(listed[v]) /\ ~Throws(listed[v], TRUE)
    /\ records' = IF listed[v].nft
                  THEN records \cup {RecordOf(current[v], listed[v])}
                  ELSE records
    /\ toAdd' = [toAdd EXCEPT ![v] = @ \cup {current[v]}]
    /\ proven' = [proven EXCEPT ![v] = @ \cup {current[v]}]
    /\ Leave(v)
    /\ UNCHANGED <<external, failures, rounds, faults>>

\* isHardwareProofValid: the record is written, the relay is to be added.
ProofHolds(v) ==
    /\ pc[v] = "proving"
    /\ TRUE \in MayHold(listed[v]) /\ ~Throws(listed[v], TRUE)
    /\ records' = records \cup {RecordOf(current[v], listed[v])}
    /\ toAdd' = [toAdd EXCEPT ![v] = @ \cup {current[v]}]
    /\ proven' = [proven EXCEPT ![v] = @ \cup {current[v]}]
    /\ Leave(v)
    /\ UNCHANGED <<external, failures, rounds, faults>>

\* A malformed value ends the check before a missing one is used.
ProofFails(v) ==
    /\ pc[v] = "proving"
    /\ FALSE \in MayHold(listed[v])
    /\ failures' = failures \cup {current[v]}
    /\ Leave(v)
    /\ UNCHANGED <<external, records, toAdd, proven, rounds, faults>>

ProofThrows(v) ==
    /\ pc[v] = "proving"
    /\ \E holds \in MayHold(listed[v]) : Throws(listed[v], holds)
    /\ Abandon(v)
    /\ UNCHANGED <<external, stored, rounds, faults>>

\* The worker dies, or a call to the database or the registry fails.
RoundFails(v) ==
    /\ pc[v] # "idle"
    /\ Abandon(v)
    /\ faults' = faults + 1
    /\ UNCHANGED <<external, stored, rounds>>

\* The certificates arrive, those of proven relays with hw: true; chunks that
\* are lost register nothing.  RelayPipeline has the loop over the chunks.
Submit(v) ==
    /\ pc[v] = "deciding" /\ todo[v] = {}
    /\ \E S \in SUBSET toAdd[v] :
         /\ registry' = [f \in Relays |->
              IF f \in S /\ registry[f] = "none" THEN "claimable"
                                                 ELSE registry[f]]
         /\ flagged' = flagged \cup (S \cap proven[v])
    /\ Abandon(v)
    /\ UNCHANGED <<stored, rounds, faults>>

\* The registry's users (external).  A renounced relay stays flagged.
Claim == \E f \in Relays :
    /\ registry[f] = "claimable"
    /\ registry' = [registry EXCEPT ![f] = "verified"]
    /\ UNCHANGED <<flagged, stored, job, rounds, faults>>

Renounce == \E f \in Relays :
    /\ registry[f] = "verified"
    /\ registry' = [registry EXCEPT ![f] = "none"]
    /\ UNCHANGED <<flagged, stored, job, rounds, faults>>

Next ==
    \/ \E v \in Verifiers :
         \/ StartRound(v) \/ Take(v) \/ Decide(v) \/ LookUp(v) \/ LookUpThrows(v)
         \/ ProofHolds(v) \/ ProofFails(v) \/ ProofThrows(v)
         \/ RoundFails(v) \/ Submit(v)
    \/ Claim \/ Renounce

Spec == Init /\ [][Next]_vars

-----------------------------------------------------------------------------
(* Properties                                                              *)

Ledger == INSTANCE DeviceLedger WITH Records <- Record

\* Hardware flags are backed by records, and records are never taken back,
\* although they are written by a round that may be lost before it submits.
ImplementsLedger == Ledger!Spec

\* README.md, Hardware verification: "Each unique device (by ATEC serial) can
\* only be verified once."  Two relays of one round may use the same device.
OneRelayPerDevice ==
    \A r, q \in records :
        (/\ r.atec = q.atec
         /\ {r.fingerprint, q.fingerprint} \subseteq flagged
         /\ registry[r.fingerprint] # "none" /\ registry[q.fingerprint] # "none")
            => r.fingerprint = q.fingerprint

\* verify-relays ends with relays it has not decided on only if a call failed or
\* the relay it is at lists hardware_info without a value that is needed:
\* README.md says that each new relay is verified where applicable and then
\* submitted.
OnlyIncompleteInfoBlocks ==
    [][\A v \in Verifiers :
         (pc[v] # "idle" /\ pc'[v] = "idle" /\ faults' = faults)
             => \/ todo[v] = {} /\ current[v] = None
                \/ listed[v] # None
                   /\ (listed[v].atec = None \/ Lacks(listed[v]))]_vars

=============================================================================
