--------------------- MODULE HardwareVerificationProofs ---------------------
(***************************************************************************)
(* Theorems about HardwareVerification: types, that a round fails on its   *)
(* own only for incomplete hardware_info, and that the rounds implement    *)
(* DeviceLedger, whatever relays list from one round to the next.          *)
(***************************************************************************)
EXTENDS HardwareVerification, TLAPS

\* The steps of a verifier.
VerifierStep(v) ==
    \/ StartRound(v) \/ Take(v) \/ Decide(v) \/ LookUp(v) \/ LookUpThrows(v)
    \/ ProofHolds(v) \/ ProofFails(v) \/ ProofThrows(v)
    \/ RoundFails(v) \/ Submit(v)

\* A round has a relay exactly while it decides on it, and checks the proof of
\* one only when it lists a serial.
AtRelay == \A v \in Verifiers :
    /\ pc[v] \in {"idle", "deciding"} <=> current[v] = None
    /\ pc[v] = "proving" => listed[v] \in Info /\ listed[v].atec \in Serials

\* Flags, and the hardware a round is about to submit, are backed by records.
Backed ==
    /\ flagged \subseteq Ledger!Recorded
    /\ \A v \in Verifiers : proven[v] \subseteq Ledger!Recorded

HardwareInv == TypeOK /\ AtRelay /\ Backed

-----------------------------------------------------------------------------
(* Types                                                                   *)

\* The initial state has the types of TypeOK.
LEMMA HardwareTypeInit == Init => TypeOK
BY DEF Init, TypeOK, Status, Places

\* A round that ends with nothing submitted keeps the types.
LEMMA AbandonTypes ==
    ASSUME TypeOK, NEW v \in Verifiers, Abandon(v)
    PROVE  /\ pc' \in [Verifiers -> Places]
           /\ current' \in [Verifiers -> Relays \cup {None}]
           /\ listed' \in [Verifiers -> Info \cup {None}]
           /\ todo' \in [Verifiers -> SUBSET Relays]
           /\ snapshot' \in [Verifiers -> [Relays -> Status]]
           /\ known' \in [Verifiers -> SUBSET Relays]
           /\ toAdd' \in [Verifiers -> SUBSET Relays]
           /\ proven' \in [Verifiers -> SUBSET Relays]
BY DEF TypeOK, Abandon, Places

\* So does a loop that is done with a relay.
LEMMA LeaveTypes ==
    ASSUME TypeOK, NEW v \in Verifiers, Leave(v)
    PROVE  /\ pc' \in [Verifiers -> Places]
           /\ current' \in [Verifiers -> Relays \cup {None}]
           /\ listed' \in [Verifiers -> Info \cup {None}]
           /\ todo' \in [Verifiers -> SUBSET Relays]
           /\ snapshot' \in [Verifiers -> [Relays -> Status]]
           /\ known' \in [Verifiers -> SUBSET Relays]
BY DEF TypeOK, Leave, Places

\* A proof that holds is of a relay, and its record is a document.
LEMMA ProvingTypes ==
    ASSUME TypeOK, AtRelay, NEW v \in Verifiers, pc[v] = "proving"
    PROVE  /\ current[v] \in Relays
           /\ RecordOf(current[v], listed[v]) \in Record
<1>1. current[v] \in Relays
  BY DEF TypeOK, AtRelay
<1>2. listed[v] \in Info /\ listed[v].atec \in Serials
  BY DEF AtRelay
<1>3. QED BY <1>1, <1>2 DEF Info, Record, RecordOf

\* The steps of a verifier keep the types.
LEMMA VerifierTypes ==
    ASSUME TypeOK, AtRelay, NEW v \in Verifiers, VerifierStep(v)
    PROVE  TypeOK'
<1> USE DEF external, stored, job, TypeOK
<1>1. CASE StartRound(v)
  BY <1>1, RoundsAssumption DEF StartRound, Places
<1>2. CASE Take(v)
  BY <1>2, OffersAssumption DEF Take, Places
<1>3. CASE Decide(v)
  <2>1. current[v] \in Relays
    BY <1>3 DEF Decide, AtRelay
  <2>2. toAdd' \in [Verifiers -> SUBSET Relays]
    BY <1>3, <2>1 DEF Decide
  <2>3. QED BY <1>3, <2>2, LeaveTypes DEF Decide
<1>4. CASE LookUp(v)
  <2>1. PICK goes \in BOOLEAN :
           IF goes THEN /\ pc' = [pc EXCEPT ![v] = "proving"]
                        /\ UNCHANGED <<current, listed, todo, snapshot, known>>
                   ELSE Leave(v)
    BY <1>4 DEF LookUp
  <2>2. UNCHANGED <<external, stored, toAdd, proven, rounds, faults>>
    BY <1>4 DEF LookUp
  <2>3. CASE goes
    BY <2>1, <2>2, <2>3 DEF Places
  <2>4. CASE ~goes
    BY <2>1, <2>2, <2>4, LeaveTypes
  <2>5. QED BY <2>3, <2>4
<1>5. CASE LookUpThrows(v)
  BY <1>5, AbandonTypes DEF LookUpThrows
<1>6. CASE ProofHolds(v)
  <2>1. RecordOf(current[v], listed[v]) \in Record /\ current[v] \in Relays
    BY <1>6, ProvingTypes DEF ProofHolds
  <2>2. records' \in SUBSET Record
    BY <1>6, <2>1 DEF ProofHolds
  <2>3. toAdd' \in [Verifiers -> SUBSET Relays]
        /\ proven' \in [Verifiers -> SUBSET Relays]
    BY <1>6, <2>1 DEF ProofHolds
  <2>4. QED BY <1>6, <2>2, <2>3, LeaveTypes DEF ProofHolds
<1>7. CASE ProofFails(v)
  <2>1. current[v] \in Relays
    BY <1>7, ProvingTypes DEF ProofFails
  <2>2. QED BY <1>7, <2>1, LeaveTypes DEF ProofFails
<1>8. CASE ProofThrows(v)
  BY <1>8, AbandonTypes DEF ProofThrows
<1>9. CASE RoundFails(v)
  BY <1>9, AbandonTypes DEF RoundFails
<1>10. CASE Submit(v)
  <2>1. registry' \in [Relays -> Status] /\ flagged' \in SUBSET Relays
    BY <1>10 DEF Submit, Status
  <2>2. QED BY <1>10, <2>1, AbandonTypes DEF Submit
<1>11. QED BY <1>1, <1>2, <1>3, <1>4, <1>5, <1>6, <1>7, <1>8, <1>9, <1>10
            DEF VerifierStep

\* Every step keeps the types.
LEMMA HardwareTypeStep ==
    ASSUME TypeOK, AtRelay, [Next]_vars
    PROVE  TypeOK'
<1>1. ASSUME NEW v \in Verifiers, VerifierStep(v) PROVE TypeOK'
  BY <1>1, VerifierTypes
<1>2. CASE Claim
  BY <1>2 DEF Claim, TypeOK, Status, stored, job
<1>3. CASE Renounce
  BY <1>3 DEF Renounce, TypeOK, Status, stored, job
<1>4. CASE UNCHANGED vars
  BY <1>4 DEF vars, external, stored, job, TypeOK
<1>5. QED BY <1>1, <1>2, <1>3, <1>4 DEF Next, VerifierStep

-----------------------------------------------------------------------------
(* The inductive invariant                                                 *)

\* A verifier has a relay while it decides on it.
LEMMA AtRelayStep ==
    ASSUME TypeOK, AtRelay, [Next]_vars
    PROVE  AtRelay'
<1> SUFFICES ASSUME NEW v \in Verifiers
             PROVE  /\ pc'[v] \in {"idle", "deciding"} <=> current'[v] = None
                    /\ pc'[v] = "proving" =>
                         listed'[v] \in Info /\ listed'[v].atec \in Serials
  BY DEF AtRelay
<1>1. /\ pc[v] \in {"idle", "deciding"} <=> current[v] = None
      /\ pc[v] = "proving" => listed[v] \in Info /\ listed[v].atec \in Serials
      /\ current[v] \in Relays \cup {None} /\ listed[v] \in Info \cup {None}
  BY DEF AtRelay, TypeOK
<1> USE DEF TypeOK, external, stored, job
<1>2. ASSUME NEW w \in Verifiers, Abandon(w) \/ Leave(w)
      PROVE  /\ w = v => pc'[v] \in {"idle", "deciding"} /\ current'[v] = None
             /\ w # v => /\ pc'[v] = pc[v] /\ current'[v] = current[v]
                         /\ listed'[v] = listed[v]
  BY <1>2 DEF Abandon, Leave
<1>3. ASSUME NEW w \in Verifiers, VerifierStep(w)
      PROVE  /\ pc'[v] \in {"idle", "deciding"} <=> current'[v] = None
             /\ pc'[v] = "proving" =>
                  listed'[v] \in Info /\ listed'[v].atec \in Serials
  <2>1. CASE StartRound(w)
    BY <1>1, <2>1 DEF StartRound
  <2>2. CASE Take(w)
    BY <1>1, <2>2, NoneAssumption DEF Take
  <2>3. CASE Abandon(w) \/ Leave(w)
    BY <1>1, <1>2, <2>3
  <2>4. CASE LookUp(w) /\ ~Leave(w)
    <3>1. /\ pc[w] = "looking" /\ listed[w] # None /\ listed[w].atec # None
          /\ pc' = [pc EXCEPT ![w] = "proving"] /\ UNCHANGED <<current, listed>>
      BY <2>4 DEF LookUp, Fresh
    <3>2. listed[w] \in Info
      BY <3>1
    <3>3. listed[w].atec \in Serials
      BY <3>1, <3>2 DEF Info
    <3>4. QED BY <1>1, <3>1, <3>2, <3>3
  <2>5. QED
    BY <1>3, <2>1, <2>2, <2>3, <2>4 DEF VerifierStep, Decide, LookUpThrows,
       ProofHolds, ProofFails, ProofThrows, RoundFails, Submit
<1>4. CASE Claim \/ Renounce \/ UNCHANGED vars
  BY <1>1, <1>4 DEF Claim, Renounce, vars
<1>5. QED BY <1>3, <1>4 DEF Next, VerifierStep

\* A step adds at most one record, that of the relay whose proof holds.
LEMMA RecordsGrow ==
    ASSUME [Next]_vars
    PROVE  \/ records' = records
           \/ \E v \in Verifiers :
                /\ ProofHolds(v)
                /\ records' = records \cup {RecordOf(current[v], listed[v])}
<1> USE DEF external, stored, job, vars
<1>1. ASSUME NEW v \in Verifiers, VerifierStep(v), ~ProofHolds(v)
      PROVE  records' = records
  BY <1>1 DEF VerifierStep, StartRound, Take, Decide, LookUp, LookUpThrows,
       ProofFails, ProofThrows, RoundFails, Submit
<1>2. CASE Claim \/ Renounce \/ UNCHANGED vars
  BY <1>2 DEF Claim, Renounce
<1>3. ASSUME NEW v \in Verifiers, ProofHolds(v)
      PROVE  records' = records \cup {RecordOf(current[v], listed[v])}
  BY <1>3 DEF ProofHolds
<1>4. QED BY <1>1, <1>2, <1>3 DEF Next, VerifierStep

\* A flag is backed by a record, which a proof wrote before it was submitted.
LEMMA BackedStep ==
    ASSUME TypeOK, Backed, [Next]_vars
    PROVE  Backed'
<1>1. Ledger!Recorded \subseteq Ledger!Recorded'
  BY RecordsGrow DEF Ledger!Recorded
<1>2. SUFFICES ASSUME NEW f
               PROVE  /\ f \in flagged' => f \in flagged
                                           \/ \E v \in Verifiers : f \in proven[v]
                      /\ \A v \in Verifiers : f \in proven'[v] =>
                           f \in proven[v] \/ f \in Ledger!Recorded'
  BY <1>1 DEF Backed
<1> USE DEF TypeOK, external, stored, job
<1>3. ASSUME NEW w \in Verifiers, VerifierStep(w)
      PROVE  /\ f \in flagged' => f \in flagged \/ f \in proven[w]
             /\ \A v \in Verifiers : f \in proven'[v] =>
                  f \in proven[v] \/ f \in Ledger!Recorded'
  <2>1. CASE StartRound(w)
    BY <2>1 DEF StartRound
  <2>2. CASE Take(w) \/ Decide(w) \/ LookUp(w) \/ ProofFails(w)
    BY <2>2 DEF Take, Decide, LookUp, ProofFails
  <2>3. CASE ProofHolds(w)
    <3>1. current[w] \in Ledger!Recorded'
      <4>1. RecordOf(current[w], listed[w]) \in records'
        BY <2>3 DEF ProofHolds
      <4>2. RecordOf(current[w], listed[w]).fingerprint = current[w]
        BY DEF RecordOf
      <4>3. QED BY <4>1, <4>2 DEF Ledger!Recorded
    <3>2. QED BY <2>3, <3>1 DEF ProofHolds
  <2>4. CASE LookUpThrows(w) \/ ProofThrows(w) \/ RoundFails(w)
    BY <2>4 DEF LookUpThrows, ProofThrows, RoundFails, Abandon
  <2>5. CASE Submit(w)
    BY <2>5 DEF Submit, Abandon
  <2>6. QED BY <1>3, <2>1, <2>2, <2>3, <2>4, <2>5 DEF VerifierStep
<1>4. CASE Claim \/ Renounce \/ UNCHANGED vars
  BY <1>4 DEF Claim, Renounce, vars
<1>5. QED BY <1>3, <1>4 DEF Next, VerifierStep

\* The invariant is inductive.
LEMMA HardwareInductive ==
    /\ Init => HardwareInv
    /\ HardwareInv /\ [Next]_vars => HardwareInv'
<1>1. Init => AtRelay /\ Backed
  BY DEF Init, AtRelay, Backed
<1>2. QED BY <1>1, HardwareTypeInit, HardwareTypeStep, AtRelayStep, BackedStep
          DEF HardwareInv

\* The invariant holds in every state.
LEMMA HardwareInvariant == Spec => []HardwareInv
BY HardwareInductive, PTL DEF Spec

-----------------------------------------------------------------------------
(* Theorems                                                                *)

\* The state of hardware verification has its types.
THEOREM HardwareTypeCorrect == Spec => []TypeOK
<1>1. HardwareInv => TypeOK
  BY DEF HardwareInv
<1>2. QED BY <1>1, HardwareInvariant, PTL

\* A round ends early, no call failing, only at a relay with an incomplete
\* hardware_info.
THEOREM IncompleteInfoBlocks == Spec => OnlyIncompleteInfoBlocks
<1> DEFINE Ends(v) == pc[v] # "idle" /\ pc'[v] = "idle" /\ faults' = faults
           Explained(v) ==
             \/ todo[v] = {} /\ current[v] = None
             \/ listed[v] # None
                /\ (listed[v].atec = None \/ Lacks(listed[v]))
           Blocked == \A v \in Verifiers : Ends(v) => Explained(v)
<1>1. HardwareInv /\ [Next]_vars => [Blocked]_vars
  <2> SUFFICES ASSUME HardwareInv, Next, NEW v \in Verifiers, Ends(v)
               PROVE  Explained(v)
    OBVIOUS
  <2>0. TypeOK /\ AtRelay
    BY DEF HardwareInv
  <2> USE <2>0 DEF TypeOK, external, stored, job
  <2>1. CASE Claim \/ Renounce
    BY <2>1 DEF Claim, Renounce
  <2>2. ASSUME NEW w \in Verifiers, VerifierStep(w) PROVE Explained(v)
    <3>1. CASE StartRound(w) \/ Take(w)
      BY <3>1 DEF StartRound, Take
    <3>2. CASE Leave(w)
      BY <3>2 DEF Leave
    <3>3. CASE LookUp(w) /\ ~Leave(w)
      BY <3>3 DEF LookUp
    <3>4. CASE RoundFails(w)
      BY <3>4 DEF RoundFails
    <3>5. CASE LookUpThrows(w)
      <4>1. w = v
        BY <3>5 DEF LookUpThrows, Abandon
      <4>2. QED BY <3>5, <4>1 DEF LookUpThrows, Fresh
    <3>6. CASE ProofThrows(w)
      <4>1. w = v /\ pc[v] = "proving" /\ Lacks(listed[v])
        BY <3>6 DEF ProofThrows, Abandon, Throws
      <4>2. listed[v] # None
        BY <4>1, NoneAssumption DEF AtRelay
      <4>3. QED BY <4>1, <4>2
    <3>7. CASE Submit(w)
      <4>1. w = v /\ pc[v] = "deciding" /\ todo[v] = {}
        BY <3>7 DEF Submit, Abandon
      <4>2. QED BY <4>1 DEF AtRelay
    <3>8. QED
      BY <2>2, <3>1, <3>2, <3>3, <3>4, <3>5, <3>6, <3>7 DEF VerifierStep, Decide,
         ProofHolds, ProofFails
  <2>3. QED BY <2>1, <2>2 DEF Next, VerifierStep
<1>2. QED BY <1>1, HardwareInvariant, PTL DEF Spec, OnlyIncompleteInfoBlocks

\* The rounds implement the ledger: hardware flags are backed by records, which
\* are only added.
THEOREM LedgerImplemented == Spec => ImplementsLedger
<1>1. Init => Ledger!Init
  BY DEF Init, Ledger!Init
<1>2. HardwareInv /\ [Next]_vars => [Ledger!Next]_(Ledger!vars)
  <2> SUFFICES ASSUME HardwareInv, [Next]_vars
               PROVE  Ledger!Next \/ UNCHANGED <<records, flagged>>
    BY DEF Ledger!vars
  <2>0. TypeOK /\ AtRelay /\ Backed
    BY DEF HardwareInv
  <2> USE DEF external, stored, job
  <2>1. ASSUME NEW v \in Verifiers, ProofHolds(v) PROVE Ledger!Verify
    <3>1. RecordOf(current[v], listed[v]) \in Record
      BY <2>0, <2>1, ProvingTypes DEF ProofHolds
    <3>2. /\ records' = records \cup {RecordOf(current[v], listed[v])}
          /\ flagged' = flagged
      BY <2>1 DEF ProofHolds
    <3>3. QED BY <3>1, <3>2 DEF Ledger!Verify
  <2>2. ASSUME NEW v \in Verifiers, Submit(v) PROVE Ledger!Flag
    <3>1. PICK S \in SUBSET toAdd[v] : flagged' = flagged \cup (S \cap proven[v])
      BY <2>2 DEF Submit
    <3>2. S \cap proven[v] \in SUBSET (Ledger!Recorded \cap Relays)
      BY <2>0 DEF TypeOK, Backed
    <3>3. records' = records
      BY <2>2 DEF Submit
    <3>4. QED BY <3>1, <3>2, <3>3 DEF Ledger!Flag
  <2>3. ASSUME NEW v \in Verifiers, VerifierStep(v), ~ProofHolds(v), ~Submit(v)
        PROVE  UNCHANGED <<records, flagged>>
    BY <2>3 DEF VerifierStep, StartRound, Take, Decide, LookUp, LookUpThrows,
         ProofFails, ProofThrows, RoundFails
  <2>4. CASE Claim \/ Renounce \/ UNCHANGED vars
    BY <2>4 DEF Claim, Renounce, vars
  <2>5. QED BY <2>1, <2>2, <2>3, <2>4 DEF Next, VerifierStep, Ledger!Next
<1>3. QED BY <1>1, <1>2, HardwareInvariant, PTL
          DEF Spec, ImplementsLedger, Ledger!Spec

=============================================================================
