------------------------ MODULE RelayPipelineProofs ------------------------
(***************************************************************************)
(* Safety of the relay pipeline, for every set of rounds, relays and       *)
(* addresses, every page and chunk size and every bound.                   *)
(***************************************************************************)
EXTENDS RelayPipelineInvariants, TLAPS

\* Writing an address into a document leaves the rest of it alone.
LEMMA WriteAddress ==
    ASSUME NEW d \in Document, NEW a \in Contacts,
           NEW e, e = [d EXCEPT !.addr = a]
    PROVE  e \in Document /\ e # None /\ e.contact = d.contact /\ e.addr = a
  <1>1. e \in Document /\ e.contact = d.contact /\ e.addr = a
    BY DEF Document
  <1>2. None \notin Document
    BY ValuesAssumption DEF Document, Contacts
  <1> QED BY <1>1, <1>2

(***************************************************************************)
(* TypeInv is inductive: one step per action.                              *)
(***************************************************************************)

\* The types hold when no round has started.
LEMMA TypeInvInit == Init => TypeInv
  <1> SUFFICES ASSUME Init PROVE TypeInv
    OBVIOUS
  <1> USE ValuesAssumption, SizesAssumption
  <1>1. TypeOK
    BY DEF Init, TypeOK, Nothing, Status, Jobs, Places
  <1>2. InputsDefined
    BY DEF Init, InputsDefined, At
  <1> QED BY <1>1, <1>2 DEF TypeInv

\* The three jobs before persist-verification keep the types.
LEMMA TypeInvFetch ==
    ASSUME TypeInv, NEW r \in Rounds, Trigger(r) \/ FetchJob(r)
    PROVE  TypeInv'
  <1> USE ValuesAssumption, SizesAssumption
      DEF TypeInv, TypeOK, InputsDefined, At, shared, control, locals, passed,
          history, losses, ao, seen, counts, Jobs, Places, Nothing, Matching
  <1>1. CASE Trigger(r)
    <2>1. overlapped' \in SUBSET Rounds
      BY <1>1 DEF Trigger, Running
    <2> QED BY <1>1, <2>1 DEF Trigger, Enqueue
  <1>2. CASE FetchRelays(r)
    BY <1>2 DEF FetchRelays, Goto
  <1>3. CASE UpsertRelay(r)
    <2>1. PICK f \in todo[r] :
            /\ store' = [store EXCEPT ![f] =
                           [contact |-> listing[r][f], addr |-> Blank]]
            /\ todo' = [todo EXCEPT ![r] = @ \ {f}]
      BY <1>3 DEF UpsertRelay
    <2>2. f \in Relays /\ listing[r][f] \in Contacts
      BY <1>3, <2>1 DEF UpsertRelay
    <2>3. store' \in [Relays -> Document \cup {None}]
      BY <2>1, <2>2 DEF Document, Contacts
    <2> QED BY <1>3, <2>1, <2>3 DEF UpsertRelay
  <1>4. CASE UpsertFails(r)
    BY <1>4 DEF UpsertFails, Return, Enqueue, Fault
  <1>5. CASE FinishFetch(r)
    BY <1>5 DEF FinishFetch, Return, Enqueue
  <1> QED BY <1>1, <1>2, <1>3, <1>4, <1>5 DEF FetchJob

\* The steps of validate-relays keep the types.
LEMMA TypeInvValidate ==
    ASSUME TypeInv, NEW r \in Rounds, ValidateJob(r)
    PROVE  TypeInv'
  <1> USE ValuesAssumption, SizesAssumption
      DEF TypeInv, TypeOK, InputsDefined, At, shared, control, locals, passed,
          history, losses, ao, seen, counts, Jobs, Places, Nothing, Matching
  <1>1. CASE StartValidate(r)
    BY <1>1 DEF StartValidate, Goto
  <1>2. CASE ReadBatch(r)
    <2>1. PICK page \in Pages(todo[r], BatchSize) :
            LET found == {f \in page : store[f] # None
                                       /\ store[f].contact # Blank}
            IN /\ todo' = [todo EXCEPT ![r] = @ \ page]
               /\ pending' = [pending EXCEPT ![r] =
                    [f \in Relays |-> IF f \in found THEN store[f].contact
                                                     ELSE None]]
               /\ valid' = [valid EXCEPT ![r] = @ \cup found]
               /\ IF found = {} THEN UNCHANGED control
                                ELSE Goto(r, "writing")
      BY <1>2 DEF ReadBatch
    <2>2. page \subseteq Relays
      BY DEF Pages
    <2> DEFINE found == {f \in page : store[f] # None
                                      /\ store[f].contact # Blank}
    <2>3. \A f \in found : store[f].contact \in Contacts
      BY <2>2 DEF Document
    <2>4. /\ pending' \in [Rounds -> [Relays -> Contacts \cup {None}]]
          /\ todo' \in [Rounds -> SUBSET Relays]
          /\ valid' \in [Rounds -> SUBSET Relays]
      BY <2>1, <2>2, <2>3
    <2>5. UNCHANGED control \/ Goto(r, "writing")
      BY <2>1
    <2> HIDE DEF found
    <2>6. /\ pc' = pc \/ pc' = [pc EXCEPT ![r] = "writing"]
          /\ UNCHANGED <<job, orphan, stalled>>
      BY <2>5 DEF Goto
    <2>7. At(r, "validate-relays", "validating")
          /\ UNCHANGED <<shared, seen, toAdd, passed, history, losses>>
      BY <1>2 DEF ReadBatch
    <2>8. TypeOK'
      BY <2>4, <2>6, <2>7
    <2>9. /\ job[r] = "validate-relays" /\ fps' = fps /\ job' = job
          /\ listing' = listing /\ retries' = retries
      BY <2>6, <2>7
    <2>10. ASSUME NEW q \in Rounds
           PROVE  /\ job[q] = "idle" => pc'[q] = "waiting"
                  /\ job[q] \in {"validate-relays", "verify-relays"}
                        => fps[q] \in SUBSET Relays
                  /\ pc'[q] \in {"starting", "added"} /\ job[q] \notin PersistJobs
                        => job[q] = "verify" /\ fps[q] \in (SUBSET Relays) \ {None}
                  /\ At(q, "fetch-relays", "upserting")'
                        => todo'[q] \subseteq Matching(listing[q])
                  /\ (job[q] = "recover-persist-verification"
                       /\ pc'[q] # "waiting") => retries[q] > 0
      BY <2>1, <2>6, <2>9
    <2>11. InputsDefined'
      BY <2>9, <2>10
    <2> QED BY <2>8, <2>11
  <1>3. CASE WriteBatch(r)
    <2>1. ASSUME NEW f \in Relays, pending[r][f] # None, store[f] # None
          PROVE  [store[f] EXCEPT !.addr = pending[r][f]] \in Document
      <3>1. store[f] \in Document /\ pending[r][f] \in Contacts
        BY <2>1
      <3> QED BY <3>1 DEF Document
    <2>2. store' \in [Relays -> Document \cup {None}]
      BY <1>3, <2>1 DEF WriteBatch
    <2>3. /\ job[r] = "validate-relays" /\ pc' = [pc EXCEPT ![r] = "validating"]
          /\ UNCHANGED <<job, orphan, stalled, ao, locals, passed, history, losses>>
      BY <1>3 DEF WriteBatch, Goto
    <2>4. pc' \in [Rounds -> Places]
      BY <2>3
    <2>5. TypeOK'
      BY <2>2, <2>3, <2>4
    <2>6. InputsDefined'
      BY <2>3
    <2> QED BY <2>5, <2>6
  <1>4. CASE ValidateFails(r)
    BY <1>4 DEF ValidateFails, Return, Enqueue, Fault
  <1>5. CASE FinishValidate(r)
    BY <1>5 DEF FinishValidate, Return, Enqueue
  <1> QED BY <1>1, <1>2, <1>3, <1>4, <1>5 DEF ValidateJob

\* A job that has a job to add is past its first line, so the retries of the new
\* one are defined.
LEMMA RetriesLeftDefined ==
    ASSUME TypeInv, NEW r \in Rounds, pc[r] # "waiting",
           job[r] \in {"verify"} \cup PersistJobs
    PROVE  RetriesLeft(r) \in 0..MaxRetries
  <1> USE SizesAssumption
  <1>1. /\ retries[r] \in 0..MaxRetries
        /\ job[r] = "recover-persist-verification" => retries[r] > 0
    BY DEF TypeInv, TypeOK, InputsDefined
  <1> QED BY <1>1 DEF RetriesLeft, PersistJobs

\* What adding a job, completing the one that added it, and giving up do to the
\* control of a round.
LEMMA AddingSteps ==
    ASSUME TypeInv, NEW r \in Rounds,
           AddJob(r) \/ Continue(r) \/ (End(r) /\ UNCHANGED retries)
    PROVE  /\ \/ job'[r] = AddedJob(r) /\ pc'[r] = "waiting"
                 /\ retries' = [retries EXCEPT ![r] = RetriesLeft(r)]
              \/ job'[r] = job[r] /\ pc'[r] = "added" /\ retries' = retries
              \/ job'[r] = "over" /\ pc'[r] = "waiting" /\ retries' = retries
           /\ orphan' \in {orphan, [orphan EXCEPT ![r] = FALSE]}
           /\ stalled' \in {stalled, [stalled EXCEPT ![r] = FALSE]}
           /\ \A q \in Rounds \ {r} : job'[q] = job[q] /\ pc'[q] = pc[q]
           /\ job' = [job EXCEPT ![r] = job'[r]]
           /\ pc' = [pc EXCEPT ![r] = pc'[r]]
  <1> USE DEF TypeInv, TypeOK
  <1>1. CASE Continue(r)
    BY <1>1 DEF Continue, Enqueue
  <1>2. CASE Goto(r, "added") /\ UNCHANGED retries
    BY <1>2 DEF Goto
  <1>3. CASE End(r) /\ UNCHANGED retries
    BY <1>3 DEF End, Enqueue
  <1> QED BY <1>1, <1>2, <1>3 DEF AddJob

\* Adding a job, completing the one that added it, and giving up keep the types.
LEMMA TypeInvAdding ==
    ASSUME TypeInv, NEW r \in Rounds, pc[r] # "waiting",
           job[r] \in {"verify"} \cup PersistJobs,
           job[r] = "verify" => fps[r] \in (SUBSET Relays) \ {None},
           AddJob(r) \/ Continue(r) \/ (End(r) /\ UNCHANGED retries),
           UNCHANGED <<shared, locals, listing, fps, results, statsTx, counts,
                       accepted, losses>>,
           faulty' \in [Rounds -> BOOLEAN]
    PROVE  TypeInv'
  <1>1. RetriesLeft(r) \in 0..MaxRetries
    BY RetriesLeftDefined
  <1>2. AddedJob(r) \in Jobs
    BY DEF AddedJob, Jobs
  <1> USE DEF TypeInv, TypeOK, shared, locals, losses, ao, seen, counts
  <1>3. TypeOK'
    <2>1. job' \in [Rounds -> Jobs] /\ pc' \in [Rounds -> Places]
      <3>1. job'[r] \in Jobs /\ pc'[r] \in Places
        BY <1>2, AddingSteps DEF Jobs, Places
      <3>2. PICK j \in Jobs, p \in Places :
              job' = [job EXCEPT ![r] = j] /\ pc' = [pc EXCEPT ![r] = p]
        BY <3>1, AddingSteps
      <3> QED BY <3>2
    <2>2. retries' \in [Rounds -> 0..MaxRetries]
      <3>1. \/ retries' = [retries EXCEPT ![r] = RetriesLeft(r)]
            \/ retries' = retries
        BY AddingSteps
      <3> QED BY <1>1, <3>1
    <2>3. orphan' \in [Rounds -> BOOLEAN] /\ stalled' \in [Rounds -> BOOLEAN]
      <3>1. /\ orphan' \in {orphan, [orphan EXCEPT ![r] = FALSE]}
            /\ stalled' \in {stalled, [stalled EXCEPT ![r] = FALSE]}
        BY AddingSteps
      <3> QED BY <3>1
    <2> QED BY <2>1, <2>2, <2>3
  <1>4. ASSUME NEW q \in Rounds
        PROVE  /\ job'[q] = "idle" => pc'[q] = "waiting"
               /\ job'[q] \in {"validate-relays", "verify-relays"}
                      => fps'[q] \in SUBSET Relays
               /\ pc'[q] \in {"starting", "added"} /\ job'[q] \notin PersistJobs
                      => job'[q] = "verify" /\ fps'[q] \in (SUBSET Relays) \ {None}
               /\ (job'[q] = "fetch-relays" /\ pc'[q] = "upserting")
                      => todo'[q] \subseteq Matching(listing'[q])
               /\ (job'[q] = "recover-persist-verification"
                    /\ pc'[q] # "waiting") => retries'[q] > 0
    <2>1. CASE q # r
      <3>1. /\ job'[q] = job[q] /\ pc'[q] = pc[q]
            /\ \/ retries' = [retries EXCEPT ![r] = RetriesLeft(r)]
               \/ retries' = retries
        BY <2>1, AddingSteps
      <3>2. retries'[q] = retries[q]
        BY <2>1, <3>1
      <3>3. fps' = fps /\ todo' = todo /\ listing' = listing
        OBVIOUS
      <3> QED BY <3>1, <3>2, <3>3 DEF InputsDefined, At
    <2>2. CASE q = r
      BY <2>2, AddingSteps DEF InputsDefined, At, AddedJob, PersistJobs
    <2> QED BY <2>1, <2>2
  <1> QED BY <1>3, <1>4 DEF InputsDefined, At, Matching

\* The verify job keeps the types: its fingerprints are defined past its first line.
LEMMA TypeInvStart ==
    ASSUME TypeInv, NEW r \in Rounds, ReadValidation(r) \/ StartVerification(r)
    PROVE  TypeInv'
  <1>1. CASE ReadValidation(r)
    <2> USE DEF TypeInv, TypeOK, InputsDefined, At, shared, control, locals,
            passed, history, losses, ao, seen, counts, Jobs, Places, Matching,
            PersistJobs
    <2>1. CASE fps[r] # None /\ Goto(r, "starting") /\ UNCHANGED faulty
      BY <1>1, <2>1 DEF ReadValidation, Goto
    <2>2. CASE End(r) /\ Fault(r)
      BY <1>1, <2>2 DEF ReadValidation, End, Enqueue, Fault
    <2> QED BY <1>1, <2>1, <2>2 DEF ReadValidation
  <1>2. CASE StartVerification(r)
    <2>1. /\ job[r] = "verify" /\ pc[r] = "starting"
          /\ fps[r] \in (SUBSET Relays) \ {None}
      BY <1>2 DEF StartVerification, At, TypeInv, InputsDefined, PersistJobs
    <2>2. faulty' \in [Rounds -> BOOLEAN]
      BY <1>2 DEF StartVerification, Fault, TypeInv, TypeOK
    <2> QED BY <1>2, <2>1, <2>2, TypeInvAdding DEF StartVerification
  <1> QED BY <1>1, <1>2

\* The steps of verify-relays keep the types.
LEMMA TypeInvVerify ==
    ASSUME TypeInv, NEW r \in Rounds, VerifyJob(r) \/ Confirm(r)
    PROVE  TypeInv'
  <1> USE ValuesAssumption, SizesAssumption
      DEF TypeInv, TypeOK, InputsDefined, At, shared, control, locals, passed,
          history, losses, ao, seen, counts, Jobs, Places, Nothing, Matching
  <1>1. CASE ReadRegistry(r)
    <2>1. lagging' \in [Rounds -> SUBSET Relays]
      BY <1>1 DEF ReadRegistry, InFlight
    <2> QED BY <1>1, <2>1 DEF ReadRegistry, Goto
  <1>2. CASE ClassifyBatch(r)
    <2>1. PICK page \in Pages(todo[r], BatchSize), proven \in SUBSET HwRelays :
            LET found == {f \in page : store[f] # None}
                added == {f \in found : Verdict(r, f, proven) = None}
            IN /\ todo' = [todo EXCEPT ![r] = @ \ page]
               /\ toAdd' = [toAdd EXCEPT ![r] =
                    [f \in Relays |-> IF f \in added THEN store[f].addr
                                                     ELSE toAdd[r][f]]]
               /\ results' = [results EXCEPT ![r] =
                    [f \in Relays |-> IF f \in found
                                      THEN Verdict(r, f, proven)
                                      ELSE results[r][f]]]
      BY <1>2 DEF ClassifyBatch
    <2> DEFINE found == {f \in page : store[f] # None}
    <2>2. page \subseteq Relays
      BY DEF Pages
    <2>3. \A f \in found : store[f].addr \in Contacts
      BY <2>2 DEF Document
    <2>4. \A f \in found : Verdict(r, f, proven) \in Result \cup {None}
      BY DEF Verdict, Result
    <2>5. /\ toAdd' \in [Rounds -> [Relays -> Contacts \cup {None}]]
          /\ todo' \in [Rounds -> SUBSET Relays]
      BY <2>1, <2>2, <2>3
    <2>6. results' \in [Rounds -> [Relays -> Result \cup {None}]]
      BY <2>1, <2>4
    <2> QED BY <1>2, <2>5, <2>6 DEF ClassifyBatch
  <1>3. CASE VerifyFails(r)
    BY <1>3 DEF VerifyFails, Return, Enqueue, Fault
  <1>4. CASE StartSubmitting(r)
    BY <1>4 DEF StartSubmitting, Goto, Keys
  <1>5. CASE SubmitChunk(r)
    <2>1. PICK chunk \in Pages(todo[r], ChunkSize) \ {{}} :
            /\ todo' = [todo EXCEPT ![r] = @ \ chunk]
            /\ \/ /\ InFlight = {}
                  /\ registry' = Registered(chunk)
                  /\ accepted' = [accepted EXCEPT ![r] = @ \cup chunk]
                  /\ UNCHANGED <<inbox, faulty>>
               \/ /\ \E copies \in 1 .. MaxAttempts :
                       inbox' = [inbox EXCEPT ![chunk] = @ + copies]
                  /\ accepted' = [accepted EXCEPT ![r] = @ \cup chunk]
                  /\ Fault(r)
                  /\ UNCHANGED registry
               \/ /\ Fault(r)
                  /\ UNCHANGED <<ao, accepted>>
      BY <1>5 DEF SubmitChunk
    <2>2. chunk \subseteq Relays
      BY DEF Pages
    <2>3. Registered(chunk) \in [Relays -> Status]
      BY DEF Registered, Status
    <2>4. /\ todo' \in [Rounds -> SUBSET Relays]
          /\ registry' \in [Relays -> Status]
          /\ inbox' \in [SUBSET Relays -> Nat]
          /\ accepted' \in [Rounds -> SUBSET Relays]
          /\ faulty' \in [Rounds -> BOOLEAN]
      <3>1. todo' \in [Rounds -> SUBSET Relays]
        BY <2>1
      <3>2. registry' \in [Relays -> Status]
        BY <2>1, <2>3
      <3>3. inbox' \in [SUBSET Relays -> Nat]
        <4>1. CASE UNCHANGED inbox
          BY <4>1
        <4>2. CASE \E copies \in 1 .. MaxAttempts :
                     inbox' = [inbox EXCEPT ![chunk] = @ + copies]
          <5>1. PICK copies \in 1 .. MaxAttempts :
                  inbox' = [inbox EXCEPT ![chunk] = @ + copies]
            BY <4>2
          <5>2. inbox[chunk] + copies \in Nat
            BY <2>2
          <5> QED BY <2>2, <5>1, <5>2
        <4> QED BY <2>1, <4>1, <4>2
      <3>4. accepted' \in [Rounds -> SUBSET Relays]
        <4>1. CASE accepted' = [accepted EXCEPT ![r] = @ \cup chunk]
          BY <4>1, <2>2
        <4>2. CASE accepted' = accepted
          BY <4>2
        <4> QED BY <2>1, <4>1, <4>2
      <3>5. faulty' \in [Rounds -> BOOLEAN]
        <4>1. CASE Fault(r)
          BY <4>1 DEF Fault
        <4>2. CASE UNCHANGED faulty
          BY <4>2
        <4> QED BY <2>1, <4>1, <4>2
      <3> QED BY <3>1, <3>2, <3>3, <3>4, <3>5
    <2>5. /\ At(r, "verify-relays", "submitting")
          /\ UNCHANGED <<store, control, valid, pending, seen, toAdd,
                         passed, counts, losses>>
          /\ \A q \in Rounds : todo'[q] \subseteq todo[q]
      BY <1>5, <2>1 DEF SubmitChunk
    <2> QED BY <2>4, <2>5
  <1>6. CASE SubmitThrows(r)
    BY <1>6 DEF SubmitThrows, Return, Enqueue, Fault, Result
  <1>7. CASE FinishVerify(r)
    BY <1>7 DEF FinishVerify, Return, Enqueue
  <1>8. CASE Confirm(r)
    <2>1. CASE UNCHANGED <<results, faulty>>
      BY <1>8, <2>1 DEF Confirm, Return, Enqueue
    <2>2. CASE results' = [results EXCEPT ![r] = Nothing] /\ Fault(r)
      BY <1>8, <2>2 DEF Confirm, Return, Enqueue, Fault
    <2> QED BY <1>8, <2>1, <2>2 DEF Confirm
  <1> QED BY <1>1, <1>2, <1>3, <1>4, <1>5, <1>6, <1>7, <1>8 DEF VerifyJob

\* The steps of the persisting jobs keep the types.
LEMMA TypeInvPersist ==
    ASSUME TypeInv, NEW r \in Rounds, PersistJob(r)
    PROVE  TypeInv'
  <1> USE ValuesAssumption, SizesAssumption
      DEF TypeInv, TypeOK, InputsDefined, At, shared, control, locals, passed,
          history, losses, ao, seen, counts, Jobs, Places, Nothing, Matching, PersistJobs
  <1>1. CASE NothingToPersist(r)
    BY <1>1 DEF NothingToPersist, End, Enqueue
  <1>2. CASE Enrich(r)
    BY <1>2 DEF Enrich, HasWork, Goto
  <1>3. CASE EnrichFails(r)
    <2>1. CASE Fault(r)
      BY <1>3, <2>1 DEF EnrichFails, End, Enqueue, Fault
    <2>2. CASE UNCHANGED faulty
      BY <1>3, <2>2 DEF EnrichFails, End, Enqueue
    <2> QED BY <1>3, <2>1, <2>2 DEF EnrichFails
  <1>4. CASE UploadStats(r)
    <2>1. /\ attempts' \in [Rounds -> Nat]
          /\ uploads' \in [Rounds -> Nat]
          /\ statsTx' \in [Rounds -> BOOLEAN]
          /\ faulty' \in [Rounds -> BOOLEAN]
      <3>1. CASE /\ statsTx' = [statsTx EXCEPT ![r] = TRUE]
                 /\ uploads' = [uploads EXCEPT ![r] = @ + 1]
                 /\ UNCHANGED faulty
        BY <1>4, <3>1 DEF UploadStats
      <3>2. CASE /\ statsTx' = [statsTx EXCEPT ![r] = FALSE]
                 /\ Fault(r)
                 /\ UNCHANGED uploads
        BY <1>4, <3>2 DEF UploadStats, Fault
      <3> QED BY <1>4, <3>1, <3>2 DEF UploadStats
    <2>2. /\ job[r] \in PersistJobs /\ pc[r] = "uploading"
          /\ Goto(r, "recording")
          /\ UNCHANGED <<shared, locals, listing, fps, results, retries,
                         records, accepted, losses>>
      BY <1>4 DEF UploadStats
    <2> QED BY <2>1, <2>2 DEF Goto
  <1>5. CASE CreateRecord(r)
    <2>1. records' \in [Rounds -> Nat] /\ faulty' \in [Rounds -> BOOLEAN]
      <3>1. CASE records' = [records EXCEPT ![r] = @ + 1] /\ UNCHANGED faulty
        BY <3>1
      <3>2. CASE Fault(r) /\ UNCHANGED records
        BY <3>2 DEF Fault
      <3> QED BY <1>5, <3>1, <3>2 DEF CreateRecord
    <2>2. /\ job[r] \in PersistJobs /\ pc[r] = "recording"
          /\ Goto(r, "cleaning")
          /\ UNCHANGED <<shared, locals, passed, attempts, uploads, accepted,
                         losses>>
      BY <1>5 DEF CreateRecord
    <2> QED BY <2>1, <2>2 DEF Goto
  <1>6. CASE CleanUp(r)
    <2>1. /\ store' \in [Relays -> Document \cup {None}]
          /\ faulty' \in [Rounds -> BOOLEAN]
      <3>1. CASE store' = Nothing /\ UNCHANGED faulty
        BY <3>1
      <3>2. CASE Fault(r) /\ UNCHANGED store
        BY <3>2 DEF Fault
      <3> QED BY <1>6, <3>1, <3>2 DEF CleanUp
    <2>2. /\ job[r] \in PersistJobs /\ pc[r] = "cleaning"
          /\ Goto(r, "settling")
          /\ UNCHANGED <<ao, locals, passed, counts, accepted, losses>>
      BY <1>6 DEF CleanUp
    <2> QED BY <2>1, <2>2 DEF Goto
  <1>7. CASE Settle(r)
    <2>1. faulty' \in [Rounds -> BOOLEAN]
      <3>1. UNCHANGED faulty \/ Fault(r)
        BY <1>7 DEF Settle
      <3>2. CASE UNCHANGED faulty
        BY <3>2
      <3>3. CASE Fault(r)
        BY <3>3 DEF Fault
      <3> QED BY <3>1, <3>2, <3>3
    <2> QED BY <1>7, <2>1, TypeInvAdding DEF Settle
  <1>8. CASE Complete(r)
    <2>1. /\ job[r] \in {"verify"} \cup PersistJobs
          /\ job[r] = "verify" => fps[r] \in (SUBSET Relays) \ {None}
      BY <1>8 DEF Complete
    <2> QED BY <1>8, <2>1, TypeInvAdding DEF Complete
  <1> QED BY <1>1, <1>2, <1>3, <1>4, <1>5, <1>6, <1>7, <1>8 DEF PersistJob

\* A double takes over what its job was given; the job that added it has run up
\* to its last line.
LEMMA TypeInvDouble ==
    ASSUME TypeInv, NEW r \in Rounds, NEW q \in Rounds, Double(r, q)
    PROVE  TypeInv'
  <1>1. /\ pc[r] = "added" /\ q # r /\ job[q] = "idle"
        /\ job[r] \in {"verify"} \cup PersistJobs
        /\ job[r] = "verify" => fps[r] \in SUBSET Relays
    BY DEF Double, TypeInv, InputsDefined, PersistJobs
  <1>2. RetriesLeft(r) \in 0..MaxRetries
    BY <1>1, RetriesLeftDefined
  <1>3. AddedJob(r) \in {"verify-relays", "recover-persist-verification"}
    BY DEF AddedJob
  <1>4. /\ pc' = [pc EXCEPT ![r] = "waiting"]
        /\ stalled' = [stalled EXCEPT ![r] = TRUE]
        /\ job' = [job EXCEPT ![q] = AddedJob(r)]
        /\ listing' = [listing EXCEPT ![q] = listing[r]]
        /\ fps' = [fps EXCEPT ![q] = fps[r]]
        /\ results' = [results EXCEPT ![q] = results[r]]
        /\ retries' = [retries EXCEPT ![q] = RetriesLeft(r)]
        /\ UNCHANGED <<shared, locals, history, orphan, statsTx, boots>>
    BY DEF Double
  <1>5. /\ interruptions' \in [Rounds -> Nat]
        /\ lost' \in 0..MaxInterruptions
        /\ origin' \in [Rounds -> Rounds \X Nat]
        /\ overlapped' \in SUBSET Rounds
    <2>1. /\ interruptions' = [interruptions EXCEPT ![r] = @ + 1]
          /\ lost < MaxInterruptions /\ lost' = lost + 1
          /\ origin' = [origin EXCEPT ![q] = <<r, interruptions'[r]>>]
          /\ overlapped' = overlapped \cup {r, q}
      BY DEF Double, LoseWorker
    <2>2. interruptions' \in [Rounds -> Nat] /\ interruptions'[r] \in Nat
      BY <2>1 DEF TypeInv, TypeOK
    <2>3. lost' \in 0..MaxInterruptions
      BY <2>1, SizesAssumption DEF TypeInv, TypeOK
    <2> QED BY <2>1, <2>2, <2>3 DEF TypeInv, TypeOK
  <1> USE DEF TypeInv, TypeOK, shared, locals, history, ao, seen, counts
  <1>6. TypeOK'
    <2>1. /\ job' \in [Rounds -> Jobs] /\ pc' \in [Rounds -> Places]
          /\ stalled' \in [Rounds -> BOOLEAN]
      BY <1>3, <1>4 DEF Jobs, Places
    <2>2. /\ listing' \in [Rounds -> [Relays -> Contacts \cup {None}]]
          /\ fps' \in [Rounds -> (SUBSET Relays) \cup {None}]
          /\ results' \in [Rounds -> [Relays -> Result \cup {None}]]
          /\ retries' \in [Rounds -> 0..MaxRetries]
      BY <1>2, <1>4
    <2> QED BY <1>4, <1>5, <2>1, <2>2
  <1>7. ASSUME NEW p \in Rounds
        PROVE  /\ job'[p] = "idle" => pc'[p] = "waiting"
               /\ job'[p] \in {"validate-relays", "verify-relays"}
                      => fps'[p] \in SUBSET Relays
               /\ pc'[p] \in {"starting", "added"} /\ job'[p] \notin PersistJobs
                      => job'[p] = "verify" /\ fps'[p] \in (SUBSET Relays) \ {None}
               /\ (job'[p] = "fetch-relays" /\ pc'[p] = "upserting")
                      => todo'[p] \subseteq Matching(listing'[p])
               /\ (job'[p] = "recover-persist-verification"
                    /\ pc'[p] # "waiting") => retries'[p] > 0
    <2>1. CASE p \notin {r, q}
      <3>1. /\ job'[p] = job[p] /\ pc'[p] = pc[p] /\ fps'[p] = fps[p]
            /\ todo' = todo /\ listing'[p] = listing[p]
            /\ retries'[p] = retries[p]
        BY <1>4, <2>1
      <3> QED BY <3>1 DEF InputsDefined, At, Matching
    <2>2. CASE p = r
      <3>1. job'[r] = job[r] /\ pc'[r] = "waiting"
        BY <1>1, <1>4
      <3> QED BY <1>1, <2>2, <3>1 DEF PersistJobs
    <2>3. CASE p = q
      <3>1. job'[q] = AddedJob(r) /\ pc'[q] = "waiting" /\ fps'[q] = fps[r]
        BY <1>1, <1>4 DEF InputsDefined
      <3>2. CASE job[r] = "verify"
        BY <1>1, <2>3, <3>1, <3>2 DEF AddedJob
      <3>3. CASE job[r] # "verify"
        BY <2>3, <3>1, <3>3 DEF AddedJob
      <3> QED BY <3>2, <3>3
    <2> QED BY <2>1, <2>2, <2>3
  <1> QED BY <1>6, <1>7 DEF InputsDefined, At, Matching

\* Every step keeps the types.
LEMMA TypeInvNext == TypeInv /\ [Next]_vars => TypeInv'
  <1> SUFFICES ASSUME TypeInv, [Next]_vars PROVE TypeInv'
    OBVIOUS
  <1> USE ValuesAssumption, SizesAssumption
  <1>1. ASSUME NEW r \in Rounds, Trigger(r) \/ Handle(r) PROVE TypeInv'
    BY <1>1, TypeInvFetch, TypeInvValidate, TypeInvStart, TypeInvVerify,
       TypeInvPersist DEF Handle
  <1>2. ASSUME NEW r \in Rounds, Interrupt(r) PROVE TypeInv'
    <2> USE DEF TypeInv, TypeOK, InputsDefined, At, shared, control, locals,
            passed, history, losses, ao, seen, counts, Jobs, Places, Matching
    <2>1. /\ interruptions' \in [Rounds -> Nat]
          /\ lost' \in 0..MaxInterruptions
      BY <1>2 DEF Interrupt, LoseWorker
    <2>2. UNCHANGED <<shared, locals, passed, history, boots, origin,
                      overlapped>>
      BY <1>2 DEF Interrupt
    <2>3. CASE End(r)
      BY <2>1, <2>2, <2>3 DEF End, Enqueue
    <2>4. CASE /\ pc' = [pc EXCEPT ![r] = "waiting"]
               /\ stalled' = [stalled EXCEPT ![r] = TRUE]
               /\ UNCHANGED <<job, orphan>>
      BY <2>1, <2>2, <2>4
    <2> QED BY <1>2, <2>3, <2>4 DEF Interrupt
  <1>3. CASE Boot
    BY <1>3 DEF Boot, Live, Active, TypeInv, TypeOK, InputsDefined, At, shared,
       control, locals, passed, history, losses, ao, seen, counts, Jobs, Places, Matching
  <1>4. ASSUME NEW r \in Rounds, NEW q \in Rounds, Double(r, q) PROVE TypeInv'
    BY <1>4, TypeInvDouble
  <1>5. CASE Evaluate \/ Claim \/ Renounce
    <2>1. registry' \in [Relays -> Status] /\ inbox' \in [SUBSET Relays -> Nat]
      <3>1. CASE Evaluate
        <4>1. PICK m \in SUBSET Relays :
                /\ inbox[m] > 0
                /\ inbox' = [inbox EXCEPT ![m] = @ - 1]
                /\ registry' = Registered(m)
          BY <3>1 DEF Evaluate
        <4>2. inbox[m] \in Nat /\ inbox[m] - 1 \in Nat
          BY <4>1 DEF TypeInv, TypeOK
        <4>3. Registered(m) \in [Relays -> Status]
          BY DEF Registered, Status, TypeInv, TypeOK
        <4> QED BY <4>1, <4>2, <4>3 DEF TypeInv, TypeOK
      <3>2. CASE Claim \/ Renounce
        <4>1. \E f \in Relays, s \in Status :
                registry' = [registry EXCEPT ![f] = s]
          BY <3>2 DEF Claim, Renounce, Status
        <4>2. registry' \in [Relays -> Status]
          BY <4>1 DEF TypeInv, TypeOK
        <4>3. inbox' = inbox
          BY <3>2 DEF Claim, Renounce
        <4> QED BY <4>2, <4>3 DEF TypeInv, TypeOK
      <3> QED BY <1>5, <3>1, <3>2
    <2>2. UNCHANGED <<store, control, locals, passed, history, losses>>
      BY <1>5 DEF Evaluate, Claim, Renounce
    <2> QED BY <2>1, <2>2 DEF TypeInv, TypeOK, InputsDefined, At, control,
       locals, passed, history, losses, seen, counts, Matching
  <1>6. CASE UNCHANGED vars
    BY <1>6 DEF vars, TypeInv, TypeOK, InputsDefined, At, shared, control,
       locals, passed, history, losses, ao, seen, counts, Matching
  <1> QED BY <1>1, <1>2, <1>3, <1>4, <1>5, <1>6 DEF Next

\* Every variable of the pipeline keeps its type, whatever fails and whenever
\* a leader boots; in particular no job loops over fingerprints a failed job
\* has left undefined, and retriesLeft never goes below zero.
THEOREM TypeCorrect == Spec => []TypeOK
  <1>1. TypeInv => TypeOK
    BY DEF TypeInv
  <1> QED BY <1>1, TypeInvInit, TypeInvNext, PTL DEF Spec

-----------------------------------------------------------------------------
(***************************************************************************)
(* PipelineInv.  A step of round r leaves every other round alone, and no  *)
(* other round is live unless both are on record; so only the facts about  *)
(* r need an argument.                                                     *)
(***************************************************************************)

Frame(r) ==
    /\ \A q \in Rounds \ {r} :
         /\ job'[q] = job[q] /\ pc'[q] = pc[q]
         /\ listing'[q] = listing[q] /\ fps'[q] = fps[q]
         /\ toAdd'[q] = toAdd[q] /\ attempts'[q] = attempts[q]
    /\ overlapped \subseteq overlapped'

\* fetch-relays moves its own round only.
LEMMA FetchFrame ==
    ASSUME TypeInv, NEW r \in Rounds, Trigger(r) \/ FetchJob(r)
    PROVE  Frame(r)
  <1> USE DEF TypeInv, TypeOK, Frame, At, shared, control, locals,
          passed, history, losses, ao, seen, counts
  <1>1. CASE Trigger(r)
    BY <1>1 DEF Trigger, Enqueue
  <1>2. CASE FetchRelays(r)
    BY <1>2 DEF FetchRelays, Goto
  <1>3. CASE UpsertRelay(r)
    BY <1>3 DEF UpsertRelay
  <1>4. CASE UpsertFails(r)
    BY <1>4 DEF UpsertFails, Return, Enqueue
  <1>5. CASE FinishFetch(r)
    BY <1>5 DEF FinishFetch, Return, Enqueue
  <1> QED BY <1>1, <1>2, <1>3, <1>4, <1>5 DEF FetchJob

\* validate-relays moves its own round only.
LEMMA ValidateFrame ==
    ASSUME TypeInv, NEW r \in Rounds,
           ValidateJob(r)
    PROVE  Frame(r)
  <1> USE DEF TypeInv, TypeOK, Frame, At, shared, control, locals,
          passed, history, losses, ao, seen, counts
  <1>1. CASE StartValidate(r)
    BY <1>1 DEF StartValidate, Goto
  <1>2. CASE ReadBatch(r)
    <2>1. UNCHANGED control \/ Goto(r, "writing")
      BY <1>2 DEF ReadBatch
    <2>2. UNCHANGED <<shared, seen, toAdd, passed, history, losses>>
      BY <1>2 DEF ReadBatch
    <2>3. CASE UNCHANGED control
      BY <2>2, <2>3
    <2>4. CASE Goto(r, "writing")
      BY <2>2, <2>4 DEF Goto
    <2> QED BY <2>1, <2>3, <2>4
  <1>3. CASE WriteBatch(r)
    BY <1>3 DEF WriteBatch, Goto
  <1>4. CASE ValidateFails(r)
    BY <1>4 DEF ValidateFails, Return, Enqueue
  <1>5. CASE FinishValidate(r)
    BY <1>5 DEF FinishValidate, Return, Enqueue
  <1> QED BY <1>1, <1>2, <1>3, <1>4, <1>5 DEF ValidateJob

\* The verify job moves its own round only.
LEMMA StartFrame ==
    ASSUME TypeInv, NEW r \in Rounds, ReadValidation(r) \/ StartVerification(r)
    PROVE  Frame(r)
  <1> USE DEF Frame, shared, locals, passed, losses, seen, counts
  <1>1. CASE ReadValidation(r)
    <2>1. \A q \in Rounds \ {r} : job'[q] = job[q] /\ pc'[q] = pc[q]
      BY <1>1 DEF ReadValidation, Goto, End, Enqueue, TypeInv, TypeOK
    <2> QED BY <1>1, <2>1 DEF ReadValidation
  <1>2. CASE StartVerification(r)
    <2>1. AddJob(r) \/ Continue(r) \/ (End(r) /\ UNCHANGED retries)
      BY <1>2 DEF StartVerification
    <2> QED BY <1>2, <2>1, AddingSteps DEF StartVerification
  <1> QED BY <1>1, <1>2

\* verify-relays moves its own round only.
LEMMA VerifyFrame ==
    ASSUME TypeInv, NEW r \in Rounds, VerifyJob(r) \/ Confirm(r)
    PROVE  Frame(r)
  <1> USE DEF TypeInv, TypeOK, Frame, At, shared, control, locals,
          passed, history, losses, ao, seen, counts
  <1>1. CASE ReadRegistry(r)
    BY <1>1 DEF ReadRegistry, Goto
  <1>2. CASE ClassifyBatch(r)
    <2>1. \A q \in Rounds \ {r} : toAdd'[q] = toAdd[q]
      BY <1>2 DEF ClassifyBatch
    <2>2. UNCHANGED <<control, listing, fps, history, losses>>
      BY <1>2 DEF ClassifyBatch
    <2> QED BY <2>1, <2>2
  <1>3. CASE VerifyFails(r)
    BY <1>3 DEF VerifyFails, Return, Enqueue
  <1>4. CASE StartSubmitting(r)
    BY <1>4 DEF StartSubmitting, Goto
  <1>5. CASE SubmitChunk(r)
    BY <1>5 DEF SubmitChunk
  <1>6. CASE SubmitThrows(r)
    BY <1>6 DEF SubmitThrows, Return, Enqueue
  <1>7. CASE FinishVerify(r)
    BY <1>7 DEF FinishVerify, Return, Enqueue
  <1>8. CASE Confirm(r)
    BY <1>8 DEF Confirm, Return, Enqueue
  <1> QED BY <1>1, <1>2, <1>3, <1>4, <1>5, <1>6, <1>7, <1>8 DEF VerifyJob

\* The persisting jobs move their own round only.
LEMMA PersistFrame ==
    ASSUME TypeInv, NEW r \in Rounds, PersistJob(r)
    PROVE  Frame(r)
  <1> USE DEF TypeInv, TypeOK, Frame, At, shared, control, locals,
          passed, history, losses, ao, seen, counts
  <1>1. CASE NothingToPersist(r)
    BY <1>1 DEF NothingToPersist, End, Enqueue
  <1>2. CASE Enrich(r)
    BY <1>2 DEF Enrich, Goto
  <1>3. CASE EnrichFails(r)
    BY <1>3 DEF EnrichFails, End, Enqueue
  <1>4. CASE UploadStats(r)
    BY <1>4 DEF UploadStats, Goto
  <1>5. CASE CreateRecord(r)
    BY <1>5 DEF CreateRecord, Goto
  <1>6. CASE CleanUp(r)
    BY <1>6 DEF CleanUp, Goto
  <1>7. CASE Settle(r)
    <2>1. AddJob(r) \/ Continue(r) \/ (End(r) /\ UNCHANGED retries)
      BY <1>7 DEF Settle
    <2> QED BY <1>7, <2>1, AddingSteps DEF Settle
  <1>8. CASE Complete(r)
    <2>1. AddJob(r) \/ Continue(r) \/ (End(r) /\ UNCHANGED retries)
      BY <1>8 DEF Complete
    <2> QED BY <1>8, <2>1, AddingSteps DEF Complete
  <1> QED BY <1>1, <1>2, <1>3, <1>4, <1>5, <1>6, <1>7, <1>8 DEF PersistJob

\* A round that is not live knows nothing of the collection.
LEMMA RestingKeeps ==
    ASSUME NEW q \in Rounds, RoundInv(q), job[q] \in {"idle", "over"},
           job'[q] = job[q], pc'[q] \in {pc[q], "waiting"},
           listing'[q] = listing[q], toAdd'[q] = toAdd[q]
    PROVE  RoundInv(q)'
  <1>1. PlaceOf(q)' /\ Fetching(q)' /\ Validating(q)' /\ Verifying(q)'
    BY DEF RoundInv, PlaceOf, Fetching, Validating, Verifying, At
  <1>2. Persisting(q)'
    BY DEF RoundInv, PlaceOf, Persisting, Uploaded, PersistJobs
  <1>3. Certifying(q)'
    BY DEF RoundInv, Certifying, CertificatesListed, Nothing
  <1> QED BY <1>1, <1>2, <1>3 DEF RoundInv

\* What is left to show of a step of r, once its frame is known.
LEMMA OthersKeep ==
    ASSUME PipelineInv, NEW r \in Rounds, Frame(r), TypeInv', Alone',
           \A q \in Rounds \ {r} : Live(q) => q \in overlapped',
           r \notin overlapped' => RoundInv(r)'
    PROVE  PipelineInv'
  <1>1. ASSUME NEW q \in Rounds, q # r, q \notin overlapped' PROVE RoundInv(q)'
    <2>1. RoundInv(q) /\ job[q] \in {"idle", "over"}
      BY <1>1 DEF PipelineInv, Frame, Live
    <2>2. /\ job'[q] = job[q] /\ pc'[q] = pc[q] /\ listing'[q] = listing[q]
          /\ toAdd'[q] = toAdd[q]
      BY <1>1 DEF Frame
    <2> QED BY <2>1, <2>2, RestingKeeps
  <1> QED BY <1>1 DEF PipelineInv

\* The same of a step a live round takes.
LEMMA LiveStepKeeps ==
    ASSUME PipelineInv, NEW r \in Rounds, Live(r), Frame(r), TypeInv',
           r \notin overlapped => RoundInv(r)'
    PROVE  PipelineInv'
  <1>1. \A q \in Rounds \ {r} : Live(q) => q \in overlapped'
    BY DEF PipelineInv, Alone, Frame
  <1>2. Alone'
    <2>1. SUFFICES ASSUME NEW p \in Rounds, NEW q \in Rounds, Live(p)', Live(q)',
                          p # q
                   PROVE  p \in overlapped'
      BY DEF Alone
    <2>2. Live(p) /\ Live(q)
      BY <2>1 DEF Frame, Live
    <2> QED BY <2>1, <2>2 DEF PipelineInv, Alone, Frame
  <1>3. r \notin overlapped' => RoundInv(r)'
    BY DEF Frame
  <1> QED BY <1>1, <1>2, <1>3, OthersKeep

\* fetch-relays: once a relay is off the list it is stored as listed.
LEMMA FetchInv ==
    ASSUME PipelineInv, NEW r \in Rounds \ overlapped,
           Trigger(r) \/ FetchJob(r)
    PROVE  RoundInv(r)'
  <1> USE ValuesAssumption
      DEF PipelineInv, TypeInv, TypeOK, RoundInv, PlaceOf, Fetching, Validating,
          Verifying, Persisting, Uploaded, Certifying, CertificatesListed, Holds, Stamped, At, PersistJobs
  <1>1. CASE Trigger(r)
    <2>1. /\ job'[r] = "fetch-relays" /\ pc'[r] = "waiting"
          /\ toAdd'[r] = Nothing /\ job[r] = "idle"
      BY <1>1 DEF Trigger, Enqueue, locals
    <2> QED BY <2>1 DEF Nothing
  <1>2. CASE FetchRelays(r)
    <2>1. /\ job'[r] = "fetch-relays" /\ pc'[r] = "upserting"
          /\ toAdd'[r] = Nothing
          /\ todo'[r] = Matching(listing[r])'
      BY <1>2 DEF FetchRelays, Goto, Matching
    <2> QED BY <2>1 DEF Nothing
  <1>3. CASE UpsertRelay(r)
    <2>1. PICK f \in todo[r] :
            /\ store' = [store EXCEPT ![f] =
                           [contact |-> listing[r][f], addr |-> Blank]]
            /\ todo' = [todo EXCEPT ![r] = @ \ {f}]
      BY <1>3 DEF UpsertRelay
    <2>2. /\ job'[r] = "fetch-relays" /\ pc'[r] = "upserting"
          /\ toAdd'[r] = Nothing /\ listing' = listing
          /\ todo'[r] = todo[r] \ {f}
          /\ \A g \in Matching(listing[r]) \ todo[r] : Holds(r, g)
      BY <1>3, <2>1 DEF UpsertRelay, control, passed
    <2>3. f \in Relays /\ listing[r][f] \in Contacts
      BY <1>3, <2>1, f \in Matching(listing[r])
         DEF UpsertRelay, Matching, InputsDefined
    <2>4. [contact |-> listing[r][f], addr |-> Blank] # None
      BY <2>3 DEF Contacts
    <2>5. \A g \in Matching(listing[r]) \ todo'[r] : Holds(r, g)'
      BY <2>1, <2>2, <2>3, <2>4 DEF Matching
    <2> QED BY <2>2, <2>5 DEF Nothing
  <1>4. CASE UpsertFails(r)
    <2>1. /\ job'[r] \in {"validate-relays", "over"} /\ pc'[r] = "waiting"
          /\ toAdd'[r] = Nothing /\ fps'[r] = {}
      BY <1>4 DEF UpsertFails, Return, Enqueue, locals
    <2> QED BY <2>1 DEF Nothing
  <1>5. CASE FinishFetch(r)
    <2>1. /\ job'[r] \in {"validate-relays", "over"} /\ pc'[r] = "waiting"
          /\ toAdd'[r] = Nothing /\ fps'[r] = Matching(listing[r])
          /\ listing' = listing /\ store' = store /\ todo[r] = {}
          /\ \A g \in Matching(listing[r]) : Holds(r, g)
      BY <1>5 DEF FinishFetch, Return, Enqueue, locals, shared
    <2> QED BY <2>1 DEF Nothing
  <1> QED BY <1>1, <1>2, <1>3, <1>4, <1>5 DEF FetchJob

\* validate-relays: a validated relay is stamped when its page is written.
LEMMA ValidateInv ==
    ASSUME PipelineInv, NEW r \in Rounds \ overlapped,
           ValidateJob(r)
    PROVE  RoundInv(r)'
  <1> USE ValuesAssumption
      DEF PipelineInv, TypeInv, TypeOK, RoundInv, PlaceOf, Fetching, Validating,
          Verifying, Persisting, Uploaded, Certifying, CertificatesListed, Holds, Stamped, At, PersistJobs
  <1>1. CASE StartValidate(r)
    <2>1. /\ job[r] = "validate-relays" /\ fps[r] \in SUBSET Relays
          /\ job'[r] = "validate-relays" /\ pc'[r] = "validating"
          /\ toAdd'[r] = Nothing /\ todo'[r] = fps[r] /\ valid'[r] = {}
          /\ fps' = fps /\ listing' = listing /\ store' = store
      BY <1>1 DEF StartValidate, Goto, passed, shared, InputsDefined
    <2> QED BY <2>1 DEF Nothing
  <1>2. CASE ReadBatch(r)
    <2>1. PICK page \in Pages(todo[r], BatchSize) :
            LET found == {f \in page : store[f] # None
                                       /\ store[f].contact # Blank}
            IN /\ todo' = [todo EXCEPT ![r] = @ \ page]
               /\ pending' = [pending EXCEPT ![r] =
                    [f \in Relays |-> IF f \in found THEN store[f].contact
                                                     ELSE None]]
               /\ valid' = [valid EXCEPT ![r] = @ \cup found]
               /\ IF found = {} THEN UNCHANGED control
                                ELSE Goto(r, "writing")
      BY <1>2 DEF ReadBatch
    <2> DEFINE found == {f \in page : store[f] # None
                                      /\ store[f].contact # Blank}
    <2>2. page \subseteq todo[r]
      BY DEF Pages
    <2>3. /\ job[r] = "validate-relays" /\ pc[r] = "validating"
          /\ fps' = fps /\ listing' = listing /\ store' = store
          /\ toAdd' = toAdd /\ toAdd[r] = Nothing
          /\ todo[r] \cup valid[r] \subseteq fps[r]
          /\ \A f \in valid[r] : Stamped(r, f)
          /\ \A f \in fps[r] : Holds(r, f) /\ f \in Matching(listing[r])
      BY <1>2 DEF ReadBatch, passed, shared
    <2>4. /\ todo'[r] = todo[r] \ page
          /\ valid'[r] = valid[r] \cup found
          /\ \A f \in Relays : pending'[r][f] =
                 IF f \in found THEN store[f].contact ELSE None
      BY <2>1
    <2>5. /\ job'[r] = "validate-relays"
          /\ \/ pc'[r] = "validating" /\ found = {}
             \/ pc'[r] = "writing"
      BY <2>1, <2>3 DEF control, Goto
    <2>6. \A f \in found : /\ f \in fps[r] /\ f \in Relays
                           /\ store[f].contact = listing[r][f]
                           /\ listing[r][f] # Blank
      BY <2>2, <2>3 DEF InputsDefined
    <2> HIDE DEF found
    <2>7. Validating(r)'
      <3>1. \A f \in fps'[r] : Holds(r, f)' /\ f \in Matching(listing'[r])
        BY <2>3
      <3>2. todo'[r] \cup valid'[r] \subseteq fps'[r]
        BY <2>2, <2>3, <2>4, <2>6
      <3>3. \A f \in valid'[r] :
               \/ Stamped(r, f)'
               \/ pc'[r] = "writing" /\ pending'[r][f] = listing'[r][f]
                  /\ listing'[r][f] # Blank
        BY <2>3, <2>4, <2>5, <2>6
      <3>4. \A f \in Relays : pending'[r][f] # None =>
               f \in fps'[r] /\ pending'[r][f] = listing'[r][f]
               /\ listing'[r][f] # Blank
        BY <2>3, <2>4, <2>6
      <3> QED BY <3>1, <3>2, <3>3, <3>4 DEF Matching
    <2> QED BY <2>3, <2>5, <2>7 DEF Nothing
  <1>3. CASE WriteBatch(r)
    <2>1. /\ job[r] = "validate-relays" /\ pc[r] = "writing"
          /\ job'[r] = "validate-relays" /\ pc'[r] = "validating"
          /\ fps' = fps /\ listing' = listing /\ toAdd' = toAdd
          /\ toAdd[r] = Nothing /\ todo' = todo /\ valid' = valid
          /\ fps[r] \in SUBSET Relays
          /\ todo[r] \cup valid[r] \subseteq fps[r]
      <3>1. /\ job[r] = "validate-relays" /\ pc[r] = "writing"
            /\ job'[r] = "validate-relays" /\ pc'[r] = "validating"
        BY <1>3 DEF WriteBatch, Goto
      <3>2. /\ fps' = fps /\ listing' = listing /\ toAdd' = toAdd
            /\ todo' = todo /\ valid' = valid
        BY <1>3 DEF WriteBatch, locals, passed
      <3> QED BY <3>1, <3>2 DEF InputsDefined
    <2>2. \A f \in Relays : store'[f] =
            IF pending[r][f] # None /\ store[f] # None
            THEN [store[f] EXCEPT !.addr = pending[r][f]]
            ELSE store[f]
      BY <1>3 DEF WriteBatch
    <2>3. ASSUME NEW f \in Relays, Holds(r, f)
          PROVE  /\ Holds(r, f)'
                 /\ store'[f].addr = IF pending[r][f] # None
                                     THEN pending[r][f] ELSE store[f].addr
      <3>1. store[f] \in Document
        BY <2>3
      <3>2. CASE pending[r][f] = None
        <4>1. store'[f] = store[f]
          BY <2>2, <3>2
        <4> QED BY <2>1, <2>3, <3>2, <4>1
      <3>3. CASE pending[r][f] # None
        <4>1. pending[r][f] \in Contacts
          BY <3>3
        <4>2. store'[f] = [store[f] EXCEPT !.addr = pending[r][f]]
          BY <2>2, <2>3, <3>3
        <4>3. /\ store'[f] # None /\ store'[f].contact = store[f].contact
              /\ store'[f].addr = pending[r][f]
          BY <3>1, <4>1, <4>2, WriteAddress
        <4> QED BY <2>1, <2>3, <3>3, <4>3
      <3> QED BY <3>2, <3>3
    <2>4. \A f \in fps[r] : Holds(r, f)' /\ f \in Matching(listing[r])
      BY <2>1, <2>3
    <2>5. \A f \in valid[r] : Stamped(r, f)'
      <3>1. SUFFICES ASSUME NEW f \in valid[r] PROVE Stamped(r, f)'
        OBVIOUS
      <3>2. /\ f \in fps[r] /\ f \in Relays /\ f \in Matching(listing[r])
            /\ Holds(r, f) /\ listing[r][f] # None
        BY <2>1 DEF Matching
      <3>3. /\ listing[r][f] # Blank
            /\ pending[r][f] = None => store[f].addr = listing[r][f]
            /\ pending[r][f] # None => pending[r][f] = listing[r][f]
        <4>1. Stamped(r, f) \/ (pending[r][f] = listing[r][f] /\ listing[r][f] # Blank)
          BY <2>1
        <4>2. pending[r][f] # None => pending[r][f] = listing[r][f]
          BY <2>1, <3>2
        <4>3. CASE Stamped(r, f)
          BY <4>2, <4>3
        <4>4. CASE pending[r][f] = listing[r][f] /\ listing[r][f] # Blank
          BY <3>2, <4>4
        <4> QED BY <4>1, <4>3, <4>4
      <3> QED BY <2>1, <2>3, <3>2, <3>3
    <2>6. Validating(r)'
      BY <2>1, <2>4, <2>5 DEF Matching
    <2> QED BY <2>1, <2>6 DEF Nothing
  <1>4. CASE ValidateFails(r)
    <2>1. /\ job'[r] \in {"verify", "over"} /\ pc'[r] = "waiting"
          /\ toAdd'[r] = Nothing /\ fps'[r] = None
      BY <1>4 DEF ValidateFails, Return, Enqueue, locals
    <2> QED BY <2>1 DEF Nothing
  <1>5. CASE FinishValidate(r)
    <2>1. /\ job'[r] \in {"verify", "over"} /\ pc'[r] = "waiting"
          /\ toAdd'[r] = Nothing /\ fps'[r] = valid[r]
          /\ listing' = listing /\ store' = store
          /\ \A f \in valid[r] : Stamped(r, f)
      <3>1. job[r] = "validate-relays" /\ pc[r] = "validating"
        BY <1>5 DEF FinishValidate
      <3>2. valid[r] \subseteq fps[r] /\ \A f \in valid[r] : Stamped(r, f)
        BY <3>1
      <3> QED BY <1>5, <3>1, <3>2
              DEF FinishValidate, Return, Enqueue, locals, shared
    <2> QED BY <2>1 DEF Nothing, Matching
  <1> QED BY <1>1, <1>2, <1>3, <1>4, <1>5 DEF ValidateJob

\* verify: what is validated stays stamped while the job adds the flow.
LEMMA StartInv ==
    ASSUME PipelineInv, NEW r \in Rounds \ overlapped,
           ReadValidation(r) \/ StartVerification(r)
    PROVE  RoundInv(r)'
  <1> USE ValuesAssumption
      DEF PipelineInv, TypeInv, TypeOK, RoundInv, PlaceOf, Fetching, Validating,
          Verifying, Persisting, Uploaded, Certifying, CertificatesListed,
          Holds, Stamped, At, PersistJobs
  <1>1. /\ job[r] = "verify" /\ toAdd' = toAdd /\ toAdd[r] = Nothing
        /\ fps' = fps /\ listing' = listing /\ store' = store
        /\ fps[r] # None => \A f \in fps[r] : Stamped(r, f)
    BY DEF ReadValidation, StartVerification, locals, passed, shared
  <1>2. \/ job'[r] = "verify" /\ pc'[r] \in {"starting", "added"}
        \/ job'[r] = "verify-relays" /\ pc'[r] = "waiting"
           /\ fps[r] \in (SUBSET Relays) \ {None}
        \/ job'[r] = "over" /\ pc'[r] = "waiting"
    <2>1. CASE ReadValidation(r)
      BY <2>1 DEF ReadValidation, Goto, End, Enqueue
    <2>2. CASE StartVerification(r)
      <3>1. AddJob(r) \/ Continue(r) \/ (End(r) /\ UNCHANGED retries)
        BY <2>2 DEF StartVerification
      <3>2. fps[r] \in (SUBSET Relays) \ {None}
        BY <2>2 DEF StartVerification, InputsDefined
      <3> QED BY <1>1, <3>1, <3>2, AddingSteps DEF AddedJob
    <2> QED BY <2>1, <2>2
  <1>3. CASE job'[r] = "verify-relays"
    <2>1. Verifying(r)'
      BY <1>1, <1>2, <1>3 DEF Matching
    <2> QED BY <1>1, <1>2, <1>3, <2>1 DEF Nothing
  <1>4. CASE job'[r] = "verify"
    <2>1. Verifying(r)'
      BY <1>1, <1>2, <1>4 DEF Matching
    <2> QED BY <1>1, <1>2, <1>4, <2>1 DEF Nothing
  <1>5. CASE job'[r] = "over"
    BY <1>1, <1>2, <1>5 DEF Nothing
  <1> QED BY <1>2, <1>3, <1>4, <1>5

\* verify-relays: what it takes over from the store is stamped, so neither
\* empty nor refused.
LEMMA VerifyInv ==
    ASSUME PipelineInv, NEW r \in Rounds \ overlapped,
           VerifyJob(r) \/ Confirm(r)
    PROVE  RoundInv(r)'
  <1> USE ValuesAssumption
      DEF PipelineInv, TypeInv, TypeOK, RoundInv, PlaceOf, Fetching, Validating,
          Verifying, Persisting, Uploaded, Certifying, CertificatesListed, Stamped, At, PersistJobs
  <1>1. CASE ReadRegistry(r)
    <2>1. /\ job[r] = "verify-relays"
          /\ job'[r] = "verify-relays" /\ pc'[r] = "classifying"
          /\ toAdd'[r] = Nothing /\ todo'[r] = fps[r]
          /\ fps' = fps /\ listing' = listing /\ store' = store
      BY <1>1 DEF ReadRegistry, Goto, shared
    <2> QED BY <2>1 DEF Nothing, Matching
  <1>2. CASE ClassifyBatch(r)
    <2>1. PICK page \in Pages(todo[r], BatchSize), proven \in SUBSET HwRelays :
            LET found == {f \in page : store[f] # None}
                added == {f \in found : Verdict(r, f, proven) = None}
            IN /\ todo' = [todo EXCEPT ![r] = @ \ page]
               /\ toAdd' = [toAdd EXCEPT ![r] =
                    [f \in Relays |-> IF f \in added THEN store[f].addr
                                                     ELSE toAdd[r][f]]]
               /\ results' = [results EXCEPT ![r] =
                    [f \in Relays |-> IF f \in found
                                      THEN Verdict(r, f, proven)
                                      ELSE results[r][f]]]
      BY <1>2 DEF ClassifyBatch
    <2> DEFINE added == {f \in {g \in page : store[g] # None} :
                             Verdict(r, f, proven) = None}
    <2>2. /\ job[r] = "verify-relays" /\ pc[r] = "classifying"
          /\ job' = job /\ pc' = pc /\ fps' = fps /\ listing' = listing
          /\ store' = store
      BY <1>2 DEF ClassifyBatch, control, shared
    <2>3. /\ todo'[r] = todo[r] \ page
          /\ \A f \in Relays : toAdd'[r][f] =
                 IF f \in added THEN store[f].addr ELSE toAdd[r][f]
      BY <2>1
    <2>4. added \subseteq fps[r]
      BY <2>2 DEF Pages
    <2>5. \A f \in added : /\ f \in Relays /\ Stamped(r, f)
                           /\ store[f].addr # Dummy
      BY <2>2, <2>4 DEF Verdict, Matching
    <2>6. \A f \in added : /\ store[f].addr = listing[r][f]
                           /\ store[f].addr \in Addresses
                           /\ f \notin Banned
      BY <2>5 DEF Matching, Contacts
    <2> HIDE DEF added
    <2>7. Certifying(r)'
      <3>1. SUFFICES ASSUME NEW f \in Relays, toAdd'[r][f] # None
                     PROVE  /\ toAdd'[r][f] = listing[r][f]
                            /\ toAdd'[r][f] \in Addresses
                            /\ f \notin Banned
        BY <2>2
      <3>2. CASE f \in added
        BY <2>3, <2>6, <3>2
      <3>3. CASE f \notin added
        BY <2>3, <3>1, <3>3
      <3> QED BY <3>2, <3>3
    <2>8. Verifying(r)'
      BY <2>2, <2>3 DEF Matching
    <2> QED BY <2>2, <2>7, <2>8
  <1>3. CASE VerifyFails(r)
    <2>1. /\ job'[r] \in {"confirm-verification", "over"} /\ pc'[r] = "waiting"
          /\ toAdd'[r] = Nothing /\ fps' = fps /\ store' = store
          /\ \A f \in fps[r] : Stamped(r, f)
      BY <1>3 DEF VerifyFails, Return, Enqueue, shared
    <2> QED BY <2>1 DEF Nothing
  <1>4. CASE StartSubmitting(r)
    <2>1. /\ job[r] = "verify-relays" /\ job'[r] = "verify-relays"
          /\ pc'[r] = "submitting" /\ toAdd' = toAdd
          /\ fps' = fps /\ listing' = listing /\ store' = store
      BY <1>4 DEF StartSubmitting, Goto, passed, shared
    <2> QED BY <2>1 DEF Matching
  <1>5. CASE SubmitChunk(r)
    <2>1. /\ job[r] = "verify-relays" /\ pc[r] = "submitting" /\ job' = job
          /\ pc' = pc /\ toAdd' = toAdd
          /\ fps' = fps /\ listing' = listing /\ store' = store
      BY <1>5 DEF SubmitChunk, control, passed
    <2> QED BY <2>1 DEF Matching
  <1>6. CASE SubmitThrows(r)
    <2>1. /\ job'[r] \in {"confirm-verification", "over"} /\ pc'[r] = "waiting"
          /\ toAdd' = toAdd /\ listing' = listing
          /\ fps' = fps /\ store' = store
          /\ \A f \in fps[r] : Stamped(r, f)
      BY <1>6 DEF SubmitThrows, Return, Enqueue, shared, locals
    <2> QED BY <2>1
  <1>7. CASE FinishVerify(r)
    <2>1. /\ job'[r] \in {"confirm-verification", "over"} /\ pc'[r] = "waiting"
          /\ toAdd' = toAdd /\ listing' = listing
          /\ fps' = fps /\ store' = store
          /\ \A f \in fps[r] : Stamped(r, f)
      BY <1>7 DEF FinishVerify, Return, Enqueue, shared, locals, passed
    <2> QED BY <2>1
  <1>8. CASE Confirm(r)
    <2>1. /\ job[r] = "confirm-verification"
          /\ job'[r] \in {"persist-verification", "over"} /\ pc'[r] = "waiting"
          /\ toAdd' = toAdd /\ listing' = listing /\ attempts' = attempts
          /\ fps' = fps /\ store' = store
      BY <1>8 DEF Confirm, Return, Enqueue, shared, locals, counts
    <2> QED BY <2>1
  <1> QED BY <1>1, <1>2, <1>3, <1>4, <1>5, <1>6, <1>7, <1>8 DEF VerifyJob

\* Persisting: the collection is emptied only after an attempt to upload.
LEMMA PersistInv ==
    ASSUME PipelineInv, NEW r \in Rounds \ overlapped,
           PersistJob(r)
    PROVE  RoundInv(r)'
  <1> USE DEF PipelineInv, TypeInv, TypeOK, RoundInv, PlaceOf, Fetching,
              Validating, Verifying, Persisting, Uploaded, Certifying, CertificatesListed, At, PersistJobs
  <1>1. toAdd' = toAdd /\ listing' = listing /\ fps' = fps
    BY DEF PersistJob, NothingToPersist, Enrich, EnrichFails, UploadStats,
           CreateRecord, CleanUp, Settle, Complete, locals, passed
  <1>2. CASE NothingToPersist(r) \/ EnrichFails(r)
    <2>1. job'[r] = "over" /\ pc'[r] = "waiting"
      BY <1>2 DEF NothingToPersist, EnrichFails, End, Enqueue
    <2> QED BY <1>1, <2>1
  <1>3. CASE Enrich(r)
    <2>1. /\ job[r] \in PersistJobs /\ job' = job /\ pc'[r] = "uploading"
          /\ attempts' = attempts /\ store' = store
      BY <1>3 DEF Enrich, Goto, history, counts, shared
    <2> QED BY <1>1, <2>1
  <1>4. CASE UploadStats(r)
    <2>1. /\ job[r] \in PersistJobs /\ job' = job /\ pc'[r] = "recording"
          /\ attempts'[r] = attempts[r] + 1
      BY <1>4 DEF UploadStats, Goto
    <2>2. attempts'[r] > 0 /\ attempts'[r] # 0
      BY <2>1
    <2> QED BY <1>1, <2>1, <2>2
  <1>5. CASE CreateRecord(r)
    <2>1. /\ job[r] \in PersistJobs /\ job' = job /\ pc'[r] = "cleaning"
          /\ attempts' = attempts /\ attempts[r] > 0
      BY <1>5 DEF CreateRecord, Goto
    <2> QED BY <1>1, <2>1
  <1>6. CASE CleanUp(r)
    <2>1. /\ job[r] \in PersistJobs /\ job' = job /\ pc'[r] = "settling"
          /\ attempts' = attempts /\ attempts[r] > 0
      BY <1>6 DEF CleanUp, Goto, counts
    <2> QED BY <1>1, <2>1
  <1>7. CASE Settle(r)
    <2>1. AddJob(r) \/ Continue(r) \/ (End(r) /\ UNCHANGED retries)
      BY <1>7 DEF Settle
    <2>2. job[r] \in PersistJobs /\ attempts' = attempts /\ attempts[r] > 0
      BY <1>7 DEF Settle, counts
    <2>3. \/ job'[r] = "recover-persist-verification" /\ pc'[r] = "waiting"
          \/ job'[r] = job[r] /\ pc'[r] = "added"
          \/ job'[r] = "over" /\ pc'[r] = "waiting"
      BY <2>1, <2>2, AddingSteps DEF AddedJob
    <2> QED BY <1>1, <2>2, <2>3
  <1>8. CASE Complete(r)
    <2>1. AddJob(r) \/ Continue(r) \/ (End(r) /\ UNCHANGED retries)
      BY <1>8 DEF Complete
    <2>2. /\ pc[r] = "added" /\ attempts' = attempts /\ store' = store
          /\ job[r] \in PersistJobs => attempts[r] > 0
      BY <1>8 DEF Complete, history, counts, shared
    <2>3. /\ pc'[r] = "waiting"
          /\ job'[r] = AddedJob(r) \/ job'[r] = "over"
      BY <1>8 DEF Complete, Continue, End, Enqueue
    <2>4. CASE job[r] = "verify" /\ job'[r] = "verify-relays"
      <3>1. fps[r] \in (SUBSET Relays) \ {None} /\ toAdd[r] = Nothing
        BY <2>2, <2>4 DEF InputsDefined
      <3>2. \A f \in fps[r] : Stamped(r, f)
        BY <2>4, <3>1
      <3>3. \A f \in fps[r] : Stamped(r, f)'
        BY <1>1, <2>2, <3>2 DEF Stamped, Matching
      <3> QED BY <1>1, <2>2, <2>3, <2>4, <3>1, <3>3
    <2>5. CASE job[r] # "verify" /\ job'[r] = "recover-persist-verification"
      BY <1>1, <2>2, <2>3, <2>5
    <2>6. CASE job'[r] = "over"
      BY <1>1, <2>3, <2>6
    <2> QED BY <2>2, <2>3, <2>4, <2>5, <2>6 DEF AddedJob
  <1> QED BY <1>2, <1>3, <1>4, <1>5, <1>6, <1>7, <1>8 DEF PersistJob

\* A lost worker only sends its job back to the queue, or ends it.
LEMMA InterruptInv ==
    ASSUME PipelineInv, NEW r \in Rounds, Interrupt(r)
    PROVE  Frame(r) /\ (r \notin overlapped => RoundInv(r)')
  <1> USE DEF PipelineInv, TypeInv, TypeOK
  <1>1. /\ job'[r] \in {job[r], "over"} /\ pc'[r] = "waiting"
        /\ \A q \in Rounds \ {r} : job'[q] = job[q] /\ pc'[q] = pc[q]
    <2> USE DEF TypeInv, TypeOK
    <2>1. CASE End(r)
      BY <2>1 DEF End, Enqueue
    <2>2. CASE pc' = [pc EXCEPT ![r] = "waiting"] /\ UNCHANGED <<job, orphan>>
      BY <2>2
    <2> QED BY <2>1, <2>2 DEF Interrupt
  <1>2. UNCHANGED <<store, toAdd, listing, fps, attempts, overlapped>>
    BY DEF Interrupt, shared, locals, passed, history, counts
  <1>3. Frame(r)
    BY <1>1, <1>2 DEF Frame
  <1>4. RoundInv(r) => RoundInv(r)'
    BY <1>1, <1>2 DEF RoundInv, PlaceOf, Fetching, Validating, Verifying,
       Persisting, Uploaded, Certifying, CertificatesListed, Holds, Stamped, At,
       PersistJobs, Nothing, Matching
  <1> QED BY <1>3, <1>4

\* A boot ends rounds, sends nothing back and touches no document.
LEMMA BootInv ==
    ASSUME PipelineInv, Boot, TypeInv'
    PROVE  PipelineInv'
  <1> USE DEF PipelineInv, TypeInv, TypeOK
  <1>1. PICK running \in SUBSET {r \in Rounds : Active(r)} :
          /\ job' = [r \in Rounds |-> IF Live(r) /\ r \notin running
                                      THEN "over" ELSE job[r]]
          /\ pc' = [r \in Rounds |-> IF r \in running THEN pc[r] ELSE "waiting"]
    BY DEF Boot
  <1>2. UNCHANGED <<store, locals, passed, attempts, overlapped>>
    BY DEF Boot, shared, counts
  <1>3. Alone'
    BY <1>1, <1>2 DEF Alone, Live
  <1>4. ASSUME NEW r \in Rounds, RoundInv(r) PROVE RoundInv(r)'
    <2>1. CASE r \in running
      <3>1. job'[r] = job[r] /\ pc'[r] = pc[r]
        BY <1>1, <2>1
      <3> QED BY <1>2, <1>4, <3>1 DEF RoundInv, PlaceOf, Fetching, Validating,
         Verifying, Persisting, Uploaded, Certifying, CertificatesListed, Holds, Stamped,
         At, PersistJobs, Nothing, Matching, locals, passed
    <2>2. CASE r \notin running /\ Live(r)
      <3>1. job'[r] = "over" /\ pc'[r] = "waiting"
        BY <1>1, <2>2
      <3> QED BY <1>2, <1>4, <3>1 DEF RoundInv, PlaceOf, Fetching, Validating,
         Verifying, Persisting, Uploaded, Certifying, CertificatesListed, At, PersistJobs,
         locals, passed
    <2>3. CASE ~Live(r)
      <3>1. /\ job'[r] = job[r] /\ pc'[r] \in {pc[r], "waiting"}
            /\ job[r] \in {"idle", "over"}
        BY <1>1, <2>3 DEF Live
      <3> QED BY <1>2, <1>4, <3>1, RestingKeeps DEF locals, passed
    <2> QED BY <2>1, <2>2, <2>3
  <1> QED BY <1>2, <1>3, <1>4

\* The invariant holds when no round has started.
LEMMA PipelineInvInit == Init => PipelineInv
  <1> SUFFICES ASSUME Init PROVE PipelineInv
    OBVIOUS
  <1>1. TypeInv
    BY TypeInvInit
  <1>2. Alone
    BY DEF Init, Alone, Live
  <1>3. ASSUME NEW r \in Rounds PROVE RoundInv(r)
    <2>1. job[r] = "idle" /\ pc[r] = "waiting" /\ toAdd[r] = Nothing
      BY DEF Init
    <2> QED BY <2>1 DEF RoundInv, PlaceOf, Fetching, Validating, Verifying,
       Persisting, Uploaded, Certifying, CertificatesListed, At, PersistJobs, Nothing
  <1> QED BY <1>1, <1>2, <1>3 DEF PipelineInv

\* Only rounds that run take these steps.
LEMMA HandlesLive ==
    ASSUME TypeInv, NEW r \in Rounds, Handle(r) \/ Interrupt(r)
    PROVE  Live(r)
  <1>1. FetchJob(r) \/ Confirm(r) => Live(r)
    BY DEF FetchJob, FetchRelays, UpsertRelay, UpsertFails, FinishFetch,
           Confirm, At, Live
  <1>6. ReadValidation(r) \/ StartVerification(r) => Live(r)
    BY DEF ReadValidation, StartVerification, At, Live
  <1>2. ValidateJob(r) => Live(r)
    BY DEF ValidateJob, StartValidate, ReadBatch, WriteBatch,
           ValidateFails, FinishValidate, At, Live
  <1>3. VerifyJob(r) => Live(r)
    BY DEF VerifyJob, ReadRegistry, ClassifyBatch, VerifyFails,
           StartSubmitting, SubmitChunk, SubmitThrows, FinishVerify, At,
           Live
  <1>4. PersistJob(r) => Live(r)
    <2>1. pc[r] = "added" => Live(r)
      BY DEF TypeInv, InputsDefined, PersistJobs, Live
    <2> QED BY <2>1 DEF PersistJob, NothingToPersist, Enrich, EnrichFails,
       UploadStats, CreateRecord, CleanUp, Settle, Complete, PersistJobs, Live
  <1>5. Interrupt(r) => Live(r)
    BY DEF Interrupt, Active
  <1> QED BY <1>1, <1>2, <1>3, <1>4, <1>5, <1>6 DEF Handle

\* Both chains are on record from the moment there are two.
LEMMA DoubleInv ==
    ASSUME PipelineInv, NEW r \in Rounds, NEW q \in Rounds, Double(r, q), TypeInv'
    PROVE  PipelineInv'
  <1>1. /\ pc' = [pc EXCEPT ![r] = "waiting"]
        /\ job' = [job EXCEPT ![q] = AddedJob(r)]
        /\ listing' = [listing EXCEPT ![q] = listing[r]]
        /\ fps' = [fps EXCEPT ![q] = fps[r]]
        /\ overlapped' = overlapped \cup {r, q}
        /\ UNCHANGED <<shared, locals, history>>
        /\ pc[r] = "added"
    BY DEF Double
  <1> USE DEF PipelineInv, TypeInv, TypeOK
  <1>2. Live(r)
    BY <1>1 DEF InputsDefined, PersistJobs, Live
  <1>3. ASSUME NEW p \in Rounds, p \notin {r, q}
        PROVE  /\ job'[p] = job[p] /\ pc'[p] = pc[p]
               /\ listing'[p] = listing[p] /\ toAdd'[p] = toAdd[p]
    BY <1>1, <1>3 DEF locals
  <1>4. Alone'
    <2>1. SUFFICES ASSUME NEW o \in Rounds, NEW p \in Rounds,
                          Live(o)', Live(p)', o # p, o \notin {r, q}
                   PROVE  o \in overlapped
      BY <1>1 DEF Alone
    <2>2. Live(o)
      BY <1>3, <2>1 DEF Live
    <2> QED BY <1>2, <2>1, <2>2 DEF Alone
  <1>5. ASSUME NEW p \in Rounds, p \notin overlapped' PROVE RoundInv(p)'
    <2>1. p \notin {r, q} /\ p \notin overlapped
      BY <1>1, <1>5
    <2>2. ~Live(p) /\ RoundInv(p)
      BY <1>2, <2>1 DEF Alone
    <2> QED BY <1>3, <2>1, <2>2, RestingKeeps DEF Live
  <1> QED BY <1>4, <1>5

\* A round that starts is alone, or it and all that run are put on record.
LEMMA TriggerInv ==
    ASSUME PipelineInv, NEW r \in Rounds, Trigger(r), TypeInv'
    PROVE  PipelineInv'
  <1>1. Frame(r) /\ job[r] = "idle"
    BY FetchFrame DEF PipelineInv, Trigger
  <1>2. CASE Running = {}
    <2>1. overlapped' = overlapped /\ \A q \in Rounds : ~Live(q)
      BY <1>2 DEF Trigger, Running
    <2>2. Alone'
      BY <1>1, <2>1 DEF Alone, Frame, Live
    <2>3. r \notin overlapped' => RoundInv(r)'
      BY <2>1, FetchInv
    <2> QED BY <1>1, <2>1, <2>2, <2>3, OthersKeep
  <1>3. CASE Running # {}
    <2>1. overlapped' = overlapped \cup Running \cup {r}
      BY <1>3 DEF Trigger
    <2>2. Alone'
      BY <1>1, <2>1 DEF Alone, Frame, Live, Running
    <2>3. \A q \in Rounds \ {r} : Live(q) => q \in overlapped'
      BY <2>1 DEF Running
    <2> QED BY <1>1, <2>1, <2>2, <2>3, OthersKeep
  <1> QED BY <1>2, <1>3

\* Every step keeps the invariant.
LEMMA PipelineInvNext == PipelineInv /\ [Next]_vars => PipelineInv'
  <1> SUFFICES ASSUME PipelineInv, [Next]_vars PROVE PipelineInv'
    OBVIOUS
  <1>1. TypeInv /\ TypeInv'
    BY TypeInvNext DEF PipelineInv
  <1>2. ASSUME NEW r \in Rounds, Trigger(r) PROVE PipelineInv'
    BY <1>1, <1>2, TriggerInv
  <1>3. ASSUME NEW r \in Rounds, Handle(r) PROVE PipelineInv'
    <2>1. Live(r)
      BY <1>1, <1>3, HandlesLive
    <2>2. CASE FetchJob(r)
      BY <1>1, <2>1, <2>2, FetchFrame, FetchInv, LiveStepKeeps
    <2>3. CASE ValidateJob(r)
      BY <1>1, <2>1, <2>3, ValidateFrame, ValidateInv, LiveStepKeeps
    <2>4. CASE VerifyJob(r) \/ Confirm(r)
      BY <1>1, <2>1, <2>4, VerifyFrame, VerifyInv, LiveStepKeeps
    <2>5. CASE PersistJob(r)
      BY <1>1, <2>1, <2>5, PersistFrame, PersistInv, LiveStepKeeps
    <2>6. CASE ReadValidation(r) \/ StartVerification(r)
      BY <1>1, <2>1, <2>6, StartFrame, StartInv, LiveStepKeeps
    <2> QED BY <1>3, <2>2, <2>3, <2>4, <2>5, <2>6 DEF Handle
  <1>4. ASSUME NEW r \in Rounds, Interrupt(r) PROVE PipelineInv'
    <2>1. Live(r)
      BY <1>1, <1>4, HandlesLive
    <2> QED BY <1>1, <1>4, <2>1, InterruptInv, LiveStepKeeps
  <1>5. CASE Boot
    BY <1>1, <1>5, BootInv
  <1>6. ASSUME UNCHANGED <<store, control, locals, passed, history, losses>>
        PROVE  PipelineInv'
    <2>1. Alone'
      BY <1>6 DEF PipelineInv, Alone, Live, control, losses
    <2>2. ASSUME NEW r \in Rounds, r \notin overlapped' PROVE RoundInv(r)'
      <3>1. RoundInv(r)
        BY <1>6, <2>2 DEF PipelineInv, losses
      <3> QED BY <1>6, <3>1 DEF RoundInv, PlaceOf, Fetching, Validating,
         Verifying, Persisting, Uploaded, Certifying, CertificatesListed, Holds, Stamped,
         At, PersistJobs, Nothing, Matching, control, locals, passed, history,
         counts
    <2> QED BY <1>1, <2>1, <2>2 DEF PipelineInv
  <1>7. CASE Evaluate \/ Claim \/ Renounce
    BY <1>6, <1>7 DEF Evaluate, Claim, Renounce
  <1>8. CASE UNCHANGED vars
    BY <1>6, <1>8 DEF vars, shared
  <1>9. ASSUME NEW r \in Rounds, NEW q \in Rounds, Double(r, q)
        PROVE  PipelineInv'
    BY <1>1, <1>9, DoubleInv
  <1> QED BY <1>2, <1>3, <1>4, <1>5, <1>7, <1>8, <1>9 DEF Next

\* What each handler of a round that runs alone knows of the collection, in
\* every behaviour: rounds that overlap, boots and lost workers included.
THEOREM PipelineInvariant == Spec => []PipelineInv
  BY PipelineInvInit, PipelineInvNext, PTL DEF Spec

\* What a round that has the collection to itself asks the registry to certify
\* is the address of its own listing: never an empty, a refused or a stale one,
\* and never for a banned relay; whatever happened in rounds before it and
\* however often its own workers are lost or its queues obliterated.
THEOREM CertificatesCorrect == Spec => []CertificatesCarryListedAddress
  <1>1. PipelineInv => CertificatesCarryListedAddress
    BY DEF PipelineInv, RoundInv, Certifying, CertificatesCarryListedAddress
  <1> QED BY <1>1, PipelineInvariant, PTL

\* The relays such a round works on are in the collection until it has tried to
\* upload their stats.
THEOREM RelaysKept == Spec => []RelaysKeptUntilPersisted
  <1>1. PipelineInv => RelaysKeptUntilPersisted
    <2> SUFFICES ASSUME PipelineInv, NEW r \in Rounds \ overlapped, Live(r),
                        job[r] # "fetch-relays", attempts[r] = 0, fps[r] # None
                 PROVE  \A f \in fps[r] : store[f] # None
      BY DEF RelaysKeptUntilPersisted
    <2>1. job[r] \in Jobs /\ RoundInv(r)
      BY DEF PipelineInv, TypeInv, TypeOK
    <2> QED BY <2>1 DEF Jobs, Live, RoundInv, Validating, Verifying, Persisting, Uploaded,
       Holds, Stamped, PersistJobs
  <1> QED BY <1>1, PipelineInvariant, PTL

=============================================================================
