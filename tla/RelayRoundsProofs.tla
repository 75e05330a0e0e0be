------------------------- MODULE RelayRoundsProofs -------------------------
(***************************************************************************)
(* What the rounds of the pipeline achieve: uploads are bounded whatever   *)
(* happens, nothing is submitted twice, and a round without faults offers  *)
(* all its relays to the registry and publishes once.                      *)
(***************************************************************************)
EXTENDS RelayPipelineProofs

-----------------------------------------------------------------------------
(***************************************************************************)
(* A step of one round leaves what other rounds have alone.                *)
(***************************************************************************)

Undisturbed(q) ==
    /\ job'[q] = job[q] /\ pc'[q] = pc[q] /\ orphan'[q] = orphan[q]
    /\ listing'[q] = listing[q] /\ fps'[q] = fps[q] /\ valid'[q] = valid[q]
    /\ todo'[q] = todo[q] /\ snapshot'[q] = snapshot[q] /\ toAdd'[q] = toAdd[q]
    /\ results'[q] = results[q] /\ retries'[q] = retries[q] /\ statsTx'[q] = statsTx[q]
    /\ attempts'[q] = attempts[q] /\ uploads'[q] = uploads[q]
    /\ records'[q] = records[q] /\ accepted'[q] = accepted[q]
    /\ faulty'[q] = faulty[q] /\ interruptions'[q] = interruptions[q]
    /\ lagging'[q] = lagging[q]

\* The jobs up to verify.
LEMMA EarlyElsewhere ==
    ASSUME TypeInv, NEW r \in Rounds, NEW q \in Rounds \ {r},
           \/ Trigger(r) \/ FetchJob(r) \/ ValidateJob(r)
           \/ ReadValidation(r) \/ StartVerification(r)
    PROVE  Undisturbed(q) /\ overlapped \subseteq overlapped'
  <1> USE DEF TypeInv, TypeOK, Undisturbed, shared, control, locals, passed,
              history, losses, ao, seen, counts, Goto, Return, End, Enqueue,
              Fault
  <1>1. CASE Trigger(r)
    BY <1>1 DEF Trigger
  <1>2. CASE FetchRelays(r)
    BY <1>2 DEF FetchRelays
  <1>3. CASE UpsertRelay(r)
    BY <1>3 DEF UpsertRelay
  <1>4. CASE UpsertFails(r)
    BY <1>4 DEF UpsertFails
  <1>5. CASE FinishFetch(r)
    BY <1>5 DEF FinishFetch
  <1>6. CASE StartValidate(r)
    BY <1>6 DEF StartValidate
  <1>7. CASE ReadBatch(r)
    BY <1>7 DEF ReadBatch
  <1>8. CASE WriteBatch(r)
    BY <1>8 DEF WriteBatch
  <1>9. CASE ValidateFails(r)
    BY <1>9 DEF ValidateFails
  <1>10. CASE FinishValidate(r)
    BY <1>10 DEF FinishValidate
  <1>11. CASE ReadValidation(r) \/ StartVerification(r)
    BY <1>11 DEF ReadValidation, StartVerification, AddJob, Continue
  <1> QED BY <1>1, <1>2, <1>3, <1>4, <1>5, <1>6, <1>7, <1>8, <1>9, <1>10, <1>11
          DEF FetchJob, ValidateJob

\* The jobs from verify-relays on, and lost workers.
LEMMA LateElsewhere ==
    ASSUME TypeInv, NEW r \in Rounds, NEW q \in Rounds \ {r},
           VerifyJob(r) \/ Confirm(r) \/ PersistJob(r) \/ Interrupt(r)
    PROVE  Undisturbed(q) /\ overlapped \subseteq overlapped'
  <1> USE DEF TypeInv, TypeOK, Undisturbed, shared, control, locals, passed,
              history, losses, ao, seen, counts, Goto, Return, End, Enqueue,
              Fault
  <1>1. CASE ReadRegistry(r)
    BY <1>1 DEF ReadRegistry
  <1>2. CASE ClassifyBatch(r)
    BY <1>2 DEF ClassifyBatch
  <1>3. CASE VerifyFails(r)
    BY <1>3 DEF VerifyFails
  <1>4. CASE StartSubmitting(r)
    BY <1>4 DEF StartSubmitting
  <1>5. CASE SubmitChunk(r)
    BY <1>5 DEF SubmitChunk
  <1>6. CASE SubmitThrows(r)
    BY <1>6 DEF SubmitThrows
  <1>7. CASE FinishVerify(r)
    BY <1>7 DEF FinishVerify
  <1>8. CASE Confirm(r)
    BY <1>8 DEF Confirm
  <1>9. CASE NothingToPersist(r)
    BY <1>9 DEF NothingToPersist
  <1>10. CASE Enrich(r)
    BY <1>10 DEF Enrich
  <1>11. CASE EnrichFails(r)
    BY <1>11 DEF EnrichFails
  <1>12. CASE UploadStats(r)
    BY <1>12 DEF UploadStats
  <1>13. CASE CreateRecord(r)
    BY <1>13 DEF CreateRecord
  <1>14. CASE CleanUp(r)
    BY <1>14 DEF CleanUp
  <1>15. CASE Settle(r) \/ Complete(r)
    BY <1>15 DEF Settle, Complete, AddJob, Continue
  <1>16. CASE Interrupt(r)
    BY <1>16 DEF Interrupt, LoseWorker
  <1> QED BY <1>1, <1>2, <1>3, <1>4, <1>5, <1>6, <1>7, <1>8, <1>9, <1>10, <1>11,
             <1>12, <1>13, <1>14, <1>15, <1>16
          DEF VerifyJob, PersistJob

\* All steps of a round.
LEMMA Elsewhere ==
    ASSUME TypeInv, NEW r \in Rounds, NEW q \in Rounds \ {r},
           Trigger(r) \/ Handle(r) \/ Interrupt(r)
    PROVE  Undisturbed(q) /\ overlapped \subseteq overlapped'
  BY EarlyElsewhere, LateElsewhere DEF Handle

-----------------------------------------------------------------------------
(***************************************************************************)
(* Uploads.                                                                *)
(***************************************************************************)

\* The jobs before persist-verification upload nothing.
LEMMA UploadsBefore ==
    ASSUME UploadsInv, TypeInv', NEW r \in Rounds,
           \/ Trigger(r) \/ FetchJob(r) \/ ValidateJob(r) \/ ReadValidation(r)
           \/ StartVerification(r) \/ VerifyJob(r) \/ Confirm(r)
    PROVE  UploadsCounted(r)'
  <1>1. job[r] \notin PersistJobs \cup {"over"}
    BY DEF Trigger, FetchJob, FetchRelays, UpsertRelay, UpsertFails, FinishFetch,
           ValidateJob, StartValidate, ReadBatch, WriteBatch, ValidateFails,
           FinishValidate, ReadValidation, StartVerification, VerifyJob,
           ReadRegistry, ClassifyBatch, VerifyFails, StartSubmitting,
           SubmitChunk, SubmitThrows, FinishVerify,
           Confirm, At, PersistJobs
  <1>2. attempts' = attempts /\ uploads' = uploads
    BY DEF Trigger, FetchJob, FetchRelays, UpsertRelay, UpsertFails, FinishFetch,
           ValidateJob, StartValidate, ReadBatch, WriteBatch, ValidateFails,
           FinishValidate, ReadValidation, StartVerification, VerifyJob,
           ReadRegistry, ClassifyBatch, VerifyFails, StartSubmitting,
           SubmitChunk, SubmitThrows, FinishVerify,
           Confirm, history, counts
  <1>3. attempts[r] = 0 /\ uploads[r] = 0
    BY <1>1 DEF UploadsInv, UploadsCounted
  <1>4. /\ interruptions'[r] \in Nat /\ retries'[r] \in 0 .. MaxRetries
        /\ MaxRetries \in Nat
    BY SizesAssumption DEF TypeInv, TypeOK
  <1>5. attempts'[r] = 0 /\ uploads'[r] = 0
    BY <1>2, <1>3
  <1>6. pc'[r] = "waiting" \/ job'[r] = job[r]
    <2> USE DEF UploadsInv, TypeInv, TypeOK, Goto, Return, End, Enqueue, control
    <2>1. CASE Trigger(r) \/ FetchJob(r)
      BY <2>1 DEF Trigger, FetchJob, FetchRelays, UpsertRelay, UpsertFails,
         FinishFetch
    <2>2. CASE ValidateJob(r) \/ ReadValidation(r)
      BY <2>2 DEF ValidateJob, StartValidate, ReadBatch, WriteBatch,
         ValidateFails, FinishValidate, ReadValidation
    <2>3. CASE StartVerification(r)
      BY <2>3 DEF StartVerification, AddJob, Continue
    <2>4. CASE VerifyJob(r) \/ Confirm(r)
      BY <2>4 DEF VerifyJob, ReadRegistry, ClassifyBatch, VerifyFails,
         StartSubmitting, SubmitChunk, SubmitThrows, FinishVerify, Confirm
    <2> QED BY <2>1, <2>2, <2>3, <2>4
  <1> QED BY <1>1, <1>4, <1>5, <1>6 DEF UploadsCounted

\* A recovery is added with one retry less than its persist job had.
LEMMA AddedRetries ==
    ASSUME TypeInv, NEW r \in Rounds, job[r] \in PersistJobs, Continue(r)
    PROVE  retries'[r] = IF job[r] = "persist-verification" THEN MaxRetries
                         ELSE retries[r] - 1
  BY DEF Continue, RetriesLeft, PersistJobs, TypeInv, TypeOK

\* The persisting jobs keep the count: one upload each, and one retry less in the
\* next one.
LEMMA UploadsPersist ==
    ASSUME UploadsInv, NEW r \in Rounds, PersistJob(r)
    PROVE  UploadsCounted(r)'
  <1>1. /\ attempts \in [Rounds -> Nat] /\ uploads \in [Rounds -> Nat]
        /\ interruptions[r] \in Nat /\ retries \in [Rounds -> 0 .. MaxRetries]
        /\ job \in [Rounds -> Jobs] /\ pc \in [Rounds -> Places]
        /\ statsTx \in [Rounds -> BOOLEAN]
        /\ interruptions' = interruptions /\ MaxRetries \in Nat
    BY SizesAssumption
       DEF UploadsInv, TypeInv, TypeOK, PersistJob, NothingToPersist, Enrich,
           EnrichFails, UploadStats, CreateRecord, CleanUp, Settle, Complete,
           losses
  <1>2. UploadsCounted(r) /\ InputsDefined /\ TypeInv
    BY DEF UploadsInv, TypeInv
  <1> USE DEF UploadsCounted, PersistJobs, Uploaded
  <1>3. CASE NothingToPersist(r) \/ EnrichFails(r)
    <2>1. /\ job'[r] = "over" /\ pc'[r] = "waiting"
          /\ attempts' = attempts /\ uploads' = uploads
      BY <1>1, <1>3 DEF NothingToPersist, EnrichFails, End, Enqueue, history, counts
    <2> QED BY <1>1, <1>2, <2>1
  <1>4. CASE Enrich(r)
    <2>1. /\ job' = job /\ pc[r] = "waiting" /\ pc'[r] = "uploading"
          /\ job[r] \in PersistJobs /\ retries' = retries /\ statsTx' = statsTx
          /\ attempts' = attempts /\ uploads' = uploads
      BY <1>1, <1>4 DEF Enrich, Goto, history, counts, passed
    <2> QED BY <1>1, <1>2, <2>1
  <1>5. CASE UploadStats(r)
    <2>1. /\ job' = job /\ pc[r] = "uploading" /\ pc'[r] = "recording"
          /\ job[r] \in PersistJobs /\ retries' = retries
          /\ attempts'[r] = attempts[r] + 1
          /\ \/ statsTx'[r] = TRUE /\ uploads'[r] = uploads[r] + 1
             \/ statsTx'[r] = FALSE /\ uploads'[r] = uploads[r]
      BY <1>1, <1>5 DEF UploadStats, Goto
    <2>2. job[r] = "recover-persist-verification" => retries[r] > 0
      BY <1>2, <2>1 DEF InputsDefined
    <2> QED BY <1>1, <1>2, <2>1, <2>2
  <1>6. CASE CreateRecord(r) \/ CleanUp(r)
    <2>1. /\ job' = job /\ Uploaded(r) /\ Uploaded(r)' /\ pc'[r] # "added"
          /\ job[r] \in PersistJobs /\ retries' = retries /\ statsTx' = statsTx
          /\ attempts' = attempts /\ uploads' = uploads
      BY <1>1, <1>6 DEF CreateRecord, CleanUp, Goto, history, counts, passed
    <2> QED BY <1>1, <1>2, <2>1
  <1>7. CASE Settle(r)
    <2>1. /\ job[r] \in PersistJobs /\ Uploaded(r)
          /\ attempts' = attempts /\ uploads' = uploads /\ statsTx' = statsTx
      BY <1>7 DEF Settle, counts
    <2>2. CASE End(r)
      BY <1>1, <1>2, <2>1, <2>2 DEF End, Enqueue
    <2>3. CASE ~statsTx[r] /\ Continue(r)
      <3>1. job'[r] = "recover-persist-verification" /\ pc'[r] = "waiting"
        BY <1>1, <2>1, <2>3 DEF Continue, Enqueue, AddedJob
      <3> QED BY <1>1, <1>2, <2>1, <2>3, <3>1, AddedRetries
    <2>4. CASE ~statsTx[r] /\ Goto(r, "added") /\ UNCHANGED retries
      <3>1. job'[r] = job[r] /\ pc'[r] = "added" /\ retries' = retries
        BY <1>1, <2>4 DEF Goto
      <3> QED BY <1>1, <1>2, <2>1, <2>4, <3>1
    <2> QED BY <1>7, <2>2, <2>3, <2>4 DEF Settle, AddJob
  <1>8. CASE Complete(r)
    <2>1. /\ pc[r] = "added"
          /\ attempts' = attempts /\ uploads' = uploads /\ statsTx' = statsTx
      BY <1>8 DEF Complete, history, counts
    <2>2. CASE End(r)
      BY <1>1, <1>2, <2>1, <2>2 DEF End, Enqueue
    <2>3. CASE Continue(r) /\ job[r] \in PersistJobs
      <3>1. job'[r] = "recover-persist-verification" /\ pc'[r] = "waiting"
        BY <1>1, <2>3 DEF Continue, Enqueue, AddedJob
      <3>2. Uploaded(r) /\ ~statsTx[r]
        BY <1>2, <2>1, <2>3
      <3> QED BY <1>1, <1>2, <2>1, <2>3, <3>1, <3>2, AddedRetries
    <2>4. CASE Continue(r) /\ job[r] \notin PersistJobs
      <3>1. job[r] = "verify"
        BY <1>2, <2>1, <2>4 DEF InputsDefined
      <3>2. job'[r] = "verify-relays"
        BY <1>1, <2>4, <3>1 DEF Continue, Enqueue, AddedJob
      <3> QED BY <1>1, <1>2, <2>1, <3>1, <3>2
    <2> QED BY <1>8, <2>2, <2>3, <2>4 DEF Complete
  <1> QED BY <1>3, <1>4, <1>5, <1>6, <1>7, <1>8 DEF PersistJob

\* A lost worker allows one more attempt.
LEMMA UploadsInterrupt ==
    ASSUME UploadsInv, NEW r \in Rounds, Interrupt(r)
    PROVE  UploadsCounted(r)'
  <1>1. /\ attempts[r] \in Nat /\ uploads[r] \in Nat
        /\ interruptions \in [Rounds -> Nat] /\ retries[r] \in 0 .. MaxRetries
        /\ job \in [Rounds -> Jobs] /\ pc \in [Rounds -> Places]
        /\ MaxRetries \in Nat
    BY SizesAssumption DEF UploadsInv, TypeInv, TypeOK
  <1>2. UploadsCounted(r)
    BY DEF UploadsInv
  <1>3. /\ job'[r] \in {job[r], "over"} /\ pc'[r] = "waiting" /\ job[r] # "idle"
        /\ job[r] # "over"
        /\ interruptions'[r] = interruptions[r] + 1
        /\ attempts' = attempts /\ uploads' = uploads /\ retries' = retries
        /\ statsTx' = statsTx
    BY <1>1 DEF Interrupt, LoseWorker, Active, Live, End, Enqueue, history, counts,
       passed
  <1> QED BY <1>1, <1>2, <1>3 DEF UploadsCounted, PersistJobs, Uploaded

\* The double has tried nothing yet, and the job that added it is queued again
\* with one more lost worker to its name.
LEMMA UploadsDouble ==
    ASSUME UploadsInv, NEW r \in Rounds, NEW q \in Rounds, Double(r, q),
           NEW p \in Rounds
    PROVE  UploadsCounted(p)'
  <1>1. /\ attempts \in [Rounds -> Nat] /\ uploads \in [Rounds -> Nat]
        /\ interruptions \in [Rounds -> Nat] /\ pc \in [Rounds -> Places]
        /\ retries \in [Rounds -> 0 .. MaxRetries] /\ MaxRetries \in Nat
        /\ job \in [Rounds -> Jobs]
    BY SizesAssumption DEF UploadsInv, TypeInv, TypeOK
  <1>2. UploadsCounted(p) /\ TypeInv /\ InputsDefined
    BY DEF UploadsInv, TypeInv
  <1>3. /\ pc[r] = "added" /\ job[q] = "idle" /\ q # r
        /\ pc' = [pc EXCEPT ![r] = "waiting"]
        /\ job' = [job EXCEPT ![q] = AddedJob(r)]
        /\ retries' = [retries EXCEPT ![q] = RetriesLeft(r)]
        /\ interruptions' = [interruptions EXCEPT ![r] = @ + 1]
        /\ attempts' = attempts /\ uploads' = uploads /\ statsTx' = statsTx
    BY <1>2 DEF Double, LoseWorker, history, counts, InputsDefined, PersistJobs
  <1> USE DEF UploadsCounted, Uploaded, PersistJobs
  <1>4. CASE p \notin {r, q}
    <2>1. /\ job'[p] = job[p] /\ pc'[p] = pc[p] /\ retries'[p] = retries[p]
          /\ interruptions'[p] = interruptions[p]
      BY <1>1, <1>3, <1>4
    <2> QED BY <1>1, <1>2, <1>3, <2>1
  <1>5. CASE p = r
    <2>1. /\ job'[r] = job[r] /\ pc'[r] = "waiting" /\ retries'[r] = retries[r]
          /\ interruptions'[r] = interruptions[r] + 1
      BY <1>1, <1>3
    <2>2. \/ Uploaded(r) /\ ~statsTx[r]
          \/ job[r] = "verify"
      BY <1>2, <1>3, <1>5 DEF InputsDefined
    <2> QED BY <1>1, <1>2, <1>3, <1>5, <2>1, <2>2
  <1>6. CASE p = q
    <2>1. attempts[q] = 0 /\ uploads[q] = 0
      BY <1>2, <1>3, <1>6
    <2>2. job'[q] = "verify-relays" \/ job'[q] = "recover-persist-verification"
      BY <1>1, <1>3 DEF AddedJob
    <2>3. pc'[q] = "waiting" /\ interruptions'[q] = interruptions[q]
      BY <1>1, <1>2, <1>3 DEF InputsDefined
    <2>4. retries'[q] \in 0 .. MaxRetries
      <3>1. job[r] \in {"verify"} \cup PersistJobs
        BY <1>2, <1>3 DEF InputsDefined
      <3> QED BY <1>1, <1>2, <1>3, <3>1, RetriesLeftDefined
    <2> QED BY <1>1, <1>3, <1>6, <2>1, <2>2, <2>3, <2>4
  <1> QED BY <1>4, <1>5, <1>6

\* A boot ends rounds or leaves them where they are.
LEMMA UploadsBoot ==
    ASSUME UploadsInv, NEW r \in Rounds, Boot
    PROVE  UploadsCounted(r)'
  <1>1. /\ job'[r] \in {job[r], "over"}
        /\ job'[r] = job[r] => pc'[r] = pc[r] \/ job[r] \in {"idle", "over"}
        /\ job[r] # "idle" \/ job'[r] = "idle"
    BY DEF Boot, Live, Active
  <1>2. /\ attempts' = attempts /\ uploads' = uploads /\ retries' = retries
        /\ statsTx' = statsTx /\ interruptions' = interruptions
    BY DEF Boot, history, counts, passed
  <1>3. UploadsCounted(r)
    BY DEF UploadsInv
  <1> QED BY <1>1, <1>2, <1>3 DEF UploadsCounted, PersistJobs, Uploaded

\* A handler loses no worker.
LEMMA NothingLost ==
    ASSUME NEW r \in Rounds, Trigger(r) \/ Handle(r)
    PROVE  UNCHANGED <<interruptions, origin>>
  <1> USE DEF losses
  <1>1. CASE Trigger(r) \/ FetchJob(r) \/ Confirm(r)
    BY <1>1 DEF Trigger, FetchJob, FetchRelays, UpsertRelay, UpsertFails,
       FinishFetch, Confirm
  <1>2. CASE ValidateJob(r) \/ ReadValidation(r) \/ StartVerification(r)
    BY <1>2 DEF ValidateJob, StartValidate, ReadBatch, WriteBatch,
       ValidateFails, FinishValidate, ReadValidation, StartVerification
  <1>3. CASE VerifyJob(r)
    BY <1>3 DEF VerifyJob, ReadRegistry, ClassifyBatch, VerifyFails,
       StartSubmitting, SubmitChunk, SubmitThrows, FinishVerify
  <1>4. CASE PersistJob(r)
    BY <1>4 DEF PersistJob, NothingToPersist, Enrich, EnrichFails,
       UploadStats, CreateRecord, CleanUp, Settle, Complete
  <1> QED BY <1>1, <1>2, <1>3, <1>4 DEF Handle

\* The worker a double is put down to was lost just now, so no other chain has
\* been put down to it.
LEMMA OriginsRecorded ==
    ASSUME TypeInv, OriginsKnown, NEW r \in Rounds,
           Interrupt(r) \/ \E q \in Rounds : Double(r, q)
    PROVE  OriginsKnown'
  <1>1. /\ interruptions \in [Rounds -> Nat] /\ origin \in [Rounds -> Rounds \X Nat]
        /\ interruptions' = [interruptions EXCEPT ![r] = @ + 1]
    BY DEF TypeInv, TypeOK, Interrupt, Double, LoseWorker
  <1>2. \A p \in Rounds : /\ origin[p][1] \in Rounds /\ origin[p][2] \in Nat
                          /\ origin[p][2] <= interruptions[origin[p][1]]
    BY <1>1 DEF OriginsKnown
  <1>3. \A p \in Rounds : interruptions[p] <= interruptions'[p]
    BY <1>1
  <1>4. \A p \in Rounds : origin[p][2] <= interruptions'[origin[p][1]]
    <2>1. SUFFICES ASSUME NEW p \in Rounds
                   PROVE  origin[p][2] <= interruptions'[origin[p][1]]
      OBVIOUS
    <2> DEFINE o == origin[p][1]
    <2>2. o \in Rounds /\ origin[p][2] <= interruptions[o] /\ origin[p][2] \in Nat
      BY <1>2
    <2>3. interruptions[o] <= interruptions'[o] /\ interruptions[o] \in Nat
          /\ interruptions'[o] \in Nat
      BY <1>1, <2>2
    <2> QED BY <2>2, <2>3
  <1>5. CASE Interrupt(r)
    <2>1. origin' = origin
      BY <1>5 DEF Interrupt
    <2> QED BY <1>4, <2>1 DEF OriginsKnown
  <1>6. CASE \E q \in Rounds : Double(r, q)
    <2>1. PICK q \in Rounds :
            origin' = [origin EXCEPT ![q] = <<r, interruptions'[r]>>]
      BY <1>6 DEF Double
    <2>2. interruptions'[r] = interruptions[r] + 1 /\ interruptions[r] \in Nat
      BY <1>1
    <2>3. \A p \in Rounds : origin[p] # <<r, interruptions'[r]>>
      <3>1. SUFFICES ASSUME NEW p \in Rounds, origin[p] = <<r, interruptions'[r]>>
                     PROVE  FALSE
        OBVIOUS
      <3>2. origin[p][1] = r /\ origin[p][2] = interruptions'[r]
        BY <3>1
      <3>3. interruptions'[r] <= interruptions[r]
        BY <1>2, <3>2
      <3> QED BY <2>2, <3>3
    <2>4. origin'[q] = <<r, interruptions'[r]>>
      BY <1>1, <2>1
    <2>5. \A p \in Rounds \ {q} : origin'[p] = origin[p]
      BY <1>1, <2>1
    <2>6. \A p \in Rounds : origin'[p][2] <= interruptions'[origin'[p][1]]
      <3>1. SUFFICES ASSUME NEW p \in Rounds
                     PROVE  origin'[p][2] <= interruptions'[origin'[p][1]]
        OBVIOUS
      <3>2. CASE p = q
        BY <2>2, <2>4, <3>2
      <3>3. CASE p # q
        BY <1>4, <2>5, <3>3
      <3> QED BY <3>2, <3>3
    <2>7. \A o, p \in Rounds : o # p => origin'[o] # origin'[p]
      BY <2>3, <2>4, <2>5 DEF OriginsKnown
    <2> QED BY <2>6, <2>7 DEF OriginsKnown
  <1> QED BY <1>5, <1>6

\* Every step keeps the count.
LEMMA UploadsStep == UploadsInv /\ [Next]_vars => UploadsInv'
  <1> SUFFICES ASSUME UploadsInv, [Next]_vars PROVE UploadsInv'
    OBVIOUS
  <1>1. TypeInv /\ TypeInv'
    BY TypeInvNext DEF UploadsInv
  <1>2. ASSUME NEW r \in Rounds, Trigger(r) \/ Handle(r) \/ Interrupt(r),
               NEW q \in Rounds
        PROVE  UploadsCounted(q)'
    <2>1. CASE q = r
      BY <1>1, <1>2, <2>1, UploadsBefore, UploadsPersist, UploadsInterrupt DEF Handle
    <2>2. CASE q # r
      <3>1. Undisturbed(q)
        BY <1>1, <1>2, <2>2, Elsewhere
      <3>2. UploadsCounted(q)
        BY DEF UploadsInv
      <3> QED BY <3>1, <3>2 DEF Undisturbed, UploadsCounted, Uploaded, PersistJobs
    <2> QED BY <2>1, <2>2
  <1>3. ASSUME Boot, NEW q \in Rounds PROVE UploadsCounted(q)'
    BY <1>3, UploadsBoot
  <1>4. ASSUME Evaluate \/ Claim \/ Renounce \/ UNCHANGED vars, NEW q \in Rounds
        PROVE  UploadsCounted(q)'
    BY <1>4 DEF Evaluate, Claim, Renounce, vars, control, passed, history,
       losses, counts, UploadsInv, UploadsCounted, Uploaded, PersistJobs
  <1>5. ASSUME NEW r \in Rounds, NEW q \in Rounds, Double(r, q), NEW p \in Rounds
        PROVE  UploadsCounted(p)'
    BY <1>5, UploadsDouble
  <1>6. OriginsKnown'
    <2>1. CASE UNCHANGED <<interruptions, origin>>
      BY <2>1 DEF UploadsInv, OriginsKnown
    <2>2. CASE \E r \in Rounds : Interrupt(r) \/ \E q \in Rounds : Double(r, q)
      BY <2>2, OriginsRecorded DEF UploadsInv
    <2>3. CASE \E r \in Rounds : Trigger(r) \/ Handle(r)
      BY <2>1, <2>3, NothingLost
    <2>4. CASE Boot \/ Evaluate \/ Claim \/ Renounce \/ UNCHANGED vars
      BY <2>1, <2>4 DEF Boot, Evaluate, Claim, Renounce, vars, losses
    <2> QED BY <2>2, <2>3, <2>4 DEF Next
  <1>7. ASSUME NEW q \in Rounds PROVE UploadsCounted(q)'
    BY <1>2, <1>3, <1>4, <1>5 DEF Next, UploadsInv
  <1> QED BY <1>1, <1>6, <1>7 DEF UploadsInv

\* However often workers are lost, uploads fail and leaders boot, and also when
\* rounds overlap: a chain of jobs tries at most one upload, the retries and one
\* more per worker it has lost, and is told of one transaction unless it has lost
\* a worker; and a round gets another chain only by a worker of its own.
THEOREM UploadsAreBounded == Spec => []UploadsBounded
  <1>1. Init => UploadsInv
    <2> SUFFICES ASSUME Init PROVE UploadsInv
      OBVIOUS
    <2>1. TypeInv
      BY TypeInvInit
    <2>2. ASSUME NEW r \in Rounds PROVE UploadsCounted(r)
      <3>1. /\ job[r] = "idle" /\ attempts[r] = 0 /\ uploads[r] = 0
            /\ interruptions[r] = 0 /\ MaxRetries \in Nat
        BY SizesAssumption DEF Init
      <3> QED BY <3>1 DEF UploadsCounted, PersistJobs
    <2>3. OriginsKnown
      BY DEF Init, OriginsKnown
    <2> QED BY <2>1, <2>2, <2>3 DEF UploadsInv
  <1>2. UploadsInv => UploadsBounded
    BY DEF UploadsInv, UploadsCounted, OriginsKnown, UploadsBounded
  <1> QED BY <1>1, <1>2, UploadsStep, PTL DEF Spec

-----------------------------------------------------------------------------
(***************************************************************************)
(* RoundsInv, of rounds that run alone.  First the registry.               *)
(***************************************************************************)

\* Outside of verify-relays nothing is said of the registry.
LEMMA RegistryElsewhere ==
    ASSUME TypeInv, NEW r \in Rounds,
           \/ Trigger(r) \/ FetchJob(r) \/ ValidateJob(r) \/ ReadValidation(r)
           \/ StartVerification(r) \/ Confirm(r) \/ PersistJob(r)
           \/ Interrupt(r)
    PROVE  RegistryUnchanged(r)'
  <1>1. job'[r] # "verify-relays" \/ pc'[r] = "waiting"
    <2> USE DEF TypeInv, TypeOK, Goto, Return, End, Enqueue, control, At
    <2>1. CASE Trigger(r) \/ FetchJob(r)
      BY <2>1 DEF Trigger, FetchJob, FetchRelays, UpsertRelay, UpsertFails, FinishFetch
    <2>2. CASE ValidateJob(r) \/ ReadValidation(r) \/ StartVerification(r)
      BY <2>2 DEF ValidateJob, StartValidate, ReadBatch, WriteBatch, ValidateFails,
                  FinishValidate, ReadValidation, StartVerification, AddJob,
                  Continue
    <2>3. CASE Confirm(r) \/ PersistJob(r)
      BY <2>3 DEF Confirm, PersistJob, NothingToPersist, Enrich, EnrichFails,
                  UploadStats, CreateRecord, CleanUp, Settle, Complete, AddJob,
                  Continue, PersistJobs
    <2>4. CASE Interrupt(r)
      BY <2>4 DEF Interrupt
    <2> QED BY <2>1, <2>2, <2>3, <2>4
  <1> QED BY <1>1 DEF RegistryUnchanged, At

\* verify-relays sends nothing twice, and what it has not read was on its way.
LEMMA RegistryVerify ==
    ASSUME TypeInv, NEW r \in Rounds, RegistryUnchanged(r), VerifyJob(r)
    PROVE  RegistryUnchanged(r)'
  <1> USE DEF TypeInv, TypeOK, RegistryUnchanged, At
  <1>1. CASE ReadRegistry(r)
    <2>1. /\ pc'[r] = "classifying" /\ snapshot'[r] = registry
          /\ toAdd'[r] = Nothing /\ registry' = registry
          /\ lagging'[r] = InFlight /\ inbox' = inbox
      BY <1>1 DEF ReadRegistry, Goto, shared, ao
    <2> QED BY <2>1 DEF Nothing, InFlight
  <1>2. CASE ClassifyBatch(r)
    <2>1. /\ job[r] = "verify-relays" /\ pc[r] = "classifying" /\ pc' = pc
          /\ job' = job /\ registry' = registry /\ snapshot' = snapshot
          /\ inbox' = inbox /\ lagging' = lagging
      BY <1>2 DEF ClassifyBatch, shared, ao, seen, control
    <2>2. \A f \in Relays : toAdd'[r][f] # None =>
            \/ toAdd[r][f] # None
            \/ \E proven \in SUBSET HwRelays : Verdict(r, f, proven) = None
      BY <1>2 DEF ClassifyBatch
    <2>3. \A f \in Relays, proven \in SUBSET HwRelays :
            Verdict(r, f, proven) = None => snapshot[r][f] = "none"
      BY ValuesAssumption DEF Verdict, Status
    <2>4. InFlight' = InFlight
      BY <2>1 DEF InFlight
    <2> QED BY <2>1, <2>2, <2>3, <2>4
  <1>3. CASE VerifyFails(r) \/ SubmitThrows(r) \/ FinishVerify(r)
    <2>1. pc'[r] = "waiting"
      BY <1>3 DEF VerifyFails, SubmitThrows, FinishVerify, Return, Enqueue
    <2> QED BY <2>1
  <1>4. CASE StartSubmitting(r)
    <2>1. /\ pc[r] = "classifying" /\ pc'[r] = "submitting"
          /\ job[r] = "verify-relays" /\ todo'[r] = Keys(toAdd[r])
          /\ registry' = registry /\ inbox' = inbox /\ lagging' = lagging
      BY <1>4 DEF StartSubmitting, Goto, shared, ao, seen
    <2>2. InFlight' = InFlight
      BY <2>1 DEF InFlight
    <2> QED BY <2>1, <2>2 DEF Keys
  <1>5. CASE SubmitChunk(r)
    <2>1. PICK chunk \in Pages(todo[r], ChunkSize) \ {{}} :
            /\ todo' = [todo EXCEPT ![r] = @ \ chunk]
            /\ \/ /\ registry' = Registered(chunk)
                  /\ UNCHANGED inbox
               \/ /\ \E copies \in 1 .. MaxAttempts :
                       inbox' = [inbox EXCEPT ![chunk] = @ + copies]
                  /\ UNCHANGED registry
               \/ UNCHANGED <<registry, inbox>>
      BY <1>5 DEF SubmitChunk, ao
    <2>2. /\ pc[r] = "submitting" /\ job[r] = "verify-relays" /\ pc' = pc
          /\ lagging' = lagging
      BY <1>5 DEF SubmitChunk, control, seen
    <2>3. \A f \in todo'[r] : f \in todo[r] /\ f \notin chunk /\ f \in Relays
      BY <2>1
    <2>4. \A f \in todo'[r] : registry'[f] = registry[f]
      BY <2>1, <2>3 DEF Registered
    <2>5. \A f \in todo'[r] : f \in InFlight' => f \in InFlight
      <3>1. SUFFICES ASSUME NEW f \in todo'[r], NEW m \in SUBSET Relays,
                            f \in m, inbox'[m] > 0
                     PROVE  inbox[m] > 0
        BY <2>3 DEF InFlight
      <3>2. m # chunk
        BY <2>3, <3>1
      <3>3. inbox'[m] = inbox[m]
        BY <2>1, <3>2
      <3> QED BY <3>1, <3>3
    <2> QED BY <2>2, <2>3, <2>4, <2>5
  <1> QED BY <1>1, <1>2, <1>3, <1>4, <1>5 DEF VerifyJob

\* A message evaluated was in flight, and what operators do registers nothing
\* that was not there.
LEMMA RegistryUsers ==
    ASSUME TypeInv, NEW r \in Rounds, RegistryUnchanged(r),
           Evaluate \/ Claim \/ Renounce \/ UNCHANGED vars
    PROVE  RegistryUnchanged(r)'
  <1>1. UNCHANGED <<control, locals>>
    BY DEF Evaluate, Claim, Renounce, vars
  <1>2. /\ \A f \in Relays : registry[f] = "none" =>
             registry'[f] = "none" \/ f \in InFlight
        /\ InFlight' \subseteq InFlight
    <2> USE DEF TypeInv, TypeOK, InFlight
    <2>1. CASE Evaluate
      <3>1. PICK m \in SUBSET Relays :
              /\ inbox[m] > 0
              /\ inbox' = [inbox EXCEPT ![m] = @ - 1]
              /\ registry' = Registered(m)
        BY <2>1 DEF Evaluate
      <3>2. \A f \in Relays : registry[f] = "none" =>
              registry'[f] = "none" \/ f \in m
        BY <3>1 DEF Registered
      <3>3. ASSUME NEW l \in SUBSET Relays, inbox'[l] > 0 PROVE inbox[l] > 0
        <4>1. CASE l = m
          BY <3>1, <4>1
        <4>2. CASE l # m
          BY <3>1, <3>3, <4>2
        <4> QED BY <4>1, <4>2
      <3> QED BY <3>1, <3>2, <3>3
    <2>2. CASE Claim \/ Renounce
      BY <2>2 DEF Claim, Renounce
    <2>3. CASE UNCHANGED vars
      BY <2>3 DEF vars, shared, ao
    <2> QED BY <2>1, <2>2, <2>3
  <1>3. todo[r] \subseteq Relays
    BY DEF TypeInv, TypeOK
  <1>4. CASE At(r, "verify-relays", "classifying")
    <2>1. ASSUME NEW f \in Relays, snapshot[r][f] = "none" \/ toAdd[r][f] # None
          PROVE  registry'[f] = "none" \/ f \in lagging[r]
      BY <1>2, <1>4, <2>1 DEF RegistryUnchanged
    <2>2. InFlight' \subseteq lagging[r]
      BY <1>2, <1>4 DEF RegistryUnchanged
    <2> QED BY <1>1, <1>4, <2>1, <2>2 DEF RegistryUnchanged, At, control, locals,
       seen
  <1>5. CASE At(r, "verify-relays", "submitting")
    <2>1. \A f \in todo[r] : registry'[f] = "none" \/ f \in lagging[r]
      BY <1>2, <1>3, <1>5 DEF RegistryUnchanged
    <2>2. todo[r] \cap InFlight' \subseteq lagging[r]
      BY <1>2, <1>5 DEF RegistryUnchanged
    <2> QED BY <1>1, <1>5, <2>1, <2>2 DEF RegistryUnchanged, At, control, locals,
       seen
  <1>6. CASE pc[r] \notin {"classifying", "submitting"} \/ job[r] # "verify-relays"
    BY <1>1, <1>6 DEF RegistryUnchanged, At, control
  <1> QED BY <1>4, <1>5, <1>6 DEF At

-----------------------------------------------------------------------------
(***************************************************************************)
(* Rounds without faults.                                                  *)
(***************************************************************************)

\* A round that was on record stays there.
LEMMA OverlapsRecorded ==
    ASSUME TypeInv, NEW r \in Rounds, Trigger(r) \/ Handle(r) \/ Interrupt(r)
    PROVE  overlapped \subseteq overlapped'
  <1>1. Trigger(r) \/ Handle(r) => Frame(r)
    BY FetchFrame, ValidateFrame, StartFrame, VerifyFrame, PersistFrame
       DEF Handle
  <1>2. Interrupt(r) => overlapped' = overlapped
    BY DEF Interrupt
  <1> QED BY <1>1, <1>2 DEF Frame

\* A step without fault, of a round without one.
LEMMA FlawlessSteps ==
    ASSUME TypeInv, NEW r \in Rounds, Flawless(r)',
           Trigger(r) \/ Handle(r) \/ Interrupt(r)
    PROVE  Flawless(r) /\ ~Fault(r) /\ ~Interrupt(r)
  <1> USE DEF TypeInv, TypeOK
  <1>1. ~Fault(r)
    BY DEF Flawless, Fault
  <1>2. ~Interrupt(r)
    BY DEF Flawless, Interrupt, LoseWorker
  <1>3. faulty' = faulty /\ interruptions' = interruptions
    <2>1. CASE Trigger(r) \/ FetchJob(r)
      BY <1>1, <2>1 DEF Trigger, FetchJob, FetchRelays, UpsertRelay, UpsertFails,
         FinishFetch, history, losses
    <2>2. CASE ValidateJob(r) \/ ReadValidation(r) \/ StartVerification(r)
      BY <1>1, <2>2 DEF ValidateJob, StartValidate, ReadBatch, WriteBatch,
         ValidateFails, FinishValidate, ReadValidation, StartVerification,
         history, losses
    <2>3. CASE VerifyJob(r) \/ Confirm(r)
      BY <1>1, <2>3 DEF VerifyJob, ReadRegistry, ClassifyBatch, VerifyFails,
         StartSubmitting, SubmitChunk, SubmitThrows, FinishVerify, Confirm, history,
         losses
    <2>4. CASE PersistJob(r)
      BY <1>1, <2>4 DEF PersistJob, NothingToPersist, Enrich, EnrichFails, UploadStats,
         CreateRecord, CleanUp, Settle, Complete, history, losses
    <2> QED BY <1>2, <2>1, <2>2, <2>3, <2>4 DEF Handle
  <1>4. Flawless(r)
    BY <1>3, OverlapsRecorded DEF Flawless
  <1> QED BY <1>1, <1>2, <1>4

\* fetch-relays and validate-relays pass on every relay that is due.
LEMMA NoneLostFetching ==
    ASSUME PipelineInv, NEW r \in Rounds \ overlapped, ~orphan[r],
           NoneLost(r), ~Fault(r),
           Trigger(r) \/ FetchJob(r)
    PROVE  NoneLost(r)'
  <1> USE DEF PipelineInv, TypeInv, TypeOK, NoneLost, At, PersistJobs
  <1>1. CASE Trigger(r) \/ FetchRelays(r) \/ UpsertRelay(r)
    <2>1. job'[r] = "fetch-relays"
      BY <1>1 DEF Trigger, FetchRelays, UpsertRelay, Enqueue, Goto, control
    <2> QED BY <2>1
  <1>2. CASE FinishFetch(r)
    <2>1. /\ job'[r] = "validate-relays" /\ pc'[r] = "waiting"
          /\ fps'[r] = Matching(listing[r]) /\ listing' = listing
      BY <1>2 DEF FinishFetch, Return, Enqueue
    <2>2. Due(r) \subseteq Matching(listing[r])
      BY ValuesAssumption DEF Due, Matching
    <2>3. Due(r)' = Due(r)
      BY <2>1 DEF Due
    <2> QED BY <2>1, <2>2, <2>3
  <1> QED BY <1>1, <1>2 DEF FetchJob, UpsertFails

\* validate-relays loses no relay that is due.
LEMMA NoneLostValidating ==
    ASSUME PipelineInv, NEW r \in Rounds \ overlapped, ~orphan[r],
           NoneLost(r), ~Fault(r),
           ValidateJob(r) \/ ReadValidation(r) \/ StartVerification(r)
    PROVE  NoneLost(r)'
  <1> USE DEF PipelineInv, TypeInv, TypeOK, NoneLost, At, PersistJobs
  <1>1. Due(r)' = Due(r)
    BY DEF ValidateJob, StartValidate, ReadBatch, WriteBatch, ValidateFails,
           FinishValidate, ReadValidation, StartVerification, Due, passed
  <1>2. CASE StartValidate(r)
    <2>1. /\ job[r] = "validate-relays" /\ job'[r] = "validate-relays"
          /\ pc'[r] = "validating" /\ todo'[r] = fps[r] /\ fps' = fps
      BY <1>2 DEF StartValidate, Goto, passed
    <2> QED BY <1>1, <2>1
  <1>3. CASE ReadBatch(r)
    <2>1. PICK page \in Pages(todo[r], BatchSize) :
            LET found == {f \in page : store[f] # None /\ store[f].contact # Blank}
            IN /\ todo' = [todo EXCEPT ![r] = @ \ page]
               /\ valid' = [valid EXCEPT ![r] = @ \cup found]
      BY <1>3 DEF ReadBatch
    <2>2. /\ job[r] = "validate-relays" /\ pc[r] = "validating"
          /\ job'[r] = "validate-relays" /\ fps' = fps
      BY <1>3 DEF ReadBatch, Goto, control, passed
    <2>3. \A f \in todo[r] : f \in Due(r) => store[f] # None /\ store[f].contact # Blank
      BY <2>2, ValuesAssumption DEF RoundInv, Validating, Holds, Due
    <2>4. Due(r) \subseteq todo'[r] \cup valid'[r]
      BY <2>1, <2>2, <2>3 DEF Pages
    <2> QED BY <1>1, <2>2, <2>4
  <1>4. CASE WriteBatch(r)
    <2>1. /\ job[r] = "validate-relays" /\ pc[r] = "writing" /\ job' = job /\ fps' = fps
          /\ todo' = todo /\ valid' = valid
      BY <1>4 DEF WriteBatch, Goto, passed, locals
    <2> QED BY <1>1, <2>1
  <1>5. CASE FinishValidate(r)
    <2>1. /\ job[r] = "validate-relays" /\ pc[r] = "validating" /\ todo[r] = {}
          /\ job'[r] = "verify" /\ fps'[r] = valid[r]
      BY <1>5 DEF FinishValidate, Return, Enqueue
    <2> QED BY <1>1, <2>1
  <1>6. CASE ReadValidation(r) \/ StartVerification(r)
    <2>1. /\ job[r] = "verify" /\ fps' = fps
          /\ \/ job'[r] = "verify"
             \/ job'[r] = "verify-relays" /\ pc'[r] = "waiting"
      BY <1>6 DEF ReadValidation, StartVerification, AddJob, Continue, AddedJob,
         Enqueue, Goto, passed
    <2> QED BY <1>1, <2>1
  <1> QED BY <1>2, <1>3, <1>4, <1>5, <1>6 DEF ValidateJob, ValidateFails

\* verify-relays finds each of them in the registry or submits it.
LEMMA NoneLostVerifying ==
    ASSUME PipelineInv, NEW r \in Rounds \ overlapped, ~orphan[r],
           NoneLost(r), ~Fault(r),
           VerifyJob(r) \/ Confirm(r)
    PROVE  NoneLost(r)'
  <1> USE DEF PipelineInv, TypeInv, TypeOK, NoneLost, At, PersistJobs
  <1>1. Due(r)' = Due(r)
    BY DEF VerifyJob, ReadRegistry, ClassifyBatch, VerifyFails, StartSubmitting,
           SubmitChunk, SubmitThrows, FinishVerify, Confirm, Due, passed
  <1>2. CASE ReadRegistry(r)
    <2>1. /\ job[r] = "verify-relays" /\ job'[r] = "verify-relays"
          /\ pc'[r] = "classifying" /\ todo'[r] = fps[r] /\ fps' = fps
      BY <1>2 DEF ReadRegistry, Goto
    <2> QED BY <1>1, <2>1
  <1>3. CASE ClassifyBatch(r)
    <2>1. PICK page \in Pages(todo[r], BatchSize), proven \in SUBSET HwRelays :
            LET found == {f \in page : store[f] # None}
                added == {f \in found : Verdict(r, f, proven) = None}
            IN /\ todo' = [todo EXCEPT ![r] = @ \ page]
               /\ toAdd' = [toAdd EXCEPT ![r] =
                    [f \in Relays |-> IF f \in added THEN store[f].addr
                                                     ELSE toAdd[r][f]]]
               /\ results' = [results EXCEPT ![r] =
                    [f \in Relays |-> IF f \in found
                                      THEN Verdict(r, f, proven)
                                      ELSE results[r][f]]]
      BY <1>3 DEF ClassifyBatch
    <2>2. /\ job[r] = "verify-relays" /\ pc[r] = "classifying" /\ job' = job /\ pc' = pc
          /\ fps' = fps /\ snapshot' = snapshot
      BY <1>3 DEF ClassifyBatch, control, seen
    <2>3. page \subseteq todo[r] /\ todo[r] \subseteq fps[r] /\ todo[r] \subseteq Relays
      BY <2>2 DEF Pages, RoundInv, Verifying
    <2>4. ASSUME NEW f \in Due(r), f \in page, ~Known(r, f)
          PROVE  /\ store[f] # None /\ store[f].addr \in Addresses
                 /\ Verdict(r, f, proven) = None
      <3>1. Stamped(r, f)
        BY <2>2, <2>3, <2>4 DEF RoundInv, Verifying
      <3>2. store[f] # None /\ store[f].addr \in Addresses
        BY <3>1 DEF Stamped, Due
      <3>3. snapshot[r][f] = "none" /\ f \notin HwRelays
        BY <2>4 DEF Known, Due
      <3> QED BY <3>2, <3>3, ValuesAssumption DEF Verdict
    <2>5. ASSUME NEW f \in Relays, store[f] # None
          PROVE  store[f].addr # None
      <3>1. store[f] \in Document
        BY <2>5
      <3> QED BY <3>1, ValuesAssumption DEF Document, Contacts
    <2>6. ASSUME NEW f \in Due(r)
          PROVE  f \in todo'[r] \/ Known(r, f) \/ toAdd'[r][f] # None
      <3>1. f \in Relays
        BY DEF Due
      <3>2. CASE f \in page
        BY <2>1, <2>4, <2>5, <3>1, <3>2
      <3>3. CASE f \notin page
        <4>1. f \in todo[r] \/ Known(r, f) \/ toAdd[r][f] # None
          BY <2>2
        <4>2. toAdd'[r][f] = toAdd[r][f]
          BY <2>1, <3>1, <3>3
        <4> QED BY <2>1, <3>3, <4>1, <4>2
      <3> QED BY <3>2, <3>3
    <2>7. \A f \in Relays : Known(r, f)' = Known(r, f)
      BY <2>2 DEF Known
    <2>8. Due(r) \subseteq Relays
      BY DEF Due
    <2> QED BY <1>1, <2>2, <2>6, <2>7, <2>8
  <1>4. CASE StartSubmitting(r)
    <2>1. /\ job[r] = "verify-relays" /\ pc[r] = "classifying" /\ todo[r] = {}
          /\ job' = job /\ pc'[r] = "submitting" /\ todo'[r] = Keys(toAdd[r])
          /\ fps' = fps /\ snapshot' = snapshot /\ accepted' = accepted
      BY <1>4 DEF StartSubmitting, Goto, passed, history, seen
    <2> QED BY <1>1, <2>1 DEF Known, Keys, Due
  <1>5. CASE SubmitChunk(r)
    <2>1. PICK chunk \in Pages(todo[r], ChunkSize) \ {{}} :
            /\ todo' = [todo EXCEPT ![r] = @ \ chunk]
            /\ accepted' = [accepted EXCEPT ![r] = @ \cup chunk]
      BY <1>5 DEF SubmitChunk
    <2>2. /\ job[r] = "verify-relays" /\ pc[r] = "submitting" /\ job' = job /\ pc' = pc
          /\ fps' = fps /\ snapshot' = snapshot
      BY <1>5 DEF SubmitChunk, control, passed, seen
    <2>3. ASSUME NEW f \in Due(r)
          PROVE  f \in todo'[r] \/ Known(r, f) \/ f \in accepted'[r]
      BY <2>1, <2>2
    <2>4. \A f \in Due(r) : Known(r, f)' = Known(r, f)
      BY <2>2 DEF Known
    <2> QED BY <1>1, <2>2, <2>3, <2>4
  <1>6. CASE FinishVerify(r)
    <2>1. /\ job[r] = "verify-relays" /\ pc[r] = "submitting" /\ todo[r] = {}
          /\ job'[r] = "confirm-verification" /\ pc'[r] = "waiting"
          /\ snapshot' = snapshot /\ accepted' = accepted
      BY <1>6 DEF FinishVerify, Return, Enqueue, locals, history, seen
    <2> QED BY <1>1, <2>1 DEF Known
  <1>7. CASE Confirm(r)
    <2>1. /\ job[r] = "confirm-verification" /\ job'[r] = "persist-verification"
          /\ snapshot' = snapshot /\ accepted' = accepted
      BY <1>7 DEF Confirm, Return, Enqueue, locals, seen
    <2> QED BY <1>1, <2>1 DEF Known
  <1> QED BY <1>2, <1>3, <1>4, <1>5, <1>6, <1>7
          DEF VerifyJob, VerifyFails, SubmitThrows

\* The persisting jobs change nothing of what the registry was offered.
LEMMA NoneLostPersisting ==
    ASSUME PipelineInv, NEW r \in Rounds \ overlapped, ~orphan[r],
           NoneLost(r), PersistJob(r)
    PROVE  NoneLost(r)'
  <1> USE DEF PipelineInv, TypeInv, TypeOK
  <1>1. /\ listing' = listing /\ snapshot' = snapshot /\ accepted' = accepted
        /\ fps' = fps
    BY DEF PersistJob, NothingToPersist, Enrich, EnrichFails, UploadStats,
           CreateRecord, CleanUp, Settle, Complete, locals, passed, history, seen
  <1>2. CASE job[r] \in PersistJobs
    <2>1. job'[r] \in {"over"} \cup PersistJobs
      BY <1>2 DEF PersistJob, NothingToPersist, Enrich, EnrichFails, UploadStats,
         CreateRecord, CleanUp, Settle, Complete, AddJob, Continue, AddedJob,
         PersistJobs, Goto, End, Enqueue
    <2>2. \A f \in Due(r) : Known(r, f) \/ f \in accepted[r]
      BY <1>2 DEF NoneLost
    <2> QED BY <1>1, <2>1, <2>2 DEF NoneLost, Due, Known, At, PersistJobs
  <1>3. CASE job[r] \notin PersistJobs
    <2>1. job[r] = "verify" /\ pc[r] = "added" /\ Complete(r)
      BY <1>3 DEF PersistJob, NothingToPersist, Enrich, EnrichFails, UploadStats,
         CreateRecord, CleanUp, Settle, Complete, InputsDefined
    <2>2. job'[r] = "verify-relays" /\ pc'[r] = "waiting"
      BY <2>1 DEF Complete, Continue, AddedJob, Enqueue
    <2> QED BY <1>1, <2>1, <2>2 DEF NoneLost, Due, At, PersistJobs
  <1> QED BY <1>2, <1>3

\* Until persist-verification nothing is uploaded, and the results are of relays
\* that were passed on.
LEMMA UnpublishedBefore ==
    ASSUME PipelineInv, NEW r \in Rounds \ overlapped, ~orphan[r],
           PublishedOnce(r), ~Fault(r),
           \/ Trigger(r) \/ FetchJob(r) \/ ValidateJob(r)
           \/ ReadValidation(r) \/ StartVerification(r)
    PROVE  PublishedOnce(r)'
  <1> USE DEF PipelineInv, TypeInv, TypeOK
  <1>1. /\ job[r] \notin {"over", "confirm-verification"} \cup PersistJobs
        /\ attempts' = attempts /\ uploads' = uploads /\ records' = records
    BY DEF Trigger, FetchJob, FetchRelays, UpsertRelay, UpsertFails, FinishFetch,
           ValidateJob, StartValidate, ReadBatch, WriteBatch, ValidateFails,
           FinishValidate, ReadValidation, StartVerification, At, PersistJobs,
           history, counts
  <1>2. /\ job'[r] \in {"fetch-relays", "validate-relays", "verify", "verify-relays"}
        /\ job'[r] = "verify-relays" => pc'[r] = "waiting"
        /\ pc'[r] \notin {"recording", "cleaning", "settling"}
    <2>1. CASE Trigger(r) \/ FetchJob(r)
      BY <2>1 DEF Trigger, FetchJob, FetchRelays, UpsertRelay, UpsertFails, FinishFetch,
         At, Goto, Return, Enqueue, control
    <2>2. CASE ValidateJob(r) \/ ReadValidation(r) \/ StartVerification(r)
      BY <2>2 DEF ValidateJob, StartValidate, ReadBatch, WriteBatch, ValidateFails,
         FinishValidate, ReadValidation, StartVerification, AddJob, Continue,
         AddedJob, At, Goto, Return, Enqueue, control
    <2> QED BY <2>1, <2>2
  <1>3. ~Uploaded(r)
    BY <1>1 DEF RoundInv, PlaceOf, Uploaded
  <1>4. ~Uploaded(r)'
    BY <1>2 DEF Uploaded, PersistJobs
  <1>5. attempts'[r] = 0 /\ uploads'[r] = 0 /\ records'[r] = 0
    BY <1>1, <1>3 DEF PublishedOnce, Uploaded
  <1> QED BY <1>2, <1>4, <1>5 DEF PublishedOnce, PersistJobs

\* Nothing is uploaded before the results are passed on, and the results are of
\* relays the round has.
LEMMA UnpublishedVerifying ==
    ASSUME PipelineInv, NEW r \in Rounds \ overlapped, ~orphan[r],
           PublishedOnce(r), ~Fault(r),
           VerifyJob(r) \/ Confirm(r)
    PROVE  PublishedOnce(r)'
  <1> USE DEF PipelineInv, TypeInv, TypeOK, At
  <1>1. /\ job[r] \in {"verify-relays", "confirm-verification"} /\ fps' = fps
        /\ attempts' = attempts /\ uploads' = uploads /\ records' = records
    BY DEF VerifyJob, ReadRegistry, ClassifyBatch, VerifyFails, StartSubmitting,
           SubmitChunk, SubmitThrows, FinishVerify, Confirm, history, counts,
           passed
  <1>2. ~Uploaded(r)
    BY <1>1 DEF RoundInv, PlaceOf, Uploaded, PersistJobs
  <1>3. /\ job'[r] \in {"verify-relays", "confirm-verification", "persist-verification"}
        /\ pc'[r] \in {"waiting", "classifying", "submitting"}
        /\ Keys(results'[r]) \subseteq fps[r]
    <2>1. CASE ReadRegistry(r)
      BY <2>1 DEF ReadRegistry, Goto, Nothing, Keys
    <2>2. CASE ClassifyBatch(r)
      <3>1. /\ job[r] = "verify-relays" /\ pc[r] = "classifying" /\ job' = job
            /\ pc' = pc
        BY <2>2 DEF ClassifyBatch, control
      <3>2. Keys(results'[r]) \subseteq Keys(results[r]) \cup todo[r]
        BY <2>2 DEF ClassifyBatch, Keys, Pages
      <3>3. todo[r] \subseteq fps[r] /\ Keys(results[r]) \subseteq fps[r]
        BY <3>1 DEF RoundInv, Verifying, PublishedOnce
      <3> QED BY <3>1, <3>2, <3>3
    <2>3. CASE StartSubmitting(r) \/ SubmitChunk(r)
      <3>1. /\ job[r] = "verify-relays" /\ pc[r] \in {"classifying", "submitting"}
            /\ job' = job /\ pc'[r] = "submitting" /\ results' = results
        BY <2>3 DEF StartSubmitting, SubmitChunk, Goto, control, passed
      <3> QED BY <3>1 DEF PublishedOnce
    <2>4. CASE FinishVerify(r) \/ Confirm(r)
      <3>1. /\ job[r] = "verify-relays" => pc[r] = "submitting"
            /\ job'[r] \in {"confirm-verification", "persist-verification"}
            /\ pc'[r] = "waiting" /\ results' = results
        BY <2>4 DEF FinishVerify, Confirm, Return, Enqueue, passed
      <3> QED BY <1>1, <3>1 DEF PublishedOnce
    <2> QED BY <2>1, <2>2, <2>3, <2>4 DEF VerifyJob, VerifyFails, SubmitThrows
  <1>4. ~Uploaded(r)'
    BY <1>3 DEF Uploaded
  <1> QED BY <1>1, <1>2, <1>3, <1>4 DEF PublishedOnce, Uploaded

\* The job uploads once; its relays are there, so it does not stop before.
LEMMA PublishedPersisting ==
    ASSUME PipelineInv, NEW r \in Rounds \ overlapped, ~orphan[r],
           PublishedOnce(r), ~Fault(r), PersistJob(r), ~Complete(r)
    PROVE  PublishedOnce(r)'
  <1> USE DEF PipelineInv, TypeInv, TypeOK
  <1>1. job[r] = "persist-verification" /\ fps' = fps /\ results' = results
    BY DEF PersistJob, NothingToPersist, Enrich, EnrichFails, UploadStats, CreateRecord,
           CleanUp, Settle, PublishedOnce, PersistJobs, passed
  <1>2. Keys(results[r]) \subseteq fps[r]
    BY <1>1 DEF PublishedOnce
  <1>3. CASE NothingToPersist(r)
    <2>1. job'[r] = "over" /\ pc'[r] = "waiting" /\ Keys(results[r]) = {}
      BY <1>1, <1>3 DEF NothingToPersist, HasWork, End, Enqueue
    <2> QED BY <1>1, <2>1 DEF PublishedOnce
  <1>4. CASE EnrichFails(r)
    <2>1. pc[r] = "waiting" /\ \E f \in Keys(results[r]) : store[f] = None
      BY <1>4 DEF EnrichFails
    <2>2. attempts[r] = 0
      BY <1>1, <2>1 DEF PublishedOnce, Uploaded
    <2>3. \A f \in fps[r] : store[f] # None
      BY <1>1, <2>2 DEF RoundInv, Persisting, PersistJobs
    <2> QED BY <1>2, <2>1, <2>3
  <1>5. CASE Enrich(r)
    <2>1. /\ pc[r] = "waiting" /\ pc'[r] = "uploading" /\ job' = job
          /\ attempts' = attempts /\ uploads' = uploads /\ records' = records
      BY <1>5 DEF Enrich, Goto, history, counts
    <2> QED BY <1>1, <1>2, <2>1 DEF PublishedOnce, Uploaded
  <1>6. CASE UploadStats(r)
    <2>1. /\ pc[r] = "uploading" /\ pc'[r] = "recording" /\ job' = job
          /\ attempts'[r] = attempts[r] + 1 /\ uploads'[r] = uploads[r] + 1
          /\ statsTx'[r] = TRUE /\ records' = records
      BY <1>6 DEF UploadStats, Goto
    <2> QED BY <1>1, <1>2, <2>1 DEF PublishedOnce, Uploaded
  <1>7. CASE CreateRecord(r)
    <2>1. /\ pc[r] = "recording" /\ pc'[r] = "cleaning" /\ job' = job
          /\ attempts' = attempts /\ uploads' = uploads /\ statsTx' = statsTx
          /\ records'[r] = records[r] + 1
      BY <1>7 DEF CreateRecord, Goto, passed
    <2> QED BY <1>1, <1>2, <2>1 DEF PublishedOnce, Uploaded
  <1>8. CASE CleanUp(r)
    <2>1. /\ pc[r] = "cleaning" /\ pc'[r] = "settling" /\ job' = job
          /\ attempts' = attempts /\ uploads' = uploads /\ statsTx' = statsTx
          /\ records' = records
      BY <1>8 DEF CleanUp, Goto, passed, counts
    <2> QED BY <1>1, <1>2, <2>1 DEF PublishedOnce, Uploaded
  <1>9. CASE Settle(r)
    <2>1. pc[r] = "settling" /\ statsTx[r] /\ uploads[r] = 1 /\ records[r] = 1
      BY <1>1, <1>9 DEF Settle, PublishedOnce, Uploaded
    <2>2. /\ job'[r] = "over" /\ pc'[r] = "waiting"
          /\ uploads' = uploads /\ records' = records
      BY <1>9, <2>1 DEF Settle, End, Enqueue, counts
    <2> QED BY <1>1, <2>1, <2>2 DEF PublishedOnce
  <1> QED BY <1>3, <1>4, <1>5, <1>6, <1>7, <1>8, <1>9 DEF PersistJob

\* It adds no recovery; the verify job that has added the flow completes.
LEMMA CompletedVerify ==
    ASSUME PipelineInv, NEW r \in Rounds \ overlapped, ~orphan[r],
           PublishedOnce(r), Complete(r)
    PROVE  PublishedOnce(r)'
  <1> USE DEF PipelineInv, TypeInv, TypeOK
  <1>1. job[r] = "verify" /\ pc[r] = "added"
    BY DEF Complete, PublishedOnce, InputsDefined
  <1>2. job'[r] = "verify-relays" /\ pc'[r] = "waiting"
    BY <1>1 DEF Complete, Continue, AddedJob, Enqueue
  <1>3. attempts' = attempts /\ uploads' = uploads /\ records' = records
    BY DEF Complete, history, counts
  <1>4. ~Uploaded(r) /\ ~Uploaded(r)'
    BY <1>1, <1>2 DEF Uploaded, PersistJobs
  <1> QED BY <1>1, <1>2, <1>3, <1>4 DEF PublishedOnce

-----------------------------------------------------------------------------

\* The invariant holds when no round has started.
LEMMA RoundsInvInit == Init => RoundsInv
  <1> SUFFICES ASSUME Init, NEW r \in Rounds
               PROVE  PipelineInv /\ RegistryUnchanged(r) /\ ~orphan[r]
                      /\ NoneLost(r) /\ PublishedOnce(r)
    BY PipelineInvInit DEF RoundsInv
  <1>1. /\ job[r] = "idle" /\ pc[r] = "waiting" /\ attempts[r] = 0 /\ uploads[r] = 0
        /\ records[r] = 0 /\ orphan[r] = FALSE
    BY DEF Init
  <1> QED BY <1>1, PipelineInvInit
          DEF RegistryUnchanged, NoneLost, PublishedOnce, Uploaded, At, PersistJobs

\* What RoundsInv says of one round.
Accomplished(r) ==
    /\ RegistryUnchanged(r)
    /\ Flawless(r) => ~orphan[r] /\ NoneLost(r) /\ PublishedOnce(r)

\* No round becomes an orphan by its own steps.
LEMMA OrphanKept ==
    ASSUME TypeInv, NEW r \in Rounds, ~orphan[r],
           Trigger(r) \/ Handle(r) \/ Interrupt(r)
    PROVE  ~orphan[r]'
  <1> USE DEF TypeInv, TypeOK, Goto, Return, End, Enqueue, control
  <1>1. CASE Trigger(r) \/ FetchJob(r)
    BY <1>1 DEF Trigger, FetchJob, FetchRelays, UpsertRelay, UpsertFails,
       FinishFetch
  <1>2. CASE ValidateJob(r) \/ ReadValidation(r) \/ StartVerification(r)
    BY <1>2 DEF ValidateJob, StartValidate, ReadBatch, WriteBatch,
       ValidateFails, FinishValidate, ReadValidation, StartVerification, AddJob,
       Continue
  <1>3. CASE VerifyJob(r) \/ Confirm(r)
    BY <1>3 DEF VerifyJob, ReadRegistry, ClassifyBatch, VerifyFails,
       StartSubmitting, SubmitChunk, SubmitThrows, FinishVerify, Confirm
  <1>4. CASE PersistJob(r)
    BY <1>4 DEF PersistJob, NothingToPersist, Enrich, EnrichFails, UploadStats,
       CreateRecord, CleanUp, Settle, Complete, AddJob, Continue
  <1>5. CASE Interrupt(r)
    BY <1>5 DEF Interrupt
  <1> QED BY <1>1, <1>2, <1>3, <1>4, <1>5 DEF Handle

\* A step of round r, for r itself.
LEMMA RoundsInvSame ==
    ASSUME RoundsInv, NEW r \in Rounds \ overlapped,
           Trigger(r) \/ Handle(r) \/ Interrupt(r)
    PROVE  Accomplished(r)'
  <1>1. PipelineInv /\ TypeInv /\ RegistryUnchanged(r)
    BY DEF RoundsInv, PipelineInv
  <1>2. RegistryUnchanged(r)'
    BY <1>1, RegistryElsewhere, RegistryVerify DEF Handle
  <1>3. ASSUME Flawless(r)' PROVE ~orphan[r]' /\ NoneLost(r)' /\ PublishedOnce(r)'
    <2>1. Flawless(r) /\ ~Fault(r) /\ ~Interrupt(r)
      BY <1>1, <1>3, FlawlessSteps
    <2>2. ~orphan[r] /\ NoneLost(r) /\ PublishedOnce(r)
      BY <2>1 DEF RoundsInv
    <2>3. ~orphan[r]'
      BY <1>1, <2>2, OrphanKept
    <2>4. CASE Trigger(r) \/ FetchJob(r)
      BY <1>1, <2>1, <2>2, <2>3, <2>4, NoneLostFetching, UnpublishedBefore
    <2>5. CASE ValidateJob(r) \/ ReadValidation(r) \/ StartVerification(r)
      BY <1>1, <2>1, <2>2, <2>3, <2>5, NoneLostValidating, UnpublishedBefore
    <2>6. CASE VerifyJob(r) \/ Confirm(r)
      BY <1>1, <2>1, <2>2, <2>3, <2>6, NoneLostVerifying, UnpublishedVerifying
    <2>7. CASE PersistJob(r)
      BY <1>1, <2>1, <2>2, <2>3, <2>7, NoneLostPersisting, PublishedPersisting,
         CompletedVerify
    <2> QED BY <2>1, <2>4, <2>5, <2>6, <2>7 DEF Handle
  <1> QED BY <1>2, <1>3 DEF Accomplished

\* And for another round, which is not live.
LEMMA RoundsInvOther ==
    ASSUME RoundsInv, NEW r \in Rounds, NEW q \in Rounds \ overlapped, q # r,
           ~Live(q), Trigger(r) \/ Handle(r) \/ Interrupt(r)
    PROVE  Accomplished(q)'
  <1>1. Undisturbed(q) /\ overlapped \subseteq overlapped'
    BY Elsewhere DEF RoundsInv, PipelineInv
  <1>2. RegistryUnchanged(q)'
    BY <1>1 DEF Undisturbed, RegistryUnchanged, At, Live
  <1>3. Flawless(q)' => ~orphan[q] /\ NoneLost(q) /\ PublishedOnce(q)
    BY <1>1 DEF Undisturbed, Flawless, RoundsInv
  <1>4. NoneLost(q) => NoneLost(q)'
    BY <1>1 DEF Undisturbed, NoneLost, Due, Known, At, PersistJobs
  <1>5. PublishedOnce(q) => PublishedOnce(q)'
    BY <1>1 DEF Undisturbed, PublishedOnce, Uploaded
  <1>6. ~orphan[q] => ~orphan[q]'
    BY <1>1 DEF Undisturbed
  <1> QED BY <1>2, <1>3, <1>4, <1>5, <1>6 DEF Accomplished

\* A boot leaves no round flawless but those that were not live.
LEMMA RoundsInvBoot ==
    ASSUME RoundsInv, Boot, NEW q \in Rounds \ overlapped
    PROVE  Accomplished(q)'
  <1>1. PICK running \in SUBSET {r \in Rounds : Active(r)} :
          /\ job' = [r \in Rounds |-> IF Live(r) /\ r \notin running
                                      THEN "over" ELSE job[r]]
          /\ pc' = [r \in Rounds |-> IF r \in running THEN pc[r] ELSE "waiting"]
          /\ orphan' = [r \in Rounds |-> r \in running]
    BY DEF Boot
  <1>2. /\ UNCHANGED <<shared, locals, passed, attempts, uploads, records,
                       accepted, interruptions, overlapped>>
        /\ faulty' = [r \in Rounds |-> faulty[r] \/ Live(r)]
    BY DEF Boot, counts
  <1>3. RegistryUnchanged(q)'
    <2>1. RegistryUnchanged(q) /\ InFlight' = InFlight
      BY <1>2 DEF RoundsInv, InFlight, shared, ao
    <2>2. \/ job'[q] = job[q] /\ pc'[q] = pc[q]
          \/ pc'[q] = "waiting"
      BY <1>1
    <2> QED BY <1>2, <2>1, <2>2 DEF RegistryUnchanged, At, shared, ao, locals,
       seen
  <1>4. ASSUME Flawless(q)' PROVE ~orphan[q]' /\ NoneLost(q)' /\ PublishedOnce(q)'
    <2>1. ~Live(q) /\ Flawless(q)
      BY <1>2, <1>4 DEF Flawless
    <2>2. ~orphan[q] /\ NoneLost(q) /\ PublishedOnce(q) /\ PlaceOf(q)
      BY <2>1 DEF RoundsInv, PipelineInv, RoundInv
    <2>3. /\ job'[q] = job[q] /\ pc'[q] = "waiting" /\ ~orphan'[q]
          /\ job[q] \in {"idle", "over"}
      BY <1>1, <2>1 DEF Active, Live
    <2>4. ~Uploaded(q)
      BY <2>2, <2>3 DEF PlaceOf, Uploaded, PersistJobs
    <2>5. NoneLost(q)'
      BY <1>2, <2>2, <2>3 DEF NoneLost, Due, Known, At, PersistJobs, locals,
         seen, passed
    <2>6. PublishedOnce(q)'
      BY <1>2, <2>2, <2>3, <2>4 DEF PublishedOnce, Uploaded, passed
    <2> QED BY <2>3, <2>5, <2>6
  <1> QED BY <1>3, <1>4 DEF Accomplished

\* A second chain puts both on record, and the others are not live.
LEMMA RoundsInvDouble ==
    ASSUME RoundsInv, NEW r \in Rounds, NEW p \in Rounds, Double(r, p),
           NEW q \in Rounds, q \notin overlapped'
    PROVE  Accomplished(q)'
  <1>1. /\ pc[r] = "added" /\ q \notin {r, p} /\ q \notin overlapped
    BY DEF Double
  <1>2. TypeInv /\ Alone
    BY DEF RoundsInv, PipelineInv
  <1>3. Live(r)
    BY <1>1, <1>2 DEF TypeInv, InputsDefined, PersistJobs, Live
  <1>4. ~Live(q)
    BY <1>1, <1>2, <1>3 DEF Alone
  <1>5. /\ job'[q] = job[q] /\ pc'[q] = pc[q] /\ listing'[q] = listing[q]
        /\ fps'[q] = fps[q] /\ results'[q] = results[q]
        /\ interruptions'[q] = interruptions[q]
        /\ UNCHANGED <<orphan, statsTx, locals, history>>
    BY <1>1, <1>2 DEF Double, LoseWorker, TypeInv, TypeOK
  <1>6. RegistryUnchanged(q)'
    BY <1>4, <1>5 DEF RegistryUnchanged, At, Live
  <1>7. Flawless(q)' => ~orphan[q] /\ NoneLost(q) /\ PublishedOnce(q)
    BY <1>1, <1>5 DEF Flawless, RoundsInv, history
  <1>8. NoneLost(q) => NoneLost(q)'
    BY <1>5 DEF NoneLost, Due, Known, At, PersistJobs, locals, seen, history
  <1>9. PublishedOnce(q) => PublishedOnce(q)'
    BY <1>5 DEF PublishedOnce, Uploaded, PersistJobs, history, counts
  <1> QED BY <1>5, <1>6, <1>7, <1>8, <1>9 DEF Accomplished

\* Every step keeps the invariant.
LEMMA RoundsInvStep == RoundsInv /\ [Next]_vars => RoundsInv'
  <1> SUFFICES ASSUME RoundsInv, [Next]_vars PROVE RoundsInv'
    OBVIOUS
  <1>1. PipelineInv /\ PipelineInv' /\ TypeInv /\ Alone
    BY PipelineInvNext DEF RoundsInv, PipelineInv
  <1>2. SUFFICES ASSUME NEW q \in Rounds, q \notin overlapped'
                 PROVE  Accomplished(q)'
    BY <1>1, <1>2 DEF RoundsInv, Accomplished
  <1>3. ASSUME NEW r \in Rounds, Trigger(r) \/ Handle(r) \/ Interrupt(r)
        PROVE  Accomplished(q)'
    <2>1. q \notin overlapped
      BY <1>1, <1>2, <1>3, OverlapsRecorded
    <2>2. CASE q = r
      BY <1>3, <2>1, <2>2, RoundsInvSame
    <2>3. CASE q # r
      <3>1. ~Live(q)
        <4>1. CASE Trigger(r)
          BY <1>2, <4>1 DEF Trigger, Running
        <4>2. CASE Handle(r) \/ Interrupt(r)
          <5>1. Live(r)
            BY <1>1, <4>2, HandlesLive
          <5> QED BY <1>1, <2>1, <2>3, <5>1 DEF Alone
        <4> QED BY <1>3, <4>1, <4>2
      <3> QED BY <1>3, <2>1, <2>3, <3>1, RoundsInvOther
    <2> QED BY <2>2, <2>3
  <1>4. CASE Boot
    BY <1>2, <1>4, RoundsInvBoot DEF Boot
  <1>5. CASE Evaluate \/ Claim \/ Renounce \/ UNCHANGED vars
    <2>1. /\ UNCHANGED <<store, control, locals, passed, history, losses>>
          /\ q \notin overlapped
      BY <1>2, <1>5 DEF Evaluate, Claim, Renounce, vars, shared, losses
    <2>2. RegistryUnchanged(q)'
      BY <1>1, <1>5, <2>1, RegistryUsers DEF RoundsInv
    <2>3. Flawless(q)' => ~orphan[q]' /\ NoneLost(q)' /\ PublishedOnce(q)'
      <3>1. Flawless(q)' => ~orphan[q] /\ NoneLost(q) /\ PublishedOnce(q)
        BY <2>1 DEF Flawless, RoundsInv, history, losses
      <3>2. NoneLost(q) => NoneLost(q)'
        BY <2>1 DEF NoneLost, Due, Known, At, control, locals, seen, passed,
           history
      <3>3. PublishedOnce(q) => PublishedOnce(q)'
        BY <2>1 DEF PublishedOnce, Uploaded, control, passed, history, counts
      <3> QED BY <2>1, <3>1, <3>2, <3>3 DEF control
    <2> QED BY <2>2, <2>3 DEF Accomplished
  <1>6. ASSUME NEW r \in Rounds, NEW p \in Rounds, Double(r, p)
        PROVE  Accomplished(q)'
    BY <1>1, <1>2, <1>6, RoundsInvDouble
  <1> QED BY <1>3, <1>4, <1>5, <1>6 DEF Next

\* The inductive invariant of the pipeline holds in every behaviour: rounds that
\* overlap, boots and lost workers included.
THEOREM RoundsInvariant == Spec => []RoundsInv
  BY RoundsInvInit, RoundsInvStep, PTL DEF Spec

\* What verify-relays of a round that runs alone submits is not in the registry
\* when it submits it, although it has read it long before, unless the state it
\* has read lacked a message that names the relay.
THEOREM SubmissionsNew == Spec => SubmitsOnlyUnregistered
  <1> DEFINE Step ==
        \A r \in Rounds \ overlapped : pc[r] = "submitting" =>
          \A f \in todo[r] \ todo'[r] :
            registry[f] = "none" \/ f \in lagging[r]
  <1>1. RoundsInv => \A r \in Rounds \ overlapped : pc[r] = "submitting" =>
                       \A f \in todo[r] :
                         registry[f] = "none" \/ f \in lagging[r]
    BY DEF RoundsInv, PipelineInv, RoundInv, PlaceOf, RegistryUnchanged, At
  <1>2. RoundsInv => [Step]_vars
    BY <1>1
  <1>3. Spec => []RoundsInv
    BY RoundsInvariant
  <1> QED BY <1>2, <1>3, PTL DEF SubmitsOnlyUnregistered

\* A round to which nothing happens offers every relay it has listed with a real
\* address to the registry, or finds it there, whatever happened to the rounds
\* before it.
THEOREM FlawlessRegisters == Spec => []FlawlessRoundRegisters
  <1>1. RoundsInv => FlawlessRoundRegisters
    BY DEF RoundsInv, Flawless, NoneLost, Due, Known, FlawlessRoundRegisters
  <1> QED BY <1>1, RoundsInvariant, PTL

\* Such a round publishes its stats once and records them once, if it has
\* results.
THEOREM FlawlessPublishes == Spec => []FlawlessRoundPublishes
  <1>1. RoundsInv => FlawlessRoundPublishes
    BY DEF RoundsInv, Flawless, PublishedOnce, FlawlessRoundPublishes
  <1> QED BY <1>1, RoundsInvariant, PTL

=============================================================================
