--------------------------- MODULE RelayPipeline ---------------------------
(***************************************************************************)
(* The job pipeline of the controller: a round is one pass of the flow     *)
(*                                                                         *)
(*   fetch-relays -> validate-relays -> verify                             *)
(*     -> verify-relays -> confirm-verification -> persist-verification    *)
(*     [ -> recover-persist-verification ... ]                             *)
(*                                                                         *)
(* Every job handler of every round reads and writes the same transient    *)
(* relay collection and awaits between its reads and its writes; the last  *)
(* one empties the whole collection.  A handler is a sequence of actions,  *)
(* one per awaited effect, so handlers of different rounds, interruptions  *)
(* (a worker that dies) and the leader's queue clean-up interleave between *)
(* them.                                                                   *)
(*                                                                         *)
(* Data: a contact line is the operator address extractAtorKey gets from   *)
(* it, Blank when it has the @anon: pattern but no valid address.          *)
(*                                                                         *)
(* A member of Rounds is a chain of jobs: a scheduled round, or a double,  *)
(* the second chain a round gets when a worker is lost after its handler   *)
(* has added a job and before the handler's own job is completed.          *)
(***************************************************************************)
EXTENDS Integers, FiniteSets

CONSTANTS
    Rounds,           \* the chains of jobs a behaviour may have
    Scheduled,        \* those that a validate job starts
    Relays,           \* relay fingerprints
    Banned,           \* BANNED_FINGERPRINTS
    HwRelays,         \* the relays that come with hardware_info
    Addresses,        \* operator addresses
    Dummy,            \* 0xFFfF...: the address verification refuses
    Blank,            \* the empty any1_address
    None,             \* no value: not stored, not listed, undefined
    BatchSize,        \* relays per page of getByFingerprintsPaginated
    ChunkSize,        \* relays per Admin-Submit-Operator-Certificates
    MaxRetries,       \* maxUploadRetries
    MaxAttempts,      \* attempts of sendAosMessage
    MaxInterruptions, \* bound: workers lost in the middle of a job
    MaxBoots,         \* bound: leader boots that obliterate the queues
    RoundsFitInterval \* timing: a round ends before the hourly job starts
                      \* the next one

ASSUME RoundsAssumption == Scheduled \subseteq Rounds
ASSUME RelaysAssumption == Banned \subseteq Relays /\ HwRelays \subseteq Relays
ASSUME ValuesAssumption ==
    /\ None \notin Addresses \cup {Dummy, Blank}
    /\ Blank \notin Addresses \cup {Dummy}
    /\ Dummy \notin Addresses
    /\ None \notin [contact : Addresses \cup {Dummy, Blank},
                    addr : Addresses \cup {Dummy, Blank}]
    /\ None \notin {"Failed", "AlreadyRegistered", "AlreadyVerified",
                    "HardwareProofFailed"}
ASSUME SizesAssumption ==
    /\ IsFiniteSet(Relays)
    /\ BatchSize \in Nat \ {0} /\ ChunkSize \in Nat \ {0}
    /\ MaxRetries \in Nat /\ MaxAttempts \in Nat
    /\ MaxInterruptions \in Nat /\ MaxBoots \in Nat
ASSUME TimingAssumption == RoundsFitInterval \in BOOLEAN

VARIABLES
    store,        \* the relay collection: relay -> document or None
    registry,     \* the operator registry on AO (external): relay -> status
    inbox,        \* messages AO has accepted and not evaluated (external):
                  \* the relays of a message -> its copies
    job,          \* round -> the job it is at
    pc,           \* round -> where the handler of that job is
    orphan,       \* round -> its queues are gone, the handler still runs
    stalled,      \* round -> the current job has stalled once
    listing,      \* round -> what Onionoo listed: relay -> contact or None
    fps,          \* round -> fingerprints passed to the next job, or None
    valid,        \* round -> validatedFingerprints
    todo,         \* round -> relays the handler's loop has not reached
    pending,      \* round -> updates of the batch: relay -> address or None
    snapshot,     \* round -> the registry state verify-relays has read
    lagging,      \* history: round -> relays in messages that state lacked
    toAdd,        \* round -> relaysToAddAsClaimable: relay -> address or None
    results,      \* round -> VerificationResults: relay -> result or None
    retries,      \* round -> retriesLeft
    statsTx,      \* round -> validation_stats_tx is not empty
    attempts,     \* history: round -> stats uploads tried
    uploads,      \* history: round -> stats uploads that gave a transaction
    records,      \* round -> VerificationData records written
    accepted,     \* history: round -> relays the registry accepted
    faulty,       \* history: round -> a call failed or its job was removed
    interruptions,\* history: round -> how often a worker was lost
    lost,         \* how much of the bound on lost workers is used
    boots,        \* history: leader boots with queue clean-up
    origin,       \* history: round -> the round and lost worker it comes from
    overlapped    \* history: the rounds that ran together with another one

ao      == <<registry, inbox>>
shared  == <<store, ao>>
control == <<job, pc, orphan, stalled>>
seen    == <<snapshot, lagging>>
locals  == <<valid, todo, pending, seen, toAdd>>
passed  == <<listing, fps, results, retries, statsTx>>
counts  == <<attempts, uploads, records>>
history == <<counts, accepted, faulty>>
losses  == <<interruptions, lost, boots, origin, overlapped>>
vars    == <<shared, control, locals, passed, history, losses>>

Contacts == Addresses \cup {Dummy, Blank}
Document == [contact : Contacts, addr : Contacts]
Status   == {"none", "claimable", "verified"}
Result   == {"Failed", "AlreadyRegistered", "AlreadyVerified",
             "HardwareProofFailed"}
Jobs == {"idle", "fetch-relays", "validate-relays", "verify", "verify-relays",
         "confirm-verification", "persist-verification",
         "recover-persist-verification", "over"}
Places == {"waiting", "upserting", "validating", "writing", "starting",
           "classifying", "submitting", "uploading", "recording", "cleaning",
           "settling", "added"}

Nothing == [f \in Relays |-> None]

TypeOK ==
    /\ store \in [Relays -> Document \cup {None}]
    /\ registry \in [Relays -> Status]
    /\ inbox \in [SUBSET Relays -> Nat]
    /\ job \in [Rounds -> Jobs]
    /\ pc \in [Rounds -> Places]
    /\ orphan \in [Rounds -> BOOLEAN]
    /\ stalled \in [Rounds -> BOOLEAN]
    /\ listing \in [Rounds -> [Relays -> Contacts \cup {None}]]
    /\ fps \in [Rounds -> (SUBSET Relays) \cup {None}]
    /\ valid \in [Rounds -> SUBSET Relays]
    /\ todo \in [Rounds -> SUBSET Relays]
    /\ pending \in [Rounds -> [Relays -> Contacts \cup {None}]]
    /\ snapshot \in [Rounds -> [Relays -> Status]]
    /\ lagging \in [Rounds -> SUBSET Relays]
    /\ toAdd \in [Rounds -> [Relays -> Contacts \cup {None}]]
    /\ results \in [Rounds -> [Relays -> Result \cup {None}]]
    /\ retries \in [Rounds -> 0..MaxRetries]
    /\ statsTx \in [Rounds -> BOOLEAN]
    /\ attempts \in [Rounds -> Nat]
    /\ uploads \in [Rounds -> Nat]
    /\ records \in [Rounds -> Nat]
    /\ accepted \in [Rounds -> SUBSET Relays]
    /\ faulty \in [Rounds -> BOOLEAN]
    /\ interruptions \in [Rounds -> Nat]
    /\ lost \in 0..MaxInterruptions
    /\ boots \in 0..MaxBoots
    /\ origin \in [Rounds -> Rounds \X Nat]
    /\ overlapped \in SUBSET Rounds

Init ==
    /\ store = Nothing
    /\ registry = [f \in Relays |-> "none"]
    /\ inbox = [m \in SUBSET Relays |-> 0]
    /\ job = [r \in Rounds |-> "idle"]
    /\ pc = [r \in Rounds |-> "waiting"]
    /\ orphan = [r \in Rounds |-> FALSE]
    /\ stalled = [r \in Rounds |-> FALSE]
    /\ listing = [r \in Rounds |-> Nothing]
    /\ fps = [r \in Rounds |-> None]
    /\ valid = [r \in Rounds |-> {}]
    /\ todo = [r \in Rounds |-> {}]
    /\ pending = [r \in Rounds |-> Nothing]
    /\ snapshot = [r \in Rounds |-> [f \in Relays |-> "none"]]
    /\ lagging = [r \in Rounds |-> {}]
    /\ toAdd = [r \in Rounds |-> Nothing]
    /\ results = [r \in Rounds |-> Nothing]
    /\ retries = [r \in Rounds |-> 0]
    /\ statsTx = [r \in Rounds |-> FALSE]
    /\ attempts = [r \in Rounds |-> 0]
    /\ uploads = [r \in Rounds |-> 0]
    /\ records = [r \in Rounds |-> 0]
    /\ accepted = [r \in Rounds |-> {}]
    /\ faulty = [r \in Rounds |-> FALSE]
    /\ interruptions = [r \in Rounds |-> 0]
    /\ lost = 0
    /\ boots = 0
    /\ origin = [r \in Rounds |-> <<r, 0>>]
    /\ overlapped = {}

-----------------------------------------------------------------------------
(* Moving between jobs and within a handler                                *)

At(r, j, p) == job[r] = j /\ pc[r] = p

Live(r) == job[r] \notin {"idle", "over"}
Active(r) == Live(r) /\ pc[r] # "waiting"

Goto(r, p) ==
    /\ pc' = [pc EXCEPT ![r] = p]
    /\ UNCHANGED <<job, orphan, stalled>>

\* A job is put in its queue, by a handler whose own job may be gone.
Enqueue(r, j) ==
    /\ job' = [job EXCEPT ![r] = j]
    /\ pc' = [pc EXCEPT ![r] = "waiting"]
    /\ orphan' = [orphan EXCEPT ![r] = FALSE]
    /\ stalled' = [stalled EXCEPT ![r] = FALSE]

End(r) == Enqueue(r, "over")

\* The handler returned: its parent job starts, unless the queues were
\* obliterated while it ran and nobody is left to take its value.
Return(r, parent) == Enqueue(r, IF orphan[r] THEN "over" ELSE parent)

\* The job a handler adds itself, and the retriesLeft of that job.
AddedJob(r) == IF job[r] = "verify" THEN "verify-relays"
                                    ELSE "recover-persist-verification"

\* Mutant: a recovery job is added with the retries its own job had.
RetriesLeftSame(r) ==
    IF job[r] = "persist-verification" THEN MaxRetries ELSE retries[r]

RetriesLeft(r) ==
    CASE job[r] = "verify" -> retries[r]
      [] job[r] = "persist-verification" -> MaxRetries
      [] OTHER -> retries[r] - 1

Continue(r) ==
    /\ Enqueue(r, AddedJob(r))
    /\ retries' = [retries EXCEPT ![r] = RetriesLeft(r)]

\* The add is not awaited: the new job is in its queue while the handler's own
\* job is active still, unless that one was obliterated.
AddJob(r) == IF orphan[r] THEN Continue(r)
                          ELSE Goto(r, "added") /\ UNCHANGED retries

Fault(r) == faulty' = [faulty EXCEPT ![r] = TRUE]

\* A page of a loop over S.
Pages(S, size) ==
    {P \in SUBSET S : Cardinality(P) = IF Cardinality(S) < size
                                       THEN Cardinality(S) ELSE size}

Keys(f) == {x \in Relays : f[x] # None}

-----------------------------------------------------------------------------
(* Starting a round                                                        *)

Running == {q \in Rounds : Live(q)}

\* The validate job adds the validation flow.
Trigger(r) ==
    /\ r \in Scheduled /\ job[r] = "idle"
    /\ RoundsFitInterval => \A q \in Running : orphan[q]
    /\ Enqueue(r, "fetch-relays")
    /\ overlapped' = IF Running = {} THEN overlapped
                                     ELSE overlapped \cup Running \cup {r}
    /\ UNCHANGED <<shared, locals, passed, history, interruptions, lost,
                   boots, origin>>

-----------------------------------------------------------------------------
(* fetch-relays                                                            *)

\* filterRelays: what of an answer is worth storing.
Matching(l) == {f \in Relays : l[f] # None /\ f \notin Banned}

\* A failed request, and an answer 304, leave the answer empty.
FetchRelays(r) ==
    /\ At(r, "fetch-relays", "waiting")
    /\ \E l \in [Relays -> Contacts \cup {None}] :
         /\ listing' = [listing EXCEPT ![r] = l]
         /\ todo' = [todo EXCEPT ![r] = Matching(l)]
    /\ Goto(r, "upserting")
    /\ UNCHANGED <<shared, valid, pending, seen, toAdd, fps, results,
                   retries, statsTx, history, losses>>

\* One updateOne with upsert; it also empties any1_address.
UpsertRelay(r) ==
    /\ At(r, "fetch-relays", "upserting")
    /\ \E f \in todo[r] :
         /\ store' = [store EXCEPT ![f] =
                        [contact |-> listing[r][f], addr |-> Blank]]
         /\ todo' = [todo EXCEPT ![r] = @ \ {f}]
    /\ UNCHANGED <<ao, control, valid, pending, seen, toAdd, passed,
                   history, losses>>

\* Mutant: the fingerprints not yet stored are passed on as well.
UpsertFailsSilently(r) ==
    /\ At(r, "fetch-relays", "upserting")
    /\ todo[r] # {}
    /\ fps' = [fps EXCEPT ![r] = Matching(listing[r])]
    /\ Return(r, "validate-relays")
    /\ Fault(r)
    /\ UNCHANGED <<shared, locals, listing, results, retries, statsTx, counts,
                   accepted, losses>>

\* A write fails: the fingerprints stored so far are dropped.
UpsertFails(r) ==
    /\ At(r, "fetch-relays", "upserting")
    /\ todo[r] # {}
    /\ fps' = [fps EXCEPT ![r] = {}]
    /\ Return(r, "validate-relays")
    /\ Fault(r)
    /\ UNCHANGED <<shared, locals, listing, results, retries, statsTx, counts,
                   accepted, losses>>

FinishFetch(r) ==
    /\ At(r, "fetch-relays", "upserting")
    /\ todo[r] = {}
    /\ fps' = [fps EXCEPT ![r] = Matching(listing[r])]
    /\ Return(r, "validate-relays")
    /\ UNCHANGED <<shared, locals, listing, results, retries, statsTx,
                   history, losses>>

-----------------------------------------------------------------------------
(* validate-relays                                                         *)

StartValidate(r) ==
    /\ At(r, "validate-relays", "waiting")
    /\ todo' = [todo EXCEPT ![r] = fps[r]]
    /\ valid' = [valid EXCEPT ![r] = {}]
    /\ Goto(r, "validating")
    /\ UNCHANGED <<shared, pending, seen, toAdd, passed, history, losses>>

\* Mutant: a relay is validated although extractAtorKey found no address.
ReadBatchUnchecked(r) ==
    /\ At(r, "validate-relays", "validating")
    /\ todo[r] # {}
    /\ \E page \in Pages(todo[r], BatchSize) :
         LET found == {f \in page : store[f] # None}
         IN /\ todo' = [todo EXCEPT ![r] = @ \ page]
            /\ pending' = [pending EXCEPT ![r] =
                 [f \in Relays |-> IF f \in found THEN store[f].contact
                                                  ELSE None]]
            /\ valid' = [valid EXCEPT ![r] = @ \cup found]
            /\ IF found = {} THEN UNCHANGED control ELSE Goto(r, "writing")
    /\ UNCHANGED <<shared, seen, toAdd, passed, history, losses>>

\* find() of one page: of the relays still stored, those whose contact has a
\* valid address are validated and their address is to be written.
ReadBatch(r) ==
    /\ At(r, "validate-relays", "validating")
    /\ todo[r] # {}
    /\ \E page \in Pages(todo[r], BatchSize) :
         LET found == {f \in page : store[f] # None
                                    /\ store[f].contact # Blank}
         IN /\ todo' = [todo EXCEPT ![r] = @ \ page]
            /\ pending' = [pending EXCEPT ![r] =
                 [f \in Relays |-> IF f \in found THEN store[f].contact
                                                  ELSE None]]
            /\ valid' = [valid EXCEPT ![r] = @ \cup found]
            /\ IF found = {} THEN UNCHANGED control ELSE Goto(r, "writing")
    /\ UNCHANGED <<shared, seen, toAdd, passed, history, losses>>

\* bulkWrite of updateOne without upsert: a relay deleted since is skipped.
WriteBatch(r) ==
    /\ At(r, "validate-relays", "writing")
    /\ store' = [f \in Relays |->
         IF pending[r][f] # None /\ store[f] # None
         THEN [store[f] EXCEPT !.addr = pending[r][f]]
         ELSE store[f]]
    /\ Goto(r, "validating")
    /\ UNCHANGED <<ao, locals, passed, history, losses>>

\* Reading the children, a page or a write fails: the handler returns undefined.
ValidateFails(r) ==
    /\ job[r] = "validate-relays"
    /\ fps' = [fps EXCEPT ![r] = None]
    /\ Return(r, "verify")
    /\ Fault(r)
    /\ UNCHANGED <<shared, locals, listing, results, retries, statsTx, counts,
                   accepted, losses>>

FinishValidate(r) ==
    /\ At(r, "validate-relays", "validating")
    /\ todo[r] = {}
    /\ fps' = [fps EXCEPT ![r] = valid[r]]
    /\ Return(r, "verify")
    /\ UNCHANGED <<shared, locals, listing, results, retries, statsTx,
                   history, losses>>

-----------------------------------------------------------------------------
(* verify                                                                  *)

\* Mutant: an undefined validation is waited for.
ReadValidationWaits(r) ==
    /\ At(r, "verify", "waiting")
    /\ fps[r] # None
    /\ Goto(r, "starting")
    /\ UNCHANGED <<shared, locals, passed, history, losses>>

\* getChildrenValues.  validationData[0].validated_at of [null] throws; then,
\* and when the read fails, the job fails.
ReadValidation(r) ==
    /\ At(r, "verify", "waiting")
    /\ \/ /\ fps[r] # None
          /\ Goto(r, "starting")
          /\ UNCHANGED faulty
       \/ /\ End(r)
          /\ Fault(r)
    /\ UNCHANGED <<shared, locals, passed, counts, accepted, losses>>

\* The verification flow is added.  An add that fails ends the process, as an
\* unhandled rejection: after the job was completed, as here, or before it
\* (Interrupt).
StartVerification(r) ==
    /\ At(r, "verify", "starting")
    /\ \/ AddJob(r) /\ UNCHANGED faulty
       \/ End(r) /\ Fault(r) /\ UNCHANGED retries
    /\ UNCHANGED <<shared, locals, listing, fps, results, statsTx, counts,
                   accepted, losses>>

-----------------------------------------------------------------------------
(* verify-relays                                                           *)

\* Relays in messages that AO has accepted and the registry has not evaluated:
\* a dry run does not show them yet.
InFlight == {f \in Relays : \E m \in SUBSET Relays : f \in m /\ inbox[m] > 0}

\* Mutant: the state of the registry is cached, so a job that runs a second
\* time does not read it again.
ReadRegistryOnce(r) ==
    /\ At(r, "verify-relays", "waiting")
    /\ snapshot' = [snapshot EXCEPT ![r] = IF stalled[r] THEN @ ELSE registry]
    /\ lagging' = [lagging EXCEPT ![r] = IF stalled[r] THEN @ ELSE InFlight]
    /\ todo' = [todo EXCEPT ![r] = fps[r]]
    /\ toAdd' = [toAdd EXCEPT ![r] = Nothing]
    /\ results' = [results EXCEPT ![r] = Nothing]
    /\ Goto(r, "classifying")
    /\ UNCHANGED <<shared, valid, pending, listing, fps, retries, statsTx,
                   history, losses>>

\* getOperatorRegistryState.
ReadRegistry(r) ==
    /\ At(r, "verify-relays", "waiting")
    /\ snapshot' = [snapshot EXCEPT ![r] = registry]
    /\ lagging' = [lagging EXCEPT ![r] = InFlight]
    /\ todo' = [todo EXCEPT ![r] = fps[r]]
    /\ toAdd' = [toAdd EXCEPT ![r] = Nothing]
    /\ results' = [results EXCEPT ![r] = Nothing]
    /\ Goto(r, "classifying")
    /\ UNCHANGED <<shared, valid, pending, listing, fps, retries, statsTx,
                   history, losses>>

\* Mutant: the dummy address is not refused.
VerdictLenient(r, f, proven) ==
    IF snapshot[r][f] = "claimable" THEN "AlreadyRegistered"
    ELSE IF snapshot[r][f] = "verified" THEN "AlreadyVerified"
    ELSE IF f \in HwRelays \ proven THEN "HardwareProofFailed"
    ELSE None

\* The result of one relay as verification finds it, None when it is to be
\* added; proven are the relays whose hardware proof holds.
Verdict(r, f, proven) ==
    IF store[f].addr = Dummy THEN "Failed"
    ELSE IF snapshot[r][f] = "claimable" THEN "AlreadyRegistered"
    ELSE IF snapshot[r][f] = "verified" THEN "AlreadyVerified"
    ELSE IF f \in HwRelays \ proven THEN "HardwareProofFailed"
    ELSE None

\* getRelaysToAddAsClaimable, one page.
ClassifyBatch(r) ==
    /\ At(r, "verify-relays", "classifying")
    /\ todo[r] # {}
    /\ \E page \in Pages(todo[r], BatchSize), proven \in SUBSET HwRelays :
         LET found == {f \in page : store[f] # None}
             added == {f \in found : Verdict(r, f, proven) = None}
         IN /\ todo' = [todo EXCEPT ![r] = @ \ page]
            /\ toAdd' = [toAdd EXCEPT ![r] =
                 [f \in Relays |-> IF f \in added THEN store[f].addr
                                                  ELSE toAdd[r][f]]]
            /\ results' = [results EXCEPT ![r] =
                 [f \in Relays |-> IF f \in found
                                   THEN Verdict(r, f, proven)
                                   ELSE results[r][f]]]
    /\ UNCHANGED <<shared, control, valid, pending, seen, listing, fps,
                   retries, statsTx, history, losses>>

\* The registry, a page or a hardware check fails: the round has no results.
VerifyFails(r) ==
    /\ job[r] = "verify-relays"
    /\ pc[r] \in {"waiting", "classifying"}
    /\ results' = [results EXCEPT ![r] = Nothing]
    /\ toAdd' = [toAdd EXCEPT ![r] = Nothing]
    /\ Return(r, "confirm-verification")
    /\ Fault(r)
    /\ UNCHANGED <<shared, valid, todo, pending, seen, listing, fps,
                   retries, statsTx, counts, accepted, losses>>

StartSubmitting(r) ==
    /\ At(r, "verify-relays", "classifying")
    /\ todo[r] = {}
    /\ todo' = [todo EXCEPT ![r] = Keys(toAdd[r])]
    /\ Goto(r, "submitting")
    /\ UNCHANGED <<shared, valid, pending, seen, toAdd, passed, history,
                   losses>>

\* What the registry does with the certificates of a message (external).
Registered(m) ==
    [f \in Relays |-> IF f \in m /\ registry[f] = "none"
                      THEN "claimable" ELSE registry[f]]

\* Mutant: only the first chunk is submitted.
SubmitFirstChunk(r) ==
    /\ At(r, "verify-relays", "submitting")
    /\ \E chunk \in Pages(todo[r], ChunkSize) \ {{}} :
         /\ todo' = [todo EXCEPT ![r] = {}]
         /\ registry' = Registered(chunk)
         /\ accepted' = [accepted EXCEPT ![r] = @ \cup chunk]
    /\ UNCHANGED <<store, inbox, control, valid, pending, seen, toAdd, passed,
                   counts, faulty, losses>>

\* One Admin-Submit-Operator-Certificates message.  Its result is awaited, and
\* AO evaluates messages in order, so an answer means that it and all before
\* it are evaluated.  Otherwise up to MaxAttempts copies of it are accepted and
\* not evaluated yet.  Either way the results of the chunk go nowhere:
\* verifyRelays drops the value of concat.
SubmitChunk(r) ==
    /\ At(r, "verify-relays", "submitting")
    /\ \E chunk \in Pages(todo[r], ChunkSize) \ {{}} :
         /\ todo' = [todo EXCEPT ![r] = @ \ chunk]
         /\ \/ /\ InFlight = {}
               /\ registry' = Registered(chunk)
               /\ accepted' = [accepted EXCEPT ![r] = @ \cup chunk]
               /\ UNCHANGED <<inbox, faulty>>
            \/ /\ \E copies \in 1 .. MaxAttempts :
                    inbox' = [inbox EXCEPT ![chunk] = @ + copies]
               /\ accepted' = [accepted EXCEPT ![r] = @ \cup chunk]
               /\ Fault(r)
               /\ UNCHANGED registry
            \/ /\ Fault(r)
               /\ UNCHANGED <<ao, accepted>>
    /\ UNCHANGED <<store, control, valid, pending, seen, toAdd, passed, counts,
                   losses>>

\* The first submission throws (no signer): every relay to add has failed.
SubmitThrows(r) ==
    /\ At(r, "verify-relays", "submitting")
    /\ todo[r] # {} /\ todo[r] = Keys(toAdd[r])
    /\ results' = [results EXCEPT ![r] =
         [f \in Relays |-> IF f \in todo[r] THEN "Failed" ELSE results[r][f]]]
    /\ Return(r, "confirm-verification")
    /\ Fault(r)
    /\ UNCHANGED <<shared, locals, listing, fps, retries, statsTx, counts,
                   accepted, losses>>

FinishVerify(r) ==
    /\ At(r, "verify-relays", "submitting")
    /\ todo[r] = {}
    /\ Return(r, "confirm-verification")
    /\ UNCHANGED <<shared, locals, passed, history, losses>>

-----------------------------------------------------------------------------
(* confirm-verification                                                    *)

\* Passes the results on; when its children cannot be read it passes none.
Confirm(r) ==
    /\ At(r, "confirm-verification", "waiting")
    /\ Return(r, "persist-verification")
    /\ \/ UNCHANGED <<results, faulty>>
       \/ /\ results' = [results EXCEPT ![r] = Nothing]
          /\ Fault(r)
    /\ UNCHANGED <<shared, locals, listing, fps, retries, statsTx, counts,
                   accepted, losses>>

-----------------------------------------------------------------------------
(* persist-verification and recover-persist-verification                   *)

PersistJobs == {"persist-verification", "recover-persist-verification"}

\* Mutants: retriesLeft is not tested; or it is tested of every job.
HasWorkUnlimited(r) == Keys(results[r]) # {}
HasWorkIfRetries(r) == Keys(results[r]) # {} /\ retries[r] > 0

\* The job finds results, and retries left if it is a recovery.
HasWork(r) ==
    /\ Keys(results[r]) # {}
    /\ job[r] = "recover-persist-verification" => retries[r] > 0

NothingToPersist(r) ==
    /\ job[r] \in PersistJobs /\ pc[r] = "waiting"
    /\ ~HasWork(r)
    /\ End(r)
    /\ UNCHANGED <<shared, locals, passed, history, losses>>

\* enrichVerificationResults finds every relay of the results.
Enrich(r) ==
    /\ job[r] \in PersistJobs /\ pc[r] = "waiting"
    /\ HasWork(r)
    /\ \A f \in Keys(results[r]) : store[f] # None
    /\ Goto(r, "uploading")
    /\ UNCHANGED <<shared, locals, passed, history, losses>>

\* It throws when one is missing, or the read fails; the handler swallows it.
EnrichFails(r) ==
    /\ job[r] \in PersistJobs /\ pc[r] = "waiting"
    /\ HasWork(r)
    /\ End(r)
    /\ IF \A f \in Keys(results[r]) : store[f] # None
       THEN Fault(r)
       ELSE UNCHANGED faulty
    /\ UNCHANGED <<shared, locals, passed, counts, accepted, losses>>

\* storeValidationStats.  The jobs never carry a statsTx that is not empty.
\* Without a reply there is none, accepted or not: attempts counts both.
UploadStats(r) ==
    /\ job[r] \in PersistJobs /\ pc[r] = "uploading"
    /\ attempts' = [attempts EXCEPT ![r] = @ + 1]
    /\ \/ /\ statsTx' = [statsTx EXCEPT ![r] = TRUE]
          /\ uploads' = [uploads EXCEPT ![r] = @ + 1]
          /\ UNCHANGED faulty
       \/ /\ statsTx' = [statsTx EXCEPT ![r] = FALSE]
          /\ Fault(r)
          /\ UNCHANGED uploads
    /\ Goto(r, "recording")
    /\ UNCHANGED <<shared, locals, listing, fps, results, retries, records,
                   accepted, losses>>

\* The VerificationData record is written whatever the upload gave; an error
\* is swallowed.
CreateRecord(r) ==
    /\ job[r] \in PersistJobs /\ pc[r] = "recording"
    /\ \/ records' = [records EXCEPT ![r] = @ + 1] /\ UNCHANGED faulty
       \/ Fault(r) /\ UNCHANGED records
    /\ Goto(r, "cleaning")
    /\ UNCHANGED <<shared, locals, passed, attempts, uploads, accepted, losses>>

\* deleteAll: every relay of the collection, whatever the upload gave; an
\* error is swallowed.
CleanUp(r) ==
    /\ job[r] \in PersistJobs /\ pc[r] = "cleaning"
    /\ \/ store' = Nothing /\ UNCHANGED faulty
       \/ Fault(r) /\ UNCHANGED store
    /\ Goto(r, "settling")
    /\ UNCHANGED <<ao, locals, passed, counts, accepted, losses>>

\* Without a transaction a recovery job is added, with the retries it has
\* left; an add that fails ends the process, as in StartVerification.
Settle(r) ==
    /\ job[r] \in PersistJobs /\ pc[r] = "settling"
    /\ \/ /\ statsTx[r]
          /\ End(r)
          /\ UNCHANGED <<retries, faulty>>
       \/ /\ ~statsTx[r]
          /\ AddJob(r)
          /\ UNCHANGED faulty
       \/ /\ ~statsTx[r]
          /\ End(r)
          /\ Fault(r)
          /\ UNCHANGED retries
    /\ UNCHANGED <<shared, locals, listing, fps, results, statsTx, counts,
                   accepted, losses>>

\* The job that has added another one is completed.  Queues obliterated in
\* between have lost the added job.
Complete(r) ==
    /\ pc[r] = "added"
    /\ \/ orphan[r] /\ End(r) /\ UNCHANGED retries
       \/ ~orphan[r] /\ Continue(r)
    /\ UNCHANGED <<shared, locals, listing, fps, results, statsTx, history,
                   losses>>

-----------------------------------------------------------------------------
(* Lost workers and leader boots                                           *)

LoseWorker(r) ==
    /\ lost < MaxInterruptions
    /\ lost' = lost + 1
    /\ interruptions' = [interruptions EXCEPT ![r] = @ + 1]

\* The worker dies in the middle of a job.  The queue runs the job once more;
\* a job that stalls a second time fails, and its parent never starts.
Interrupt(r) ==
    /\ Active(r) /\ pc[r] # "added"
    /\ LoseWorker(r)
    /\ IF stalled[r] \/ orphan[r]
       THEN End(r)
       ELSE /\ pc' = [pc EXCEPT ![r] = "waiting"]
            /\ stalled' = [stalled EXCEPT ![r] = TRUE]
            /\ UNCHANGED <<job, orphan>>
    /\ UNCHANGED <<shared, locals, passed, history, boots, origin, overlapped>>

\* It dies after the handler has added a job and before its own is completed:
\* the one runs again and the other goes on, as q.  (Without its own job, or if
\* that has stalled before, the round just goes on as Complete says.)
Double(r, q) ==
    /\ pc[r] = "added" /\ ~stalled[r] /\ ~orphan[r]
    /\ LoseWorker(r)
    /\ pc' = [pc EXCEPT ![r] = "waiting"]
    /\ stalled' = [stalled EXCEPT ![r] = TRUE]
    /\ q \in Rounds \ Scheduled /\ job[q] = "idle"
    /\ job' = [job EXCEPT ![q] = AddedJob(r)]
    /\ listing' = [listing EXCEPT ![q] = listing[r]]
    /\ fps' = [fps EXCEPT ![q] = fps[r]]
    /\ results' = [results EXCEPT ![q] = results[r]]
    /\ retries' = [retries EXCEPT ![q] = RetriesLeft(r)]
    /\ origin' = [origin EXCEPT ![q] = <<r, interruptions'[r]>>]
    /\ overlapped' = overlapped \cup {r, q}
    /\ UNCHANGED <<shared, locals, history, orphan, statsTx, boots>>

\* A leader boots and obliterates the three queues.  Handlers running in the
\* other instance go on; those of the booting one died before.
Boot ==
    /\ boots < MaxBoots
    /\ boots' = boots + 1
    /\ \E running \in SUBSET {r \in Rounds : Active(r)} :
         /\ job' = [r \in Rounds |-> IF Live(r) /\ r \notin running
                                     THEN "over" ELSE job[r]]
         /\ pc' = [r \in Rounds |-> IF r \in running THEN pc[r] ELSE "waiting"]
         /\ orphan' = [r \in Rounds |-> r \in running]
    /\ faulty' = [r \in Rounds |-> faulty[r] \/ Live(r)]
    /\ UNCHANGED <<stalled, shared, locals, passed, counts, accepted,
                   interruptions, lost, origin, overlapped>>

-----------------------------------------------------------------------------
(* The registry and its own users (external)                               *)

\* The registry evaluates a message.
Evaluate == \E m \in SUBSET Relays :
    /\ inbox[m] > 0
    /\ inbox' = [inbox EXCEPT ![m] = @ - 1]
    /\ registry' = Registered(m)
    /\ UNCHANGED <<store, control, locals, passed, history, losses>>

\* An operator claims a relay, or renounces it.
Claim == \E f \in Relays :
    /\ registry[f] = "claimable"
    /\ registry' = [registry EXCEPT ![f] = "verified"]
    /\ UNCHANGED <<store, inbox, control, locals, passed, history, losses>>

Renounce == \E f \in Relays :
    /\ registry[f] = "verified"
    /\ registry' = [registry EXCEPT ![f] = "none"]
    /\ UNCHANGED <<store, inbox, control, locals, passed, history, losses>>

-----------------------------------------------------------------------------

FetchJob(r) == FetchRelays(r) \/ UpsertRelay(r) \/ UpsertFails(r)
               \/ FinishFetch(r)
ValidateJob(r) == StartValidate(r) \/ ReadBatch(r) \/ WriteBatch(r)
                  \/ ValidateFails(r) \/ FinishValidate(r)
VerifyJob(r) == ReadRegistry(r) \/ ClassifyBatch(r) \/ VerifyFails(r)
                \/ StartSubmitting(r) \/ SubmitChunk(r) \/ SubmitThrows(r)
                \/ FinishVerify(r)
PersistJob(r) == NothingToPersist(r) \/ Enrich(r) \/ EnrichFails(r)
                 \/ UploadStats(r) \/ CreateRecord(r) \/ CleanUp(r) \/ Settle(r)
                 \/ Complete(r)

Handle(r) == FetchJob(r) \/ ValidateJob(r) \/ ReadValidation(r)
             \/ StartVerification(r) \/ VerifyJob(r) \/ Confirm(r)
             \/ PersistJob(r)

Next ==
    \/ \E r \in Rounds : Trigger(r) \/ Handle(r) \/ Interrupt(r)
    \/ \E r, q \in Rounds : Double(r, q)
    \/ Boot
    \/ Evaluate
    \/ Claim
    \/ Renounce

Spec == Init /\ [][Next]_vars

\* A job in a queue is taken by some worker, and a handler's calls return.
\* Nothing is assumed of triggers, interruptions, boots and operators.
FairSpec == Spec /\ \A r \in Rounds : WF_vars(Handle(r))

-----------------------------------------------------------------------------
(* Properties                                                              *)

\* A certificate of round r carries the address in the contact line of this
\* round's listing, a real address, and the relay is not banned.
CertificatesListed(r) ==
    \A f \in Relays : toAdd[r][f] # None =>
        /\ toAdd[r][f] = listing[r][f]
        /\ toAdd[r][f] \in Addresses
        /\ f \notin Banned

\* A round that ran alone certifies only what it listed: although
\* validate-relays, verify-relays and the next round's fetch-relays all rewrite
\* the same document, and boots and other rounds may have come before, no
\* stale, empty or refused address is about to be submitted.
CertificatesCarryListedAddress ==
    \A r \in Rounds \ overlapped : CertificatesListed(r)

\* README.md: verify-relays "submits valid relays": the same of every round,
\* also of one whose queues a booting leader has obliterated.
EveryCertificateListed == \A r \in Rounds : CertificatesListed(r)

\* The relays a round that runs alone works on stay in the transient
\* collection until it has tried to upload their stats: no deleteAll takes
\* them away before enrichVerificationResults has read them.
RelaysKeptUntilPersisted ==
    \A r \in Rounds \ overlapped :
        (Live(r) /\ job[r] # "fetch-relays" /\ attempts[r] = 0 /\ fps[r] # None)
            => \A f \in fps[r] : store[f] # None

\* A round that runs alone submits no certificate for a relay the registry
\* already holds, although the registry was read one sleep per chunk (and
\* possibly a lost worker) ago; unless the state it read lacked a message of an
\* earlier submission with that relay, whose result never came.
SubmitsOnlyUnregistered ==
    [][\A r \in Rounds \ overlapped : pc[r] = "submitting" =>
         \A f \in todo[r] \ todo'[r] :
             registry[f] = "none" \/ f \in lagging[r]]_vars

\* Nothing happened to the round: no call failed, no worker was lost, no boot
\* removed its jobs and no other round ran meanwhile.
Flawless(r) == ~faulty[r] /\ interruptions[r] = 0 /\ r \notin overlapped

\* A flawless round has offered every relay it listed with a real address to
\* the registry, or has seen it registered: no page and no chunk is lost
\* between the five jobs.
FlawlessRoundRegisters ==
    \A r \in Rounds : (job[r] = "over" /\ Flawless(r)) =>
        \A f \in Relays \ (Banned \cup HwRelays) :
            listing[r][f] \in Addresses =>
                snapshot[r][f] # "none" \/ f \in accepted[r]

\* A flawless round that has results publishes its stats once and records them
\* once.
FlawlessRoundPublishes ==
    \A r \in Rounds :
        (job[r] = "over" /\ Flawless(r) /\ Keys(results[r]) # {}) =>
            uploads[r] = 1 /\ records[r] = 1

\* Recovery neither retries for ever nor publishes a round's stats twice: a
\* chain of jobs tries one upload, the retries and one more for each worker it
\* has lost (which also bounds what Arweave accepts), and is told of two only if
\* it has lost a worker; and each chain a round gets in addition has a lost
\* worker of its own to blame.
UploadsBounded ==
    /\ \A r \in Rounds :
         /\ attempts[r] <= 1 + MaxRetries + interruptions[r]
         /\ uploads[r] <= 1 + interruptions[r]
         /\ origin[r][2] <= interruptions[origin[r][1]]
    /\ \A q, r \in Rounds : q # r => origin[q] # origin[r]

\* Every round that was started ends, whatever fails in it.
RoundsEnd == \A r \in Rounds : Live(r) ~> job[r] = "over"

\* README.md: "If the stats upload fails, a recover-persist-verification job
\* retries the upload up to 3 times": a recovery job that has retries left
\* finds the relays whose stats it is to upload.  The first attempt has
\* already emptied the collection.
RecoveryFindsRelays ==
    \A r \in Rounds :
        (At(r, "recover-persist-verification", "waiting") /\ HasWork(r)) =>
            \A f \in Keys(results[r]) : store[f] # None

=============================================================================
