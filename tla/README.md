# Operator Registry Controller in TLA+

A specification of the controller in `src/`: a NestJS service, deployed as two
instances, that reads relays from Onionoo every hour, validates and verifies
them, submits certificates for them to the operator registry on AO and uploads
the round's statistics to Arweave. The modules are translated from the
TypeScript source; paths below are relative to the repository.

## The system

| Component | Source | State | Operations |
| --- | --- | --- | --- |
| Pipeline | `src/src/tasks/processors/*`, `src/src/validation/*`, `src/src/verification/verification.service.ts` | the relay collection in MongoDB, `VerificationData` records, jobs in three BullMQ queues with their results | `fetch-relays`, `validate-relays`, `verify`, `verify-relays`, `confirm-verification`, `persist-verification`, `recover-persist-verification` |
| Round scheduling | `src/src/tasks/tasks.service.ts`, `tasks-queue.ts` | the delayed `validate` job | clean-up at boot, `queueValidateRelays`, the two flows |
| Leader election | `src/src/cluster/cluster.service.ts` | `isLeader`, `sessionId`; in Consul the sessions and the key | create and renew a session, acquire, watch, destroy |
| Hardware verification | `src/src/verification/hardware-verification.service.ts` | verified hardware and failures in MongoDB | NFT owner check, serial proof, lookup by ATEC serial |
| Registry client, AO messaging | `src/src/operator-registry/*`, `src/src/util/send-aos-message.ts` | none here; the registry itself is on AO | View-State, Admin-Submit-Operator-Certificates, three attempts each |
| GeoIP cache | `src/src/geo-ip/geo-ip.service.ts` | a map and its timestamp | `cacheCheck`, `lookup` |
| Data items | `src/src/util/arbundles-lite/*`, `src/src/util/create-ethereum-data-item-signer.ts` | none; a binary is written once and then signed in place | create, sign, verify, bundle, read |
| WebSocket provider | `src/src/util/resilient-websocket-provider.ts` | connection, timers, attempts | connect, keep alive, reconnect (no caller) |
| Bundling, EVM providers, Vault, health endpoint | `bundling`, `evm-provider`, `vault`, `app.controller.ts` | configuration | single calls |

How they interact: the elected leader cleans the queues when it boots and adds
the first `validate` job. That job adds the validation flow and queues itself
again in an hour. BullMQ runs the children of a flow first and hands their
results to the parent. All handlers of a round share one collection, which
the last one empties. `fetch-relays` asks the GeoIP cache for every relay;
`verify-relays` reads the registry with a dry run and submits relays in
messages, each a signed data item. *Every* instance runs a worker for every queue, so a
round moves between instances from job to job, leader or not.

What is hard here: handlers of several instances interleave at every `await`
on one shared collection; a job that stalled runs again from its beginning;
most errors are swallowed and a default passed on; the clean-up at boot
removes jobs from under running handlers; the answer to an acquire may arrive
after its session has expired; three counts of the queue are three requests; a
message is repeated although it may have been accepted; the tag codec has two
ranges of integers and two ways to write a string. `PROJECT.json` lists these hazards by line.

What makes it correct:

- *Pipeline*: what is certified is what this round's listing says, with a real
  address; no relay is submitted that the registry has, unless the state that was
  read lacked a message on its way; no relay, page or chunk is lost in a round in
  which nothing failed; nobody empties the collection under a round that still
  needs it; the uploads of a chain of jobs are bounded; every round ends. All but
  the last two hold of the rounds that met no other one: see `overlap`.
- *Election*: who believes it leads holds the lock or has lost its session; at
  most one instance starts the pipeline while nothing is lost; a leader is
  elected and starts it, if no process and no session is lost, also when another
  instance could not create its session.
- *Scheduling*: at most one chain of rounds, and it does not end. Both hold up
  to named exceptions only: a race behind a check's back, a failure, and verify
  jobs that stop a check.
- *Hardware*: a hardware flag is backed by a record that the same relay has left
  before, although rounds are lost between the two and relays change their
  hardware; every relay is decided on unless a value is missing. "One relay per
  device" fails, see below.
- *Messaging*: a relay is submitted again only where the result was not seen or an
  error, or its operator renounced it; what is reported stays registered, and is
  not submitted again, until it is renounced; the attempts are bounded.
- *GeoIP cache*: what a round looks up is fresh unless a request failed or gave
  no date; requests do not overlap; an old map that has a timestamp is replaced.
- *Data items*: what is read back is what was written; items verify; only tags
  that are too long, or parts of a wrong length, are refused.

## Modules

| Module | Contents |
| --- | --- |
| `RelayPipeline` | the pipeline, its properties, and mutants (operators marked "Mutant") |
| `RelayPipelineInvariants` | its inductive invariant in named parts |
| `RelayPipelineProofs`, `RelayRoundsProofs` | its theorems |
| `MCRelayPipeline` | the pipeline for TLC: symmetry sets |
| `Leadership` | what the election promises, abstractly |
| `LeaderElection` | Consul, the instances, properties, inductive invariant; implements `Leadership` |
| `LeaderElectionProofs` | its theorems |
| `MCLeaderElection` | the election for TLC |
| `DeviceLedger` | what hardware verification promises, abstractly |
| `HardwareVerification` | how `verify-relays` decides on relays with hardware; implements `DeviceLedger` |
| `HardwareVerificationProofs` | its theorems |
| `MCHardwareVerification` | the same for TLC: what relays may list |
| `TaskScheduling` | the chain of rounds in `tasks-queue`: counts, delayed job, clean-up |
| `TaskSchedulingProofs`, `MCTaskScheduling` | its theorems; the module for TLC |
| `Submission` | what submitting relays promises, abstractly |
| `RegistryMessages` | dry run, messages, results and their repetition; implements `Submission` |
| `RegistryMessagesProofs`, `MCRegistryMessages` | its theorems; the module for TLC |
| `GeoIpCache` | the fingerprint map of one process |
| `GeoIpCacheProofs`, `MCGeoIpCache` | its theorems; the module for TLC |
| `TagCodec` | how the tags of a data item are written and read |
| `DataItems` | data items and bundles: created, signed, verified, read |
| `DataItemsProofs` | its theorems |
| `MCDataItems` | the same for TLC: what items are made of |

### RelayPipeline

A *round* is one pass through the two flows. `job[r]` says at which job it is,
`pc[r]` where inside the handler; `store` is the collection, `registry` the
AO process and `inbox` the messages it has accepted and not evaluated. A handler
is one action per awaited effect: `UpsertRelay` is one
`updateOne` of the loop in `upsertMany`, `ReadBatch` one page of
`validateRelays` and `WriteBatch` its `bulkWrite`, `ClassifyBatch` one page of
`getRelaysToAddAsClaimable`, `SubmitChunk` one message, and `UploadStats`,
`CreateRecord`, `CleanUp`, `Settle` the four steps of `persistVerification` and
its caller. Two handlers add a job themselves and do not await it: `verify` the
second flow (`StartVerification`), the persisting jobs the recovery job
(`Settle`). The new job is in its queue while the handler's own is active still
(place `added`), and `Complete` is the end of the latter; nobody takes the new
job's steps before, but steps of it before the loss of the other job's worker
commute with that loss. `store`, the queues and the registry survive a process;
`valid`, `todo`, `pending`, `snapshot` and `toAdd` are locals of a handler,
assigned anew whenever it starts.

Failures: every external call may fail and does then what the code's `catch`
does (`UpsertFails`, `ValidateFails`, `VerifyFails`, `SubmitThrows`,
`EnrichFails`, the second disjuncts of `SubmitChunk`, `Confirm`, `UploadStats`,
`CreateRecord`, `CleanUp`, `Settle`). `sendAosMessage` awaits the result of a
message, and AO evaluates messages in order, so an answer means that the registry
is up to date. Without an answer up to `MaxAttempts` copies of the chunk are in
`inbox`, and `Evaluate` applies them at any later time: `ReadRegistry` reads a state
that lacks them (`lagging`, a history), and a later round may submit the same
relays once more. `RegistryMessages` has the attempts one by one. An upload whose
reply is lost counts in `attempts` like one that failed. An add that fails is an
unhandled rejection and ends the process: before the handler's own job is completed
that is `Interrupt`, after it the last disjuncts of `StartVerification` and `Settle`.

`Interrupt` is a worker that dies in a job: BullMQ runs it
again, and fails it when it stalls a second time (`maxStalledCount` is 1). `Double`
is a worker that dies at `added`: the added job goes on as a *double*, a member of
`Rounds` outside `Scheduled` with a copy of the round's data, while the round runs the
job again and adds another one. (An orphan, or a job that has stalled before, does
not run again, so the round goes on as `Complete` has it.) `origin` records which
round and which of its lost workers a double comes from.
`Boot` is the clean-up of a booting leader: handlers running in the other
instance (any subset of the running ones) go on as *orphans*, whose return
value starts nothing. The exception is a job the handler adds itself
(`verify`'s second flow, the recovery job): it is in the queue afterwards.

Abstractions:

- A contact line is the address `extractAtorKey` gets from it, `Blank` if it has
  the pattern and no valid address. `None` in a listing is a relay that is
  absent or has no pattern. A listing is chosen anew every round.
- The result of the hardware proof is chosen freely per relay and page
  (`HardwareVerification` says how it comes about).
- `IS_LIVE` is `'true'`. The metrics upload (disabled in the code, a constant
  non-empty ID) and the hex-map upload (its result is ignored) are left out, as
  are the values of the stats.
- The pages of a loop are arbitrary sets of the page's size.
- `Claim` and `Renounce` are operators. A relay that is renounced is submitted by a
  later round again.
- `Trigger` stands for the `validate` job. With `RoundsFitInterval` it waits
  until no round is in the queues: rounds are an hour apart and take minutes,
  but nothing in the code enforces it. The run `rounds` assumes it to stay small,
  the theorems do not. The history `overlapped` holds the rounds that ran while a
  handler of another one did, live or orphaned by a boot; what a round knows of
  the shared collection is stated of the others. A round with a double is one of
  these too. A round that `Boot` cuts short is marked `faulty`, so that no flawless
  round is one of those.

### LeaderElection

One process per instance: `phase` is its bootstrap (`creating` the session,
`electing` until the first `acquireLock` returns, `tasks` until
`TasksService.onApplicationBootstrap` has asked `isTheOne()`, then `up`) and
its shutdown. `requests` and `replies` are the acquires and answers on their
way, so expiry, death and changes of the key come between them. `holder`,
`live` and `delayed` are Consul's side: a session with behaviour `delete` takes
its key with it, and the key cannot be acquired until the lock-delay is over.
`stale[i]` is a change the watch has yet to deliver; `OtherChange` is a watch
that fires because Consul's index moved for another reason.
`SessionCreated` includes sending the first acquire, since no `await` that can
fail for another reason separates them. `IS_LOCAL_LEADER` is `"true"` as in
`operations/`.

`Leadership` leaves out requests, replies and the watch: a session is opened and
closed once, the lock goes to an open session while it is free, and an instance
comes to lead only in the step that gives its session the lock, though it may go
on believing so when the session is closed. `Status` maps `used` and `live` to it,
`Lease` a belief or a positive answer on its way (`Leads`).

### HardwareVerification

Opens the choice `RelayPipeline` leaves free: a *verifier* is a `verify-relays`
handler, and its actions are the awaits of one turn of the loop in
`getRelaysToAddAsClaimable`. `Take` is the start of a turn: it chooses what the
relay lists in this round, `None` if no hardware, since the validation of each round
stores the current `hardware_info`. `Decide` is a relay that needs no proof,
`LookUp` is `getVerifiedHardwareByAtecSerial` with the
check after it, `ProofHolds`, `ProofFails` and `ProofThrows` are the outcomes of
`isHardwareProofValid`, and `Abandon` is what an exception leaves: the round's
locals are gone, the records stay. `records` and `failures` are the collections
in MongoDB, `flagged` the registry's `VerifiedHardwareFingerprints`.

Abstractions: `findOne` has no order, so any matching record may be the one
found. A value of `hardware_info` is there and well formed, malformed or missing
(`id`, `rest`, `signed`; the node's `id` is used without an NFT only, `Lacks`), a
serial is written in lower case or not (`upper`). NFT owners may differ from
call to call, and the backup provider is asked when the first one fails. Relays with
the dummy address are `RelayPipeline`'s.
The chunks of a submission arrive in any subset. That a renounced relay keeps
its flag is how `verification.service.ts:486` uses the registry.

`DeviceLedger` has two actions: a record is added, and relays that have records
are flagged.

### TaskScheduling

`state[j]` is where BullMQ has a job of `tasks-queue`. The verify jobs of a round
are in it too, since the counts see them. A caller of `queueValidateRelays` is the
boot of an instance (`B(i)`) or its worker (`W(i)`); `Count` is the reply to one
of `getWaitingCount`, `getDelayedCount` and `getActiveCount`, and `Add` is
`tasksQueue.add`. A validate job skips the count of active jobs, of which it is
one. `Clean` is `obliterate` at boot, under handlers that go on; `late` are flows
those handlers add afterwards. `Die` loses the process, `Stall` is BullMQ's answer
(once waiting, then failed), `RedisFails` a request of `queueValidateRelays` that
rejects: a handler's job fails, a boot logs it. A clean-up that rejects ends the
process (`onApplicationBootstrap` is awaited and does not catch it): that is `Die`, at
`clean` with the jobs still there or right after `Clean`.

The histories name what the properties except: `raced` (a job moved past a check
that had already counted its new place, was cleaned away from under its handler,
or lost its worker after it had queued its successor), `blocked` (a check that
counted verify jobs alone) and `failed`. Any booting instance may be told that
it leads (`LeaderElection` says when), and the rounds themselves are
`RelayPipeline`'s: here a validate job adds one verify job or none, since the flow
is not awaited.

### RegistryMessages

`pc` is the place of one `verify-relays` handler in `sendAosDryRun`,
`sendAosMessage` and the loop over chunks, `attempts` the recursion's counter.
`log` is what AO has accepted: `Send` may append a message and lose the reply,
`Evaluate` gives the oldest pending message its result, and `registered` is what
a dry run sees, so it lags behind. Operators send messages to the same process:
`Renounce` appends one (one that AO answers with an error changes nothing and is left
out), and the relay is among those a later round submits. `Fetch` and `FetchFails` are the request for the
result; `SendAgain` sends the message once more in either case. An answer counts
as failed with `'500'` in its text (repeated after a sleep) or without (not
repeated). `Restart` is the process: the signer is created anew after workers
may have started, and a job it had runs again. The sleeps only order the
actions; their lengths are left out. Which relays qualify is the pipeline's
matter: here every relay the registry lacks does.

`Submission` has three actions: relays become registered, a round is told of
registered relays it was not told of, and operators renounce relays, which makes
both possible again. Its `told` is mapped to `Told`, the relays of messages reported
as submitted which no evaluated renounce has taken back since.

### GeoIpCache

Times are ages: `age` of the map, `elapsed` for `Date.now() -
lastResponseTimestamp`. The `Date` header may be `Skew` off and may be missing
(`None`: the code then has `NaN`, and `undefined` before the first answer;
comparing either with the TTL is false). `Cap` is an age beyond
which nothing changes. `Refresh` and `Fresh` are the two outcomes of
`cacheCheck`, `Answer` and `Fail` those of the request of a boot or a check, and
`Use` is what `fetch-relays` looks up afterwards. The geometry of cells is left out.

### TagCodec and DataItems

`LongBytes` and `ReadLong` are `writeLong` and `readLong` with their two branches
each: small numbers in 32-bit arithmetic (`Wrap`), others in doubles, which are
exact in the range a length may have. The writer's buffer silently drops what
does not fit (`Put`), and `ToBuffer` notices. A string is a record of its UTF-8
bytes and the number of its UTF-16 units, because the loop for short strings counts
to the one and indexes by the other (`Garbage` is what it writes past the string,
which the next write covers). A loop is a function of the number of its turns:
`Rest` is what repeated division leaves of a number, `Number` what repeated
multiplication makes of its digits. `Create`, `Refuse`, `Sign` and `MakeBundle` are `createData` with
its exceptions, `DataItem.sign` and `bundleAndSignData`; the readers are operators,
at offsets each of which the code computes apart. Hashes and signatures are
external: `Signature(k)` is what the signer gives for the k-th item and stands for
the fields it was made of, and `verify` compares what it reads with these. The
counts that a header stores fit their bytes (`Fits`, the check with which
`longToNByteArray` begins; all are assumptions on sizes).

## Runs

| Run | Checks | Instance |
| --- | --- | --- |
| `rounds` | `TypeOK`, `CertificatesCarryListedAddress`, `RoundsInv`, `RelaysKeptUntilPersisted`, `UploadsBounded`, `SubmitsOnlyUnregistered` | 2 rounds and 1 double, 1 relay without hardware, 2 addresses, 1 lost worker, no recoveries, 1 copy of an unanswered message |
| `upload` | `FlawlessRoundRegisters`, `UploadsBounded`, `FlawlessRoundPublishes`, `RoundsEnd` under `FairSpec` | 1 round, 2 relays (1 with hardware), pages and chunks of 1, 2 recoveries, 1 lost worker (without a double), 1 leader boot |
| `recovery`, `overlap` | violated, see below | 1 or 2 rounds, 1 relay |
| `election` | `TypeOK`, `LeaderHoldsLock`, `SplitBrainNeedsExpiry`, `OneEnqueuer`, `ElectionInv`, `ImplementsLeadership`, `LeaderElected` under `FairSpec` | 2 instances, 2 sessions, 1 death or shutdown, 1 expiry, 1 failed request |
| `takeover` | violated, see below | 2 instances, 3 sessions, 1 death |
| `scheduling` | `TypeOK`, `SecondChainNeedsRace`, `ChainLostOnlyByFailure`, `RoundsRecur` under `FairSpec` | 2 instances, IDs for 2 validate jobs and 1 verify job at a time, with and without `DO_CLEAN`, 1 death or 1 failed request |
| `hardware` | `TypeOK`, `OnlyIncompleteInfoBlocks`, `ImplementsLedger` | 2 verifiers, 2 rounds, 2 relays that list another device or none each time, 2 devices (1 known), proofs of all kinds, capital letters, missing values |
| `devices` | violated, see below | 1 verifier, 1 round, 2 relays |
| `messages` | `TypeOK`, `RepeatedOnlyIfUnknown`, `ToldOnce`, `ImplementsSubmission`, `EveryRoundEnds` under `FairSpec` | 2 relays, chunks of 1, 2 attempts, 2 starts of the handler, 5 messages; any request fails, any reply is lost, any registered relay is renounced |
| `geo` | `TypeOK`, `LookupsFresh`, `OneRequest`, `MapRefreshed` under `FairSpec` | TTL 3, dates 1 off or missing, any number of failures and restarts |
| `items` | `TypeOK`, `ItemReadsBack`, `ItemVerifies`, `RefusedOnlyIfTooLong`, `BundleReadsBack` | bytes of 3 bits, groups of 2, 32-bit range of 5 bits, buffer of 16, 1 or 2 tags, up to 2 items |

Why these bounds:

- *Pipeline.* Two rounds are needed for a round to meet another one's documents and
  messages; only the running round and its predecessor's leftovers meet. Two addresses
  let a contact change between rounds. One lost worker makes a job run twice and is
  enough for a double, which then meets the jobs of its round and of the next one;
  the bound is on all of a behaviour. `upload` has the leader boot, which leaves an
  orphan, and the recoveries: the code's three become two, the first and the last
  one. Two relays of one round, in pages of one, give every loop another iteration and
  a page that is empty of finds. Banned relays, more copies of a message, more than one
  boot or lost worker, and several relays over several rounds are left to the
  proofs, which bound none of these.
- *Election.* Two sessions for two instances: one may be lost and the other
  instance takes over. More instances, sessions and faults are the proofs' part.
- *Scheduling.* Two validate jobs are one more than a chain needs, so a second
  chain can appear; with one verify job a check can be blocked. A death or
  a failed request reaches every step; both in one behaviour are left to the
  proofs, which hold for any bound.
- *Hardware.* Two rounds run at once or in turn: a record of the first is there when
  the second looks the device up, is lost before it registers anything, or belongs
  to a relay that lists another device by then.
- *Messages.* Two chunks let the first fail and the second succeed, two attempts
  let a message be repeated and its attempts end, two starts let a second round
  read a registry that lags behind the first one's messages. Five messages are both
  relays submitted, one of them renounced, submitted again and repeated.
- *GeoIP.* The TTL is longer than twice the skew, so that a date that is off still
  leaves fresh and old apart. Nothing else is bounded: ages are capped where they
  make no difference.
- *Items.* The sizes are scaled down so that short strings reach each branch: both
  ranges of integers when written and when read, both ways to write a string,
  characters with fewer units than bytes, a buffer that is filled exactly and one
  that is one byte short, parts whose bytes look like flags.

Deadlock is not checked: when all rounds are over, or all instances are up and
nothing fails, or the bound on items or starts is reached, the system rests.
`MCSymmetry` and `Interchangeable` are used in runs without liveness only.

Fairness:

- `RelayPipeline!FairSpec`: some worker takes a queued job and a handler's calls
  return (weak fairness of `Handle(r)` per round); workers have concurrency 1, but
  a queue serves its jobs in order and every handler ends. Triggers, lost
  workers, boots and operators get none.
- `LeaderElection!FairSpec`: the steps of a bootstrap, of the watch and of arriving
  answers happen, Consul answers, orphaned sessions expire and the lock-delay
  ends; no fault and no foreign write is assumed. `LeaderElected` is about
  behaviours in which no process dies and no session expires; a request may fail.
- `TaskScheduling!FairSpec`: requests to Redis return, an hour passes, BullMQ finds
  stalled jobs, the orchestrator restarts a dead process. Not assumed is that a
  round's children end (`ChildrenDone`), nor who leads.
- `RegistryMessages!FairSpec`: requests return, with success or not, and AO
  evaluates each message some day.
- `GeoIpCache!FairSpec`: time passes, rounds come, and a request that is made again
  and again does not fail each time (strong fairness, the one assumption on an
  external service).

### Where code and documents differ

- `recovery`: `persistVerification` empties the collection also when the stats
  upload failed, so the recovery job throws in `enrichVerificationResults`
  before it uploads anything. The README promises three retries.
- `overlap`: after a leader's boot the old instance's `verify-relays` may still
  run while the first round of the new leader resets `any1_address` to `''`; the
  old handler then certifies an empty address.
- `takeover`: the watch sends one acquire per change of the key, which
  lock-delay denies. Without a write to another key, nobody leads any more.
- `devices`: two relays of one round with the same ATEC serial both become
  hardware relays, since the lookup asks whether the registry *snapshot* has the
  relay of the earlier record. The same follows when a record's serial has
  capital letters: it is looked up in lower case and never found.

More divergences are in the models without a run of their own:

- An instance whose session has expired goes on believing it leads
  (`SplitBrainNeedsExpiry` names it), and one that cannot create a session when it
  boots is undecided for good instead of leading alone (`SessionFails`).
- If the reply to a granted acquire is lost, the holder does not know that it leads and
  asks only when the key changes, which it does not while it renews its session: nobody
  starts the pipeline (the last disjunct of `LeaderElected`).
- `verify` and the persisting jobs do not await the jobs they add, so a worker lost in
  between gives a round a second chain of jobs (`Double`): each may upload and record
  the round's stats, and each is bounded on its own only (`UploadsBounded`).
- A relay without an ATEC serial, or without a value the signature check or the
  record needs, makes `verify-relays` throw: no relay of the round is submitted, and
  as long as that relay is listed no later one is either
  (`OnlyIncompleteInfoBlocks`).
- `results.concat(...)` in `verifyRelays` has its value dropped, so the relays a round
  submits are in no result, log or stats (`FinishVerify`).
- "Only the elected cluster leader enqueues and processes the pipeline"
  (`src/README.md:22-24`): every instance runs workers, leader or not, so the models
  let any of them take a job.
- The chain of rounds, "re-queued on a 1-hour interval" (`src/README.md:22`), stops
  when a validate job counts a verify job that waits: it queues no successor and
  nobody else does (`blocked`).
- The GeoIP map is never asked for again in a process whose boot request failed
  or whose last answer had no date (`Expired` is then false for good), where `src/README.md:36` has it
  fetched and cached with a TTL.
- `Bundle.get(id)` reads the bytes after the item it names, since
  `Bundle.ts:106` adds its size before it compares (`getByIndex`, lines 27-30, does
  it the other way round). It has no caller.
- A `verify-relays` that runs before `onApplicationBootstrap` has created the signer
  loses all its chunks and ends as a success without results (`NoSigner`).

## Theorems

Proved by TLAPS for every value of the constants that meets the named
assumptions of the modules.

`RelayPipelineProofs`:

- `TypeCorrect`: `Spec => []TypeOK`. `TypeOK` alone is not inductive: a loop
  needs its fingerprints to be defined (`null` is passed on after a failed
  validation) and `retriesLeft - 1` needs a recovery job past its first line to
  have retries left. `TypeInv` adds both (`InputsDefined`).
- `CertificatesCorrect`, `RelaysKept` and `PipelineInvariant`:
  `[]CertificatesCarryListedAddress`, `[]RelaysKeptUntilPersisted` and
  `[]PipelineInv`, of every round that is not in `overlapped`; that the exception is
  needed is what `overlap` shows. The inductive invariant `PipelineInv` says for
  each place of each handler what the round knows of the collection: after
  `fetch-relays` the documents are the ones it listed (`Holds`), after
  `validate-relays` they carry the listed address (`Stamped`), `pending` updates
  are addresses of this listing, and nothing is in `toAdd` before `verify-relays`.
  `Alone` says that while a handler runs whose round has met no other one, no other
  handler runs, which is why the others' steps cannot disturb it. There is one step
  lemma per job; frame lemmas say that resting rounds keep what they know
  (`RestingKeeps`, `OthersKeep`), `TriggerInv`, `DoubleInv` and `BootInv` that the
  history grows whenever two rounds come to meet.

`RelayRoundsProofs`:

- `UploadsAreBounded`: `[]UploadsBounded`. `UploadsInv` counts for each place of the
  two persisting jobs how many attempts and uploads were possible before it.
  `OriginsKnown` says of each double which lost worker it comes from, and that no other
  one does.
- `SubmissionsNew`: `SubmitsOnlyUnregistered`, from `RegistryUnchanged`: what the
  round did not find in the registry is still not there when it is submitted, or was
  in a message on its way at the time, and no other message with it is.
- `RoundsInvariant`, and from it `FlawlessRegisters` and `FlawlessPublishes`:
  `RoundsInv` follows a relay that is due (`Due`) through a round in which no call
  fails: it is in the collection after the fetch, in a page still to come or
  stamped, in a page to classify or in `toAdd`, in a chunk to come or accepted
  (`NoneLost`, `Known`), and follows the upload through persisting
  (`PublishedOnce`). What a finished round has achieved (`Accomplished`) no later
  boot or round undoes.

None of these assumes anything of `RoundsFitInterval`, `MaxBoots` or the other
bounds.

`LeaderElectionProofs`: `ElectionTypeCorrect`, and from the inductive invariant
`ElectionInv` (`ElectionInvariant`) the theorems `LeaderLocked`,
`SplitBrainExplained` and `StartsOnce`. The invariant adds to `LeaderHoldsLock`
that sessions belong to one process each and are never reused and that the
holder is a valid session (`SessionsKnown`), and that without losses every
session has a process and whoever queued the first job still holds the key
(`QuietElection`). No assumption on numbers of instances or faults is made.
`LeadershipImplemented` is the refinement of `Leadership`. By `SessionsKnown` a
session belongs to one instance and the holder is open, so that a grant reaches the
instance whose session it is, and nobody else leads with that session (`Granting`);
hearing an answer, in whatever order answers come, only repeats or ends a lease
(`Hearing`), and requests and the watch are stutters (`NothingMoves`).

`HardwareVerificationProofs`: `HardwareTypeCorrect`, `IncompleteInfoBlocks` (the
action property `OnlyIncompleteInfoBlocks`) and `LedgerImplemented` (the refinement),
for any `hardware_info` a relay may list in any round. Types need the invariant: a
record has a serial only because the relay being proven lists one (`AtRelay`). `Backed`
says that a relay that is flagged, or proven in a round that may submit it, has left
a record before. No bound on rounds, relays or verifiers is assumed.

`TaskSchedulingProofs`: `SchedulingTypeCorrect`; `ChainsRaceOnly`
(`[]SecondChainNeedsRace`) and `ChainGoesOn` (`[]ChainLostOnlyByFailure`), for any
number of instances, jobs, boots, deaths and errors. The first needs what a boot
check *knows* of the queue after each of its three counts (`Knows`), with what ties
workers to their jobs (`WorkersOK`); a step that would make such knowledge false
is a race by definition, so the theorem says that the histories name them all. The
second (`ChainKept`) says that a handler which will queue no successor (`Passed`)
leaves the chain to somebody who has it (`Chain`), and the same of a boot check;
it needs no assumption on races.

`RegistryMessagesProofs`: `MessagesTypeCorrect`, `RepeatsExplained`,
`ReportsHold` and `SubmissionImplemented` (the refinement), from the invariant
`MessagesInv`: messages are evaluated in order (`InOrder`), a result that was fetched
is there and a good one has been reported (`FetchedKnown`), what a message has
registered is there until a later one renounces it (`RegisteredKnown`), and the
chunk being sent meets neither the reported relays nor the chunks to come
(`ChunkApart`). The number of relays, attempts, restarts and renounces is free.

`GeoIpCacheProofs`: `GeoTypeCorrect`, `LookupsAreFresh` and `RequestsApart`, from an
invariant that relates the age of the map to its
timestamp (`DatesTell`: it is older by the skew at most, unless capped) and says
that the boot's request waits only while there is no timestamp and a check's only
while there is one (`RequestsTell`).

`DataItemsProofs`: `ItemsTypeCorrect`, `ItemsReadBack`, `ItemsVerify`,
`RefusalsRight` and `BundlesReadBack`, for strings of any bytes and length, any
number of tags, and items of any size. They assume `CodecAssumption` (four groups
of seven bits fit the range of integers) and `ItemAssumption` (the lengths of keys,
signatures and IDs, and that counts and sizes fit their fields), both of which the
real sizes meet and TLC evaluates for the small ones. The argument, from below:

- *Induction.* The library's induction takes an operator and cannot be used, so
  `Induction` states it for a set, and `LoopExists` that a recursive function of the
  number of turns satisfies its equation. `DigitsBack` is then that the digits taken
  from a number by `Rest` give the number again.
- *Longs.* `LongReads`: wherever a long is in a buffer (`Holds`), `readLong` finds it
  and stops behind it, whichever of the two arithmetics wrote it and whichever reads it.
- *Writer.* `Writes(tap, next, s)` says that going from `tap` to `next` writes the
  bytes `s` *if they fit*, and touches nothing before `tap.pos`: what `Garbage` leaves
  past a short string is behind the position, where the next write covers it or the
  final copy cuts it off. `WriterRuns` follows the loop over tags,
  `SerializedIsPlaced` says where each tag is in the result.
- *Reader.* `FirstBlock` and `TagsReadBack` follow `readTags` along those places.
- *Items.* `Laid` places each part of an item at the offset the writer gave it;
  `LaidReads` that the reader's offsets are those, with any combination of parts and
  whatever bytes they have. `SignIsLaid`: a signature that is put in changes no other part.
- *Bundles.* `JoinedHolds` finds each piece of a concatenation at the sum of the
  lengths before it, which is what `getItems` adds up (`BundleReads`).

The invariant `ItemsInv` (`ItemsInvariant`) says of the item at hand which options it
was made of (`AtHand`), of signed items that they are `Laid` and what was signed
(`ItemsLaid`), and which items the bundle has.

Model-checked only is liveness, which needs fairness: `RoundsEnd`, `LeaderElected`,
`RoundsRecur`, `EveryRoundEnds` and `MapRefreshed`. Every other property of a passing
run is a theorem.

## Not modelled

- Vault client: HTTP reads of issuers for the device certificate check that is
  switched off. Bundling: one upload call, which `RelayPipeline` lets succeed or
  fail. EVM providers and health endpoint: no state that changes.
- `ResilientWebsocketProvider`: nothing constructs it. Which timers and events meet
  depends on how it is used, and the source does not say.
- The forking code of `AppThreadsService` is unreachable from `main.ts`.
- `addRegistrationCredit` has no caller; the import of known devices is a
  migration.
- Certificate checks, signature algorithms, hashes (`deepHash`, IDs) and keys are
  external: they hold or not by choice. `Bundle.get(id)` and the JSON forms of
  items have no caller.
- The values of the stats and of the hex map, how an address is cut out of a
  contact line (`extractAtorKey`), configuration and logging.

## Plan

Done: the pipeline with its proofs, the election, hardware verification with its
abstract ledger, the chain of rounds, messaging with its abstract submission, the
GeoIP cache, data items, and proofs of every property but liveness.

Left, in this order:

1. `HardwareVerification` composed with `RelayPipeline`, where it would replace the
   free choice in `Verdict`, and `LeaderElection` with `TaskScheduling`, to say which
   of the boots the scheduler allows the election permits.
2. An abstract round (listed, validated, registered, published) that
   `RelayPipeline` refines when nothing fails.
3. The stats as pure operators against a reference definition.
