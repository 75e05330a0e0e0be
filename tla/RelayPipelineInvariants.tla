----------------------- MODULE RelayPipelineInvariants -----------------------
(***************************************************************************)
(* The inductive invariants behind the safety properties of RelayPipeline: *)
(* what each job knows of the transient collection while it runs.          *)
(***************************************************************************)
EXTENDS RelayPipeline

\* The fingerprints a job loops over are defined, and a recovery job that is
\* past its first line has retries left: without these two facts TypeOK is
\* not inductive.
InputsDefined ==
    \A r \in Rounds :
        /\ job[r] = "idle" => pc[r] = "waiting"
        /\ job[r] \in {"validate-relays", "verify-relays"}
              => fps[r] \in SUBSET Relays
        /\ pc[r] \in {"starting", "added"} /\ job[r] \notin PersistJobs
              => job[r] = "verify" /\ fps[r] \in (SUBSET Relays) \ {None}
        /\ At(r, "fetch-relays", "upserting")
              => todo[r] \subseteq Matching(listing[r])
        /\ (job[r] = "recover-persist-verification" /\ pc[r] # "waiting")
              => retries[r] > 0

TypeInv == TypeOK /\ InputsDefined

\* A round that shares the collection with another one is on record.
Alone ==
    \A q, r \in Rounds : Live(q) /\ Live(r) /\ q # r => q \in overlapped

\* The document of f is the one round r has stored.
Holds(r, f) == store[f] # None /\ store[f].contact = listing[r][f]

\* The document of f has the address of round r's listing, a usable one.
Stamped(r, f) ==
    /\ store[f] # None
    /\ store[f].addr = listing[r][f]
    /\ f \in Matching(listing[r])
    /\ listing[r][f] # Blank

Fetching(r) ==
    At(r, "fetch-relays", "upserting") =>
        \A f \in Matching(listing[r]) \ todo[r] : Holds(r, f)

Validating(r) ==
    job[r] = "validate-relays" =>
        /\ \A f \in fps[r] : Holds(r, f) /\ f \in Matching(listing[r])
        /\ pc[r] # "waiting" =>
             /\ todo[r] \cup valid[r] \subseteq fps[r]
             /\ \A f \in valid[r] :
                  \/ Stamped(r, f)
                  \/ pc[r] = "writing" /\ pending[r][f] = listing[r][f]
                     /\ listing[r][f] # Blank
        /\ pc[r] = "writing" =>
             \A f \in Relays : pending[r][f] # None =>
                 f \in fps[r] /\ pending[r][f] = listing[r][f]
                 /\ listing[r][f] # Blank

Verifying(r) ==
    /\ (job[r] = "verify" /\ fps[r] # None) => \A f \in fps[r] : Stamped(r, f)
    /\ job[r] = "verify-relays" =>
         /\ \A f \in fps[r] : Stamped(r, f)
         /\ pc[r] = "classifying" => todo[r] \subseteq fps[r]

\* The upload of the job at hand is behind it.
Uploaded(r) ==
    \/ pc[r] \in {"recording", "cleaning", "settling"}
    \/ pc[r] = "added" /\ job[r] \in PersistJobs

Persisting(r) ==
    /\ Uploaded(r) => attempts[r] > 0
    /\ (job[r] \in {"confirm-verification"} \cup PersistJobs
        /\ attempts[r] = 0) => \A f \in fps[r] : store[f] # None

\* Nothing is certified before verify-relays, and then only what is listed.
Certifying(r) ==
    /\ job[r] \in {"idle", "fetch-relays", "validate-relays", "verify"}
          => toAdd[r] = Nothing
    /\ CertificatesListed(r)

\* A handler is only at places of its own job.
PlaceOf(r) ==
    /\ pc[r] = "upserting" => job[r] = "fetch-relays"
    /\ pc[r] \in {"validating", "writing"} => job[r] = "validate-relays"
    /\ pc[r] \in {"classifying", "submitting"} => job[r] = "verify-relays"
    /\ pc[r] = "starting" => job[r] = "verify"
    /\ pc[r] \in {"uploading", "recording", "cleaning", "settling"}
          => job[r] \in PersistJobs
    /\ pc[r] = "added" => job[r] \in {"verify"} \cup PersistJobs

RoundInv(r) ==
    /\ PlaceOf(r)
    /\ Fetching(r)
    /\ Validating(r)
    /\ Verifying(r)
    /\ Persisting(r)
    /\ Certifying(r)

\* What a handler knows it knows only while its round runs alone.
PipelineInv == TypeInv /\ Alone /\ \A r \in Rounds \ overlapped : RoundInv(r)

-----------------------------------------------------------------------------

\* Each persist job uploads once, and once more after a lost worker; each
\* recovery job is added with one retry less and after a failed upload.
UploadsCounted(r) ==
    /\ job[r] \notin PersistJobs \cup {"over"} => attempts[r] = 0 /\ uploads[r] = 0
    /\ job[r] = "persist-verification" =>
         attempts[r] <= interruptions[r] + IF Uploaded(r) THEN 1 ELSE 0
    /\ job[r] = "recover-persist-verification" =>
         attempts[r] <= interruptions[r] + 1 + MaxRetries - retries[r]
                        + IF Uploaded(r) THEN 1 ELSE 0
    /\ (job[r] \in PersistJobs /\ (~Uploaded(r) \/ ~statsTx[r])) =>
         uploads[r] <= interruptions[r]
    /\ (pc[r] = "added" /\ job[r] \in PersistJobs) => ~statsTx[r]
    /\ attempts[r] <= 1 + MaxRetries + interruptions[r]
    /\ uploads[r] <= 1 + interruptions[r]

\* Each chain of jobs has an origin of its own: itself, or a worker lost before.
OriginsKnown ==
    /\ \A r \in Rounds : origin[r][2] <= interruptions[origin[r][1]]
    /\ \A q, r \in Rounds : q # r => origin[q] # origin[r]

UploadsInv == TypeInv /\ OriginsKnown /\ \A r \in Rounds : UploadsCounted(r)

\* What verify-relays has not found in the registry is still not there, or in
\* a message that state lacked: it is the only one to send relays.
RegistryUnchanged(r) ==
    /\ At(r, "verify-relays", "classifying") =>
         /\ \A f \in Relays :
              snapshot[r][f] = "none" \/ toAdd[r][f] # None =>
                registry[f] = "none" \/ f \in lagging[r]
         /\ InFlight \subseteq lagging[r]
    /\ At(r, "verify-relays", "submitting") =>
         /\ \A f \in todo[r] : registry[f] = "none" \/ f \in lagging[r]
         /\ todo[r] \cap InFlight \subseteq lagging[r]

\* The relays a round without faults has to offer to the registry.
Due(r) == {f \in Relays \ (Banned \cup HwRelays) : listing[r][f] \in Addresses}

Known(r, f) == snapshot[r][f] # "none"

\* None of them is lost on the way from job to job.
NoneLost(r) ==
    /\ job[r] \in {"validate-relays", "verify", "verify-relays"} =>
         Due(r) \subseteq fps[r]
    /\ (job[r] = "validate-relays" /\ pc[r] # "waiting") =>
         Due(r) \subseteq todo[r] \cup valid[r]
    /\ At(r, "verify-relays", "classifying") =>
         \A f \in Due(r) : f \in todo[r] \/ Known(r, f) \/ toAdd[r][f] # None
    /\ At(r, "verify-relays", "submitting") =>
         \A f \in Due(r) : f \in todo[r] \/ Known(r, f) \/ f \in accepted[r]
    /\ job[r] \in {"confirm-verification", "over"} \cup PersistJobs =>
         \A f \in Due(r) : Known(r, f) \/ f \in accepted[r]

\* Its persist job uploads and records once, of relays that are there.
PublishedOnce(r) ==
    /\ job[r] # "recover-persist-verification"
    /\ (job[r] = "verify-relays" /\ pc[r] # "waiting")
         \/ job[r] \in {"confirm-verification", "persist-verification"} =>
         Keys(results[r]) \subseteq fps[r]
    /\ job[r] # "over" =>
         /\ attempts[r] = IF Uploaded(r) THEN 1 ELSE 0
         /\ uploads[r] = IF Uploaded(r) THEN 1 ELSE 0
         /\ records[r] = IF pc[r] \in {"cleaning", "settling"} THEN 1 ELSE 0
         /\ Uploaded(r) => statsTx[r]
    /\ pc[r] = "added" => job[r] \notin PersistJobs
    /\ (job[r] = "over" /\ Keys(results[r]) # {}) => uploads[r] = 1 /\ records[r] = 1

RoundsInv ==
    /\ PipelineInv
    /\ \A r \in Rounds \ overlapped :
         /\ RegistryUnchanged(r)
         /\ Flawless(r) => ~orphan[r] /\ NoneLost(r) /\ PublishedOnce(r)

=============================================================================
