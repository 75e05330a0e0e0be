-------------------------- MODULE RegistryMessages --------------------------
(***************************************************************************)
(* How verify-relays talks to the operator registry process on AO: it      *)
(* reads the state with a dry run, then sends the relays the state lacks   *)
(* in messages and fetches the result of each.  A request that fails with  *)
(* '500' in its text is repeated, after a message was accepted too.        *)
(*                                                                         *)
(* Operators send their messages to the same process: one that renounces a *)
(* relay puts it among those a later round submits.                        *)
(*                                                                         *)
(* One handler runs at a time (RelayPipeline says when two do).            *)
(***************************************************************************)
EXTENDS Naturals, Sequences, FiniteSets

CONSTANTS
    Relays,       \* fingerprints that pass the checks of every round
    ChunkSize,    \* relays per message (100)
    Retries,      \* attempts of sendAosMessage and sendAosDryRun (3)
    MaxStarts,    \* bound: how often the handler starts, in a new round or again
    MaxMessages   \* bound: messages the process on AO accepts

ASSUME RelaysAssumption == IsFiniteSet(Relays)
ASSUME SizesAssumption ==
    /\ ChunkSize \in Nat \ {0} /\ Retries \in Nat \ {0}
    /\ MaxStarts \in Nat /\ MaxMessages \in Nat

VARIABLES
    pc,         \* where the handler is
    attempts,   \* failed attempts of the request it makes
    todo,       \* relays in the chunks still to come
    chunk,      \* relays in the message it sends, {} between messages
    sent,       \* the message whose result it fetches, or 0
    signer,     \* the process has its signer
    log,        \* messages the process on AO has accepted, with their results
    registered, \* relays the process has as claimable or verified
    fetched,    \* history: messages whose result has been fetched
    told,       \* history: those reported as submitted
    starts      \* how much of the bound is used

handler == <<pc, attempts, todo, chunk, sent>>
process == <<log, registered>>
history == <<fetched, told>>
vars    == <<handler, signer, process, history, starts>>

Messages == [kind   : {"submit", "renounce"},
             relays : SUBSET Relays,
             result : {"pending", "ok", "error"}]

\* The handler makes a call to AO, or waits to make it again.
Places == {"idle", "read", "reread", "pause", "send", "fetch", "resend"}

TypeOK ==
    /\ pc \in Places
    /\ attempts \in 0 .. Retries - 1
    /\ todo \in SUBSET Relays /\ chunk \in SUBSET Relays
    /\ sent \in Nat
    /\ signer \in BOOLEAN
    /\ log \in Seq(Messages)
    /\ registered \in SUBSET Relays
    /\ fetched \in SUBSET DOMAIN log
    /\ told \in SUBSET fetched
    /\ starts \in Nat

Init ==
    /\ pc = "idle" /\ attempts = 0 /\ todo = {} /\ chunk = {} /\ sent = 0
    /\ signer = FALSE
    /\ log = <<>> /\ registered = {}
    /\ fetched = {} /\ told = {}
    /\ starts = 0

-----------------------------------------------------------------------------
(* The registry process and the operators (external)                       *)

\* It handles its messages in the order in which they were accepted.  (A
\* renounce that is an error changes nothing: it stands for no message.)
Evaluate ==
    \E n \in DOMAIN log :
      /\ log[n].result = "pending"
      /\ \A k \in DOMAIN log : k < n => log[k].result # "pending"
      /\ \/ /\ log' = [log EXCEPT ![n].result = "ok"]
            /\ registered' = IF log[n].kind = "submit"
                             THEN registered \cup log[n].relays
                             ELSE registered \ log[n].relays
         \/ /\ log[n].kind = "submit"
            /\ log' = [log EXCEPT ![n].result = "error"]
            /\ UNCHANGED registered
      /\ UNCHANGED <<handler, signer, history, starts>>

\* An operator renounces a relay it has claimed.
Renounce ==
    /\ Len(log) < MaxMessages
    /\ \E f \in registered :
         log' = Append(log, [kind |-> "renounce", relays |-> {f},
                             result |-> "pending"])
    /\ UNCHANGED <<handler, signer, registered, history, starts>>

-----------------------------------------------------------------------------
(* sendAosDryRun, sendAosMessage                                           *)

\* Mutant: one attempt too many.
BackOffLate(again, gone) ==
    /\ attempts' = IF attempts < Retries THEN attempts + 1 ELSE 0
    /\ pc' = IF attempts < Retries THEN again ELSE gone

\* The sleep after a failed attempt ends: the next attempt, or the last error.
BackOff(again, gone) ==
    /\ attempts' = IF attempts + 1 < Retries THEN attempts + 1 ELSE 0
    /\ pc' = IF attempts + 1 < Retries THEN again ELSE gone

\* A request fails.  With '500' in the message it is made again after a sleep.
RequestFails(sleep, gone) ==
    \/ pc' = sleep /\ UNCHANGED attempts
    \/ pc' = gone /\ attempts' = 0

-----------------------------------------------------------------------------
(* verifyRelays                                                            *)

\* The handler of verify-relays starts.
StartRound ==
    /\ pc = "idle" /\ starts < MaxStarts
    /\ starts' = starts + 1
    /\ pc' = "read" /\ attempts' = 0
    /\ UNCHANGED <<todo, chunk, sent, signer, process, history>>

\* Mutant: relays that are claimable or verified are not left out.
UnregisteredAll == Relays

\* Relays that are neither claimable nor verified.
Unregistered == Relays \ registered

\* View-State answers.
ReadState ==
    /\ pc = "read"
    /\ todo' = Unregistered
    /\ pc' = IF todo' = {} THEN "idle" ELSE "pause"
    /\ attempts' = 0
    /\ UNCHANGED <<chunk, sent, signer, process, history, starts>>

\* It fails, or answers with an error or without a message: the round fails.
ReadFails ==
    /\ pc = "read"
    /\ RequestFails("reread", "idle")
    /\ UNCHANGED <<todo, chunk, sent, signer, process, history, starts>>

\* Mutant: attempts are not counted.
ReadAgainUncounted ==
    /\ pc = "reread"
    /\ pc' = "read"
    /\ UNCHANGED <<attempts, todo, chunk, sent, signer, process, history, starts>>

\* The dry run is made again.
ReadAgain ==
    /\ pc = "reread"
    /\ BackOff("read", "idle")
    /\ UNCHANGED <<todo, chunk, sent, signer, process, history, starts>>

\* 2345 ms have passed and the next chunk is sent.
NextChunk ==
    /\ pc = "pause" /\ signer
    /\ \E c \in SUBSET todo :
         /\ c # {}
         /\ Cardinality(c) = ChunkSize \/ (c = todo /\ Cardinality(c) < ChunkSize)
         /\ chunk' = c /\ todo' = todo \ c
    /\ pc' = "send" /\ attempts' = 0
    /\ UNCHANGED <<sent, signer, process, history, starts>>

\* A worker may be faster than onApplicationBootstrap: without a signer
\* adminSubmitOperatorCertificates throws and the other chunks are dropped.
NoSigner ==
    /\ pc = "pause" /\ ~signer
    /\ pc' = "idle" /\ todo' = {}
    /\ UNCHANGED <<attempts, chunk, sent, signer, process, history, starts>>

\* Where the loop goes after a chunk, submitted or not.
AfterChunk == IF todo = {} THEN "idle" ELSE "pause"

\* The chunk goes out of scope with its iteration of the loop.
LeaveChunk == chunk' = IF pc' \in {"send", "fetch", "resend"} THEN chunk ELSE {}

\* AO accepts the message.
Send ==
    /\ pc = "send" /\ Len(log) < MaxMessages
    /\ log' = Append(log, [kind |-> "submit", relays |-> chunk,
                           result |-> "pending"])
    /\ \/ pc' = "fetch" /\ sent' = Len(log') /\ UNCHANGED attempts
       \/ /\ RequestFails("resend", AfterChunk)   \* ... and the reply is lost
          /\ UNCHANGED sent
    /\ LeaveChunk
    /\ UNCHANGED <<todo, signer, registered, history, starts>>

\* AO does not accept it.
SendFails ==
    /\ pc = "send"
    /\ RequestFails("resend", AfterChunk) /\ LeaveChunk
    /\ UNCHANGED <<todo, sent, signer, process, history, starts>>

\* Mutant: the error of the process is not looked at.
SuccessAlways(result) == TRUE

\* adminSubmitOperatorCertificates: success is an answer without an error.
Success(result) == result = "ok"

\* The result of the message just sent.
Fetch ==
    /\ pc = "fetch"
    /\ log[sent].result # "pending"
    /\ fetched' = fetched \cup {sent}
    /\ told' = IF Success(log[sent].result) THEN told \cup {sent} ELSE told
    /\ pc' = AfterChunk /\ attempts' = 0 /\ sent' = 0 /\ LeaveChunk
    /\ UNCHANGED <<todo, signer, process, starts>>

FetchFails ==
    /\ pc = "fetch"
    /\ RequestFails("resend", AfterChunk) /\ sent' = 0 /\ LeaveChunk
    /\ UNCHANGED <<todo, signer, process, history, starts>>

\* The message is sent once more, also when it had been accepted.
SendAgain ==
    /\ pc = "resend"
    /\ BackOff("send", AfterChunk) /\ LeaveChunk
    /\ UNCHANGED <<todo, sent, signer, process, history, starts>>

-----------------------------------------------------------------------------
(* The process of the controller                                           *)

\* onApplicationBootstrap.
CreateSigner ==
    /\ ~signer /\ signer' = TRUE
    /\ UNCHANGED <<handler, process, history, starts>>

\* It dies and is started again; a job its worker had is run again.
Restart ==
    /\ signer' = FALSE
    /\ \/ pc = "idle" /\ UNCHANGED <<pc, starts>>
       \/ pc # "idle" /\ pc' = "read" /\ starts < MaxStarts /\ starts' = starts + 1
    /\ attempts' = 0 /\ todo' = {} /\ chunk' = {} /\ sent' = 0
    /\ UNCHANGED <<process, history>>

-----------------------------------------------------------------------------

\* The handler has a way to go on.
Step ==
    \/ ReadState \/ ReadFails \/ ReadAgain \/ NextChunk \/ NoSigner
    \/ Send \/ SendFails \/ Fetch \/ FetchFails \/ SendAgain

Next == StartRound \/ Step \/ Evaluate \/ Renounce \/ CreateSigner \/ Restart

Spec == Init /\ [][Next]_vars

\* Requests return, and AO gets to every message.  Nothing keeps requests from
\* failing each time.
FairSpec == Spec /\ WF_vars(Step) /\ WF_vars(Evaluate)

-----------------------------------------------------------------------------
(* Properties                                                              *)

\* The process has evaluated message n, by which an operator renounces relay f.
Renounces(n, f) ==
    log[n].kind = "renounce" /\ f \in log[n].relays /\ log[n].result = "ok"

\* Relays reported as submitted and not renounced since.
Told == {f \in Relays : \E n \in told :
            /\ f \in log[n].relays
            /\ \A k \in DOMAIN log : k > n => ~Renounces(k, f)}

\* A relay is submitted twice only if the result of the first message never came
\* (its reply or the fetch of its result failed, or the process died) or was an
\* error, or its operator has renounced it between the two.  send-aos-message.ts
\* repeats a message without asking whether it was accepted; what keeps other
\* repetitions out is that the result is awaited before the registry is read
\* again, and that the process evaluates messages in order.
RepeatedOnlyIfUnknown ==
    \A m, n \in DOMAIN log :
      (m < n /\ log[m].kind = "submit" /\ log[n].kind = "submit") =>
        \A f \in log[m].relays \cap log[n].relays :
          \/ m \notin fetched
          \/ log[m].result = "error"
          \/ \E k \in m + 1 .. n - 1 : Renounces(k, f)

\* What verify-relays has reported as submitted stays in the registry until its
\* operator renounces it, whatever was sent twice, and until then it is in no
\* message again, although a round reads the registry long before it sends.
ToldOnce ==
    /\ Told \subseteq registered
    /\ chunk \cap Told = {}

\* The messages implement submission as Submission has it.
Abstract == INSTANCE Submission WITH told <- Told
ImplementsSubmission == Abstract!Spec

\* A round ends although every request may fail: the attempts are bounded.
EveryRoundEnds == []<>(pc = "idle")

=============================================================================
