----------------------- MODULE RegistryMessagesProofs -----------------------
(***************************************************************************)
(* Theorems about RegistryMessages: what is sent twice, what is reported,  *)
(* and that the messages implement Submission, for any relays, chunk size, *)
(* number of attempts, restarts and renounces.                             *)
(***************************************************************************)
EXTENDS RegistryMessages, TLAPS

\* Messages are evaluated in the order in which they were accepted.
InOrder ==
    \A m, n \in DOMAIN log :
      (m < n /\ log[m].result = "pending") => log[n].result = "pending"

\* The chunk being sent is neither reported nor still to come.
ChunkApart ==
    /\ todo \cap Told = {}
    /\ chunk \cap (todo \cup Told) = {}
    /\ pc \notin {"send", "fetch", "resend"} => chunk = {}

\* The message whose result is fetched is the last one of the controller.
FetchesLast ==
    pc = "fetch" => /\ sent \in DOMAIN log
                    /\ log[sent].kind = "submit" /\ log[sent].relays = chunk
                    /\ \A n \in DOMAIN log : n > sent => log[n].kind # "submit"

\* A result that was fetched is there, and the good ones were reported.
FetchedKnown ==
    \A m \in fetched : /\ log[m].result # "pending"
                       /\ log[m].result = "ok" <=> m \in told

\* What a message has registered is there until an operator renounces it.
RegisteredKnown ==
    \A m \in DOMAIN log :
      (log[m].kind = "submit" /\ log[m].result = "ok") =>
        \A f \in log[m].relays :
          f \in registered \/ \E k \in DOMAIN log : k > m /\ Renounces(k, f)

\* What the invariant says beyond the types.
Content ==
    /\ InOrder
    /\ ChunkApart
    /\ FetchesLast
    /\ FetchedKnown
    /\ RegisteredKnown
    /\ Told \subseteq registered
    /\ RepeatedOnlyIfUnknown

MessagesInv == TypeOK /\ Content

-----------------------------------------------------------------------------
(* The log                                                                 *)

\* A message that was just accepted has no effect yet.
LEMMA Accepted ==
    ASSUME TypeOK, NEW e \in Messages, e.result = "pending",
           log' = Append(log, e), UNCHANGED <<registered, history>>
    PROVE  /\ log' \in Seq(Messages) /\ Len(log') = Len(log) + 1
           /\ log'[Len(log')] = e
           /\ DOMAIN log' = DOMAIN log \cup {Len(log')}
           /\ \A k \in DOMAIN log : k < Len(log') /\ log'[k] = log[k]
           /\ Told' = Told
<1>1. log \in Seq(Messages) /\ told \subseteq DOMAIN log
  BY DEF TypeOK
<1>2. /\ log' \in Seq(Messages) /\ Len(log') = Len(log) + 1
      /\ log'[Len(log')] = e
      /\ DOMAIN log' = DOMAIN log \cup {Len(log')}
      /\ \A k \in DOMAIN log : k < Len(log') /\ log'[k] = log[k]
  BY <1>1
<1>3. \A k \in DOMAIN log' : \A f : Renounces(k, f)' <=> k \in DOMAIN log /\ Renounces(k, f)
  BY <1>2 DEF Renounces
<1>4. Told' = Told
  BY <1>1, <1>2, <1>3 DEF Told, history
<1>5. QED BY <1>2, <1>4

\* The process has evaluated a message, and nothing else of the log has changed.
LEMMA Evaluated ==
    ASSUME TypeOK, Evaluate
    PROVE  \E n \in DOMAIN log, r \in {"ok", "error"} :
             /\ log[n].result = "pending"
             /\ \A k \in DOMAIN log : k < n => log[k].result # "pending"
             /\ log' \in Seq(Messages) /\ DOMAIN log' = DOMAIN log
             /\ log'[n] = [kind |-> log[n].kind, relays |-> log[n].relays,
                           result |-> r]
             /\ \A k \in DOMAIN log : k # n => log'[k] = log[k]
             /\ registered' = IF r = "error" THEN registered
                              ELSE IF log[n].kind = "submit"
                              THEN registered \cup log[n].relays
                              ELSE registered \ log[n].relays
<1>1. PICK n \in DOMAIN log :
        /\ log[n].result = "pending"
        /\ \A k \in DOMAIN log : k < n => log[k].result # "pending"
        /\ \/ /\ log' = [log EXCEPT ![n].result = "ok"]
              /\ registered' = IF log[n].kind = "submit"
                               THEN registered \cup log[n].relays
                               ELSE registered \ log[n].relays
           \/ /\ log[n].kind = "submit"
              /\ log' = [log EXCEPT ![n].result = "error"]
              /\ UNCHANGED registered
  BY DEF Evaluate
<1>2. PICK r \in {"ok", "error"} :
        /\ log' = [log EXCEPT ![n].result = r]
        /\ registered' = IF r = "error" THEN registered
                         ELSE IF log[n].kind = "submit"
                         THEN registered \cup log[n].relays
                         ELSE registered \ log[n].relays
  BY <1>1
<1>3. log \in Seq(Messages) /\ log[n] \in Messages
  BY DEF TypeOK
<1>4. log'[n] = [kind |-> log[n].kind, relays |-> log[n].relays, result |-> r]
  BY <1>2, <1>3 DEF Messages
<1>5. \A k \in DOMAIN log : k # n => log'[k] = log[k]
  BY <1>2, <1>3
<1>6. log'[n] \in Messages
  BY <1>3, <1>4 DEF Messages
<1>7. log' \in Seq(Messages) /\ DOMAIN log' = DOMAIN log
  BY <1>2, <1>3, <1>5, <1>6
<1>8. QED BY <1>1, <1>2, <1>4, <1>5, <1>7

\* What evaluating a message does to the registry and to the reports that stand:
\* relays are registered, or an operator takes some out of both.
LEMMA EvaluateEffect ==
    ASSUME MessagesInv, Evaluate
    PROVE  \E fs \in SUBSET Relays :
             \/ registered' = registered \cup fs /\ Told' = Told
             \/ registered' = registered \ fs /\ Told' = Told \ fs
<1>1. PICK n \in DOMAIN log, r \in {"ok", "error"} :
        /\ log[n].result = "pending"
        /\ \A k \in DOMAIN log : k < n => log[k].result # "pending"
        /\ log' \in Seq(Messages) /\ DOMAIN log' = DOMAIN log
        /\ log'[n] = [kind |-> log[n].kind, relays |-> log[n].relays, result |-> r]
        /\ \A k \in DOMAIN log : k # n => log'[k] = log[k]
        /\ registered' = IF r = "error" THEN registered
                         ELSE IF log[n].kind = "submit"
                         THEN registered \cup log[n].relays
                         ELSE registered \ log[n].relays
  BY Evaluated DEF MessagesInv
<1>2. /\ log[n].relays \in SUBSET Relays /\ told \subseteq DOMAIN log
      /\ log[n].kind \in {"submit", "renounce"} /\ DOMAIN log \subseteq Nat
  <2>1. log \in Seq(Messages) /\ told \subseteq DOMAIN log
    BY DEF MessagesInv, TypeOK
  <2>2. log[n] \in Messages /\ DOMAIN log \subseteq Nat
    BY <2>1
  <2>3. QED BY <2>1, <2>2 DEF Messages
<1>3. told' = told /\ \A m \in told : log'[m].relays = log[m].relays
  BY <1>1, <1>2 DEF Evaluate, history
<1>4. \A k \in DOMAIN log : \A f :
        Renounces(k, f)' <=> \/ Renounces(k, f)
                             \/ /\ k = n /\ r = "ok" /\ log[n].kind = "renounce"
                                /\ f \in log[n].relays
  BY <1>1 DEF Renounces
<1>5. CASE r = "ok" /\ log[n].kind = "renounce"
  <2>1. \A m \in told : m < n
    <3> SUFFICES ASSUME NEW m \in told PROVE m < n
      OBVIOUS
    <3>1. m \in fetched /\ m \in DOMAIN log
      BY DEF MessagesInv, TypeOK
    <3>2. log[m].result # "pending"
      BY <3>1 DEF MessagesInv, Content, FetchedKnown
    <3>3. ~(n < m) /\ m # n
      BY <1>1, <3>1, <3>2 DEF MessagesInv, Content, InOrder
    <3>4. QED BY <1>2, <3>1, <3>3
  <2>2. \A f \in Relays : f \in Told' <=> f \in Told /\ f \notin log[n].relays
    <3> SUFFICES ASSUME NEW f \in Relays
                 PROVE  f \in Told' <=> f \in Told /\ f \notin log[n].relays
      OBVIOUS
    <3>1. f \in Told' <=> \E m \in told :
             /\ f \in log[m].relays
             /\ \A k \in DOMAIN log : k > m => ~Renounces(k, f)'
      BY <1>1, <1>3 DEF Told
    <3>2. CASE f \in log[n].relays
      <4>1. Renounces(n, f)'
        BY <1>4, <1>5, <3>2
      <4>2. \A m \in told : n > m
        BY <1>2, <2>1
      <4>3. QED BY <3>1, <3>2, <4>1, <4>2
    <3>3. CASE f \notin log[n].relays
      BY <1>4, <3>1, <3>3 DEF Told
    <3>4. QED BY <3>2, <3>3
  <2>3. Told' = Told \ log[n].relays
    BY <2>2 DEF Told
  <2>4. registered' = registered \ log[n].relays
    BY <1>1, <1>5
  <2>5. QED BY <1>2, <2>3, <2>4
<1>6. CASE ~(r = "ok" /\ log[n].kind = "renounce")
  <2>1. Told' = Told
    BY <1>1, <1>3, <1>4, <1>6 DEF Told
  <2>2. registered' = registered \cup {} \/ registered' = registered \cup log[n].relays
    BY <1>1, <1>2, <1>6
  <2>3. QED BY <1>2, <2>1, <2>2
<1>7. QED BY <1>5, <1>6

-----------------------------------------------------------------------------
(* The invariant                                                           *)

\* The initial state satisfies the invariant.
LEMMA MessagesInit == Init => MessagesInv
<1> SUFFICES ASSUME Init PROVE MessagesInv
  OBVIOUS
<1>1. TypeOK
  <2>1. log \in Seq(Messages) /\ fetched \in SUBSET DOMAIN log
    BY DEF Init
  <2>2. attempts \in 0 .. Retries - 1
    BY SizesAssumption DEF Init
  <2>3. QED BY <2>1, <2>2 DEF Init, TypeOK, Places
<1>2. Told = {} /\ DOMAIN log = {}
  BY DEF Init, Told
<1>3. InOrder /\ RegisteredKnown /\ RepeatedOnlyIfUnknown
  BY <1>2 DEF InOrder, RegisteredKnown, RepeatedOnlyIfUnknown
<1>4. ChunkApart /\ FetchesLast /\ FetchedKnown
  BY <1>2 DEF Init, ChunkApart, FetchesLast, FetchedKnown
<1>5. QED BY <1>1, <1>2, <1>3, <1>4 DEF MessagesInv, Content

\* Every step keeps the types.
LEMMA MessagesTypes ==
    ASSUME MessagesInv, [Next]_vars
    PROVE  TypeOK'
<1> USE SizesAssumption DEF handler, process, history
<1>0. TypeOK
  BY DEF MessagesInv
<1>1. CASE UNCHANGED vars
  BY <1>0, <1>1 DEF TypeOK, vars
<1>2. CASE StartRound
  BY <1>0, <1>2 DEF TypeOK, Places, StartRound
<1>3. CASE ReadState
  BY <1>0, <1>3 DEF TypeOK, Places, ReadState, Unregistered
<1>4. CASE ReadFails
  BY <1>0, <1>4 DEF TypeOK, Places, ReadFails, RequestFails
<1>5. CASE ReadAgain
  BY <1>0, <1>5 DEF TypeOK, Places, ReadAgain, BackOff
<1>6. CASE NextChunk
  BY <1>0, <1>6 DEF TypeOK, Places, NextChunk
<1>7. CASE NoSigner
  BY <1>0, <1>7 DEF TypeOK, Places, NoSigner
<1>8. CASE Send
  <2> DEFINE e == [kind |-> "submit", relays |-> chunk, result |-> "pending"]
  <2>1. /\ e \in Messages /\ e.result = "pending" /\ log' = Append(log, e)
        /\ UNCHANGED <<registered, history>>
    BY <1>0, <1>8 DEF Send, TypeOK, Messages
  <2> HIDE DEF e
  <2>2. /\ log' \in Seq(Messages) /\ Len(log') = Len(log) + 1
        /\ DOMAIN log' = DOMAIN log \cup {Len(log')}
    BY <1>0, <2>1, Accepted
  <2>3. fetched \in SUBSET DOMAIN log' /\ Len(log') \in Nat
    BY <1>0, <2>2 DEF TypeOK
  <2>4. pc' \in Places /\ attempts' \in 0 .. Retries - 1 /\ sent' \in Nat
    BY <1>0, <1>8, <2>3 DEF TypeOK, Places, Send, RequestFails, AfterChunk
  <2>5. chunk' \in SUBSET Relays
    BY <1>0, <1>8 DEF TypeOK, Send, LeaveChunk
  <2>6. QED BY <1>0, <1>8, <2>2, <2>3, <2>4, <2>5 DEF TypeOK, Send
<1>9. CASE SendFails
  BY <1>0, <1>9 DEF TypeOK, Places, SendFails, RequestFails, AfterChunk, LeaveChunk
<1>10. CASE Fetch
  <2>1. sent \in DOMAIN log
    BY <1>10 DEF MessagesInv, Content, FetchesLast, Fetch
  <2>2. QED
    BY <1>0, <1>10, <2>1 DEF TypeOK, Places, Fetch, AfterChunk, LeaveChunk
<1>11. CASE FetchFails
  BY <1>0, <1>11 DEF TypeOK, Places, FetchFails, RequestFails, AfterChunk, LeaveChunk
<1>12. CASE SendAgain
  BY <1>0, <1>12 DEF TypeOK, Places, SendAgain, BackOff, AfterChunk, LeaveChunk
<1>13. CASE Evaluate
  <2>1. log' \in Seq(Messages) /\ DOMAIN log' = DOMAIN log
    BY <1>0, <1>13, Evaluated
  <2>2. registered' \in SUBSET Relays
    BY <1>0, <1>13, EvaluateEffect DEF TypeOK
  <2>3. QED BY <1>0, <1>13, <2>1, <2>2 DEF TypeOK, Evaluate
<1>14. CASE Renounce
  <2>1. PICK f \in registered :
          log' = Append(log, [kind |-> "renounce", relays |-> {f},
                              result |-> "pending"])
    BY <1>14 DEF Renounce
  <2> DEFINE e == [kind |-> "renounce", relays |-> {f}, result |-> "pending"]
  <2>2. /\ e \in Messages /\ e.result = "pending" /\ log' = Append(log, e)
        /\ UNCHANGED <<registered, history>>
    BY <1>0, <1>14, <2>1 DEF Renounce, TypeOK, Messages
  <2> HIDE DEF e
  <2>3. log' \in Seq(Messages) /\ DOMAIN log' = DOMAIN log \cup {Len(log')}
    BY <1>0, <2>2, Accepted
  <2>4. QED BY <1>0, <1>14, <2>3 DEF TypeOK, Renounce
<1>15. CASE CreateSigner
  BY <1>0, <1>15 DEF TypeOK, CreateSigner
<1>16. CASE Restart
  <2>1. pc' \in Places /\ starts' \in Nat
    BY <1>0, <1>16 DEF TypeOK, Places, Restart
  <2>2. attempts' \in 0 .. Retries - 1
    BY <1>16 DEF Restart
  <2>3. QED BY <1>0, <1>16, <2>1, <2>2 DEF TypeOK, Restart
<1>17. QED
  BY <1>1, <1>2, <1>3, <1>4, <1>5, <1>6, <1>7, <1>8, <1>9, <1>10, <1>11,
     <1>12, <1>13, <1>14, <1>15, <1>16 DEF Next, Step

\* Steps that only move the handler keep the rest.
LEMMA MoveStep ==
    ASSUME MessagesInv, UNCHANGED <<process, history>>,
           UNCHANGED vars \/ StartRound \/ ReadState \/ ReadFails \/ ReadAgain
             \/ NextChunk \/ NoSigner \/ SendFails \/ FetchFails \/ SendAgain
             \/ CreateSigner \/ Restart
    PROVE  Content'
<1> USE DEF process, history
<1>1. /\ TypeOK /\ InOrder /\ ChunkApart /\ FetchesLast /\ FetchedKnown
      /\ RegisteredKnown /\ Told \subseteq registered /\ RepeatedOnlyIfUnknown
  BY DEF MessagesInv, Content
<1>2. InOrder' /\ FetchedKnown'
  BY <1>1 DEF InOrder, FetchedKnown
<1>3. RegisteredKnown' /\ RepeatedOnlyIfUnknown'
  BY <1>1 DEF RegisteredKnown, RepeatedOnlyIfUnknown, Renounces
<1>4. Told' = Told
  BY DEF Told, Renounces
<1>5. pc' = "fetch" => pc = "fetch" /\ chunk' = chunk /\ sent' = sent
  BY DEF vars, handler, StartRound, ReadState, ReadFails, ReadAgain, NextChunk,
     NoSigner, SendFails, FetchFails, SendAgain, CreateSigner, Restart, BackOff,
     RequestFails, AfterChunk
<1>6. FetchesLast'
  BY <1>1, <1>5 DEF FetchesLast
<1>7. ChunkApart'
  <2>1. CASE UNCHANGED vars \/ StartRound \/ ReadFails \/ ReadAgain \/ CreateSigner
    BY <1>1, <1>4, <2>1 DEF ChunkApart, vars, handler, StartRound, ReadFails,
       ReadAgain, CreateSigner, BackOff, RequestFails
  <2>2. CASE ReadState
    BY <1>1, <1>4, <2>2 DEF ChunkApart, ReadState, Unregistered
  <2>3. CASE NextChunk
    BY <1>1, <1>4, <2>3 DEF ChunkApart, NextChunk
  <2>4. CASE NoSigner \/ Restart
    BY <1>1, <1>4, <2>4 DEF ChunkApart, NoSigner, Restart
  <2>5. CASE SendFails \/ FetchFails \/ SendAgain
    BY <1>1, <1>4, <2>5 DEF ChunkApart, SendFails, FetchFails, SendAgain, LeaveChunk
  <2>6. QED BY <2>1, <2>2, <2>3, <2>4, <2>5
<1>8. QED BY <1>1, <1>2, <1>3, <1>4, <1>6, <1>7 DEF Content

\* A message is accepted, and nothing else happens to the log: what has been
\* evaluated is as it was.
LEMMA AcceptedContent ==
    ASSUME MessagesInv, NEW e \in Messages, e.result = "pending",
           log' = Append(log, e), UNCHANGED <<registered, history>>
    PROVE  /\ InOrder' /\ FetchedKnown' /\ RegisteredKnown'
           /\ (Told \subseteq registered)'
<1>1. /\ TypeOK /\ InOrder /\ FetchedKnown /\ RegisteredKnown
      /\ Told \subseteq registered
  BY DEF MessagesInv, Content
<1>2. /\ log' \in Seq(Messages) /\ Len(log') = Len(log) + 1
      /\ log'[Len(log')] = e
      /\ DOMAIN log' = DOMAIN log \cup {Len(log')}
      /\ \A k \in DOMAIN log : k < Len(log') /\ log'[k] = log[k]
      /\ Told' = Told
  BY <1>1, Accepted
<1>3. InOrder'
  BY <1>1, <1>2 DEF InOrder, TypeOK
<1>4. FetchedKnown'
  BY <1>1, <1>2 DEF FetchedKnown, TypeOK, history
<1>5. \A k \in DOMAIN log : \A f : Renounces(k, f)' <=> Renounces(k, f)
  BY <1>2 DEF Renounces
<1>6. RegisteredKnown'
  <2> SUFFICES ASSUME NEW m \in DOMAIN log', log'[m].kind = "submit",
                      log'[m].result = "ok", NEW f \in log'[m].relays,
                      f \notin registered
               PROVE  \E k \in DOMAIN log' : k > m /\ Renounces(k, f)'
    BY DEF RegisteredKnown
  <2>1. m \in DOMAIN log /\ log'[m] = log[m]
    BY <1>2
  <2>2. PICK k \in DOMAIN log : k > m /\ Renounces(k, f)
    BY <1>1, <2>1 DEF RegisteredKnown
  <2>3. QED BY <1>2, <1>5, <2>2
<1>7. QED BY <1>1, <1>2, <1>3, <1>4, <1>6

\* A message of the controller is accepted: the relays in it have not been
\* reported since they were last renounced.
LEMMA SendStep ==
    ASSUME MessagesInv, Send
    PROVE  Content'
<1>1. /\ TypeOK /\ ChunkApart /\ FetchesLast /\ FetchedKnown
      /\ RepeatedOnlyIfUnknown
  BY DEF MessagesInv, Content
<1> DEFINE e == [kind |-> "submit", relays |-> chunk, result |-> "pending"]
<1>2. /\ e \in Messages /\ e.result = "pending" /\ log' = Append(log, e)
      /\ UNCHANGED <<registered, history>>
  BY <1>1 DEF Send, TypeOK, Messages
<1>3. e.kind = "submit" /\ e.relays = chunk
  OBVIOUS
<1> HIDE DEF e
<1>4. /\ log' \in Seq(Messages) /\ Len(log') = Len(log) + 1
      /\ log'[Len(log')] = e
      /\ DOMAIN log' = DOMAIN log \cup {Len(log')}
      /\ \A k \in DOMAIN log : k < Len(log') /\ log'[k] = log[k]
      /\ Told' = Told
  BY <1>1, <1>2, Accepted
<1>5. /\ InOrder' /\ FetchedKnown' /\ RegisteredKnown'
      /\ (Told \subseteq registered)'
  BY <1>2, AcceptedContent
<1>6. /\ todo' = todo /\ LeaveChunk
      /\ pc' = "fetch" => sent' = Len(log')
  BY DEF Send, RequestFails, AfterChunk
<1>7. ChunkApart'
  BY <1>1, <1>4, <1>6 DEF ChunkApart, LeaveChunk
<1>8. FetchesLast'
  <2> SUFFICES ASSUME pc' = "fetch"
               PROVE  /\ sent' \in DOMAIN log'
                      /\ log'[sent'].kind = "submit" /\ log'[sent'].relays = chunk'
                      /\ \A n \in DOMAIN log' : n > sent' => log'[n].kind # "submit"
    BY DEF FetchesLast
  <2>1. sent' = Len(log') /\ chunk' = chunk
    BY <1>6 DEF LeaveChunk
  <2>2. \A n \in DOMAIN log' : ~(n > Len(log'))
    BY <1>4
  <2>3. QED BY <1>3, <1>4, <2>1, <2>2
<1>9. RepeatedOnlyIfUnknown'
  <2> SUFFICES ASSUME NEW m \in DOMAIN log', NEW n \in DOMAIN log', m < n,
                      log'[m].kind = "submit", log'[n].kind = "submit",
                      NEW f \in log'[m].relays \cap log'[n].relays,
                      m \in fetched, log'[m].result # "error"
               PROVE  \E k \in m + 1 .. n - 1 : Renounces(k, f)'
    BY <1>2 DEF RepeatedOnlyIfUnknown, history
  <2>1. /\ m \in DOMAIN log /\ log'[m] = log[m] /\ log[m] \in Messages
        /\ m \in Nat /\ n \in Nat /\ f \in Relays
    <3>1. log \in Seq(Messages) /\ fetched \subseteq DOMAIN log
      BY <1>1 DEF TypeOK
    <3>2. m \in DOMAIN log /\ log'[m] = log[m] /\ m \in Nat /\ n \in Nat
      BY <1>4, <3>1
    <3>3. log[m] \in Messages
      BY <3>1, <3>2
    <3>4. QED BY <3>2, <3>3 DEF Messages
  <2>2. \A k \in DOMAIN log : Renounces(k, f)' <=> Renounces(k, f)
    BY <1>4 DEF Renounces
  <2>3. CASE n \in DOMAIN log
    <3>1. log'[n] = log[n]
      BY <1>4, <2>3
    <3>2. PICK k \in m + 1 .. n - 1 : Renounces(k, f)
      BY <1>1, <2>1, <2>3, <3>1 DEF RepeatedOnlyIfUnknown
    <3>3. k \in DOMAIN log
      BY <1>1, <2>1, <2>3 DEF TypeOK
    <3>4. QED BY <2>2, <3>2, <3>3
  <2>4. CASE n = Len(log')
    <3>1. f \in log[m].relays /\ f \in chunk
      BY <1>3, <1>4, <2>1, <2>4
    <3>2. f \notin Told
      BY <1>1, <3>1 DEF ChunkApart
    <3>3. m \in told
      BY <1>1, <2>1 DEF FetchedKnown, Messages
    <3>4. PICK k \in DOMAIN log : k > m /\ Renounces(k, f)
      BY <2>1, <3>1, <3>2, <3>3 DEF Told
    <3>5. k \in m + 1 .. n - 1
      BY <1>1, <1>4, <2>1, <2>4, <3>4 DEF TypeOK
    <3>6. QED BY <2>2, <3>4, <3>5
  <2>5. QED BY <1>4, <2>3, <2>4
<1>10. QED BY <1>5, <1>7, <1>8, <1>9 DEF Content

\* An operator's message is accepted: it is not one of the controller's.
LEMMA RenounceStep ==
    ASSUME MessagesInv, Renounce
    PROVE  Content'
<1>1. /\ TypeOK /\ ChunkApart /\ FetchesLast /\ RepeatedOnlyIfUnknown
  BY DEF MessagesInv, Content
<1>2. PICK f \in registered :
        log' = Append(log, [kind |-> "renounce", relays |-> {f},
                            result |-> "pending"])
  BY DEF Renounce
<1> DEFINE e == [kind |-> "renounce", relays |-> {f}, result |-> "pending"]
<1>3. /\ e \in Messages /\ e.result = "pending" /\ log' = Append(log, e)
      /\ e.kind # "submit" /\ UNCHANGED <<registered, history>>
  BY <1>1, <1>2 DEF Renounce, TypeOK, Messages
<1> HIDE DEF e
<1>4. /\ log' \in Seq(Messages) /\ Len(log') = Len(log) + 1
      /\ log'[Len(log')] = e
      /\ DOMAIN log' = DOMAIN log \cup {Len(log')}
      /\ \A k \in DOMAIN log : k < Len(log') /\ log'[k] = log[k]
      /\ Told' = Told
  BY <1>1, <1>3, Accepted
<1>5. /\ InOrder' /\ FetchedKnown' /\ RegisteredKnown'
      /\ (Told \subseteq registered)'
  BY <1>3, AcceptedContent
<1>6. UNCHANGED <<pc, todo, chunk, sent>>
  BY DEF Renounce, handler
<1>7. ChunkApart'
  BY <1>1, <1>4, <1>6 DEF ChunkApart
<1>8. FetchesLast'
  BY <1>1, <1>3, <1>4, <1>6 DEF FetchesLast
<1>9. RepeatedOnlyIfUnknown'
  <2> SUFFICES ASSUME NEW m \in DOMAIN log', NEW n \in DOMAIN log', m < n,
                      log'[m].kind = "submit", log'[n].kind = "submit",
                      NEW g \in log'[m].relays \cap log'[n].relays,
                      m \in fetched, log'[m].result # "error"
               PROVE  \E k \in m + 1 .. n - 1 : Renounces(k, g)'
    BY <1>3 DEF RepeatedOnlyIfUnknown, history
  <2>1. /\ m \in DOMAIN log /\ log'[m] = log[m] /\ m \in Nat
        /\ n \in DOMAIN log /\ log'[n] = log[n] /\ n \in Nat
    BY <1>1, <1>3, <1>4 DEF TypeOK
  <2>2. PICK k \in m + 1 .. n - 1 : Renounces(k, g)
    BY <1>1, <2>1 DEF RepeatedOnlyIfUnknown
  <2>3. k \in DOMAIN log
    BY <1>1, <2>1 DEF TypeOK
  <2>4. QED BY <1>4, <2>2, <2>3 DEF Renounces
<1>10. QED BY <1>5, <1>7, <1>8, <1>9 DEF Content

\* A fetched result that is good: the relays that have not been renounced since
\* are reported, and they are in the registry.
LEMMA FetchEffect ==
    ASSUME MessagesInv, Fetch
    PROVE  \E fs \in SUBSET chunk : fs \subseteq registered /\ Told' = Told \cup fs
<1>1. TypeOK /\ FetchesLast /\ RegisteredKnown
  BY DEF MessagesInv, Content
<1>2. /\ pc = "fetch" /\ log' = log
      /\ told' = IF log[sent].result = "ok" THEN told \cup {sent} ELSE told
  BY DEF Fetch, Success, process
<1>3. \A k, f : Renounces(k, f)' <=> Renounces(k, f)
  BY <1>2 DEF Renounces
<1>4. CASE log[sent].result = "ok"
  <2> DEFINE fs == {f \in chunk : \A k \in DOMAIN log : k > sent => ~Renounces(k, f)}
  <2>1. sent \in DOMAIN log /\ log[sent].kind = "submit" /\ log[sent].relays = chunk
    BY <1>1, <1>2 DEF FetchesLast
  <2>2. fs \subseteq registered
    BY <1>1, <1>4, <2>1 DEF RegisteredKnown
  <2>3. Told' = Told \cup fs
    <3>1. told' = told \cup {sent} /\ chunk \subseteq Relays
      BY <1>1, <1>2, <1>4 DEF TypeOK
    <3>2. QED BY <1>2, <1>3, <2>1, <3>1 DEF Told
  <2>4. QED BY <2>2, <2>3
<1>5. CASE log[sent].result # "ok"
  <2>1. Told' = Told \cup {}
    BY <1>2, <1>3, <1>5 DEF Told
  <2>2. QED BY <2>1
<1>6. QED BY <1>4, <1>5

\* A result is fetched: it is the one of the controller's last message.
LEMMA FetchStep ==
    ASSUME MessagesInv, Fetch
    PROVE  Content'
<1>1. /\ TypeOK /\ InOrder /\ ChunkApart /\ FetchesLast /\ FetchedKnown
      /\ RegisteredKnown /\ Told \subseteq registered /\ RepeatedOnlyIfUnknown
  BY DEF MessagesInv, Content
<1>2. /\ pc = "fetch" /\ log' = log /\ registered' = registered /\ todo' = todo
      /\ fetched' = fetched \cup {sent} /\ log[sent].result # "pending"
      /\ told' = IF log[sent].result = "ok" THEN told \cup {sent} ELSE told
      /\ pc' \in {"idle", "pause"} /\ LeaveChunk
  BY DEF Fetch, AfterChunk, Success, process
<1>3. /\ sent \in DOMAIN log /\ log[sent].kind = "submit"
      /\ \A n \in DOMAIN log : n > sent => log[n].kind # "submit"
  BY <1>1, <1>2 DEF FetchesLast
<1>4. PICK fs \in SUBSET chunk : fs \subseteq registered /\ Told' = Told \cup fs
  BY FetchEffect
<1>5. \A k, f : Renounces(k, f)' <=> Renounces(k, f)
  BY <1>2 DEF Renounces
<1>6. InOrder' /\ FetchesLast' /\ (Told \subseteq registered)'
  BY <1>1, <1>2, <1>4 DEF InOrder, FetchesLast
<1>7. ChunkApart'
  BY <1>1, <1>2, <1>4 DEF ChunkApart, LeaveChunk
<1>8. FetchedKnown'
  BY <1>1, <1>2, <1>3 DEF FetchedKnown, TypeOK
<1>9. RegisteredKnown'
  BY <1>1, <1>2, <1>5 DEF RegisteredKnown
<1>10. RepeatedOnlyIfUnknown'
  <2> SUFFICES ASSUME NEW m \in DOMAIN log, NEW n \in DOMAIN log, m < n,
                      log[m].kind = "submit", log[n].kind = "submit",
                      NEW f \in log[m].relays \cap log[n].relays,
                      m \in fetched', log[m].result # "error"
               PROVE  \E k \in m + 1 .. n - 1 : Renounces(k, f)
    BY <1>2, <1>5 DEF RepeatedOnlyIfUnknown
  <2>1. m # sent
    BY <1>1, <1>3 DEF TypeOK
  <2>2. QED BY <1>1, <1>2, <2>1 DEF RepeatedOnlyIfUnknown
<1>11. QED BY <1>6, <1>7, <1>8, <1>9, <1>10 DEF Content

\* The process evaluates a message whose result nobody has fetched.
LEMMA EvaluateStep ==
    ASSUME MessagesInv, Evaluate
    PROVE  Content'
<1>1. /\ TypeOK /\ InOrder /\ ChunkApart /\ FetchesLast /\ FetchedKnown
      /\ RegisteredKnown /\ Told \subseteq registered /\ RepeatedOnlyIfUnknown
  BY DEF MessagesInv, Content
<1>2. PICK n \in DOMAIN log, r \in {"ok", "error"} :
        /\ log[n].result = "pending"
        /\ \A k \in DOMAIN log : k < n => log[k].result # "pending"
        /\ log' \in Seq(Messages) /\ DOMAIN log' = DOMAIN log
        /\ log'[n] = [kind |-> log[n].kind, relays |-> log[n].relays, result |-> r]
        /\ \A k \in DOMAIN log : k # n => log'[k] = log[k]
        /\ registered' = IF r = "error" THEN registered
                         ELSE IF log[n].kind = "submit"
                         THEN registered \cup log[n].relays
                         ELSE registered \ log[n].relays
  BY <1>1, Evaluated
<1>3. UNCHANGED <<pc, todo, chunk, sent, fetched, told>>
  BY DEF Evaluate, handler, history
<1>4. n \notin fetched /\ DOMAIN log \subseteq Nat
  BY <1>1, <1>2 DEF FetchedKnown, TypeOK
<1>5. \A k \in DOMAIN log : /\ log'[k].relays = log[k].relays
                            /\ log'[k].kind = log[k].kind
                            /\ log'[k].result = IF k = n THEN r ELSE log[k].result
  BY <1>2
<1>6. \A k \in DOMAIN log : \A f : Renounces(k, f) => Renounces(k, f)'
  BY <1>2, <1>5 DEF Renounces
<1>7. (Told \subseteq registered)' /\ Told' \subseteq Told
  BY <1>1, EvaluateEffect
<1>8. InOrder'
  BY <1>1, <1>2, <1>4, <1>5 DEF InOrder
<1>9. ChunkApart' /\ FetchesLast'
  BY <1>1, <1>2, <1>3, <1>5, <1>7 DEF ChunkApart, FetchesLast
<1>10. FetchedKnown'
  BY <1>1, <1>3, <1>4, <1>5 DEF FetchedKnown, TypeOK
<1>11. RegisteredKnown'
  <2> SUFFICES ASSUME NEW m \in DOMAIN log, log[m].kind = "submit",
                      log'[m].result = "ok", NEW f \in log[m].relays,
                      f \notin registered'
               PROVE  \E k \in DOMAIN log : k > m /\ Renounces(k, f)'
    BY <1>2, <1>5 DEF RegisteredKnown
  <2>1. m # n
    BY <1>2, <1>5
  <2>2. log[m].result = "ok"
    BY <1>5, <2>1
  <2>3. CASE f \in registered
    <3>1. r = "ok" /\ log[n].kind # "submit" /\ f \in log[n].relays
      BY <1>2, <2>3
    <3>2. Renounces(n, f)'
      <4>1. log[n] \in Messages
        BY <1>1 DEF TypeOK
      <4>2. log[n].kind = "renounce"
        BY <3>1, <4>1 DEF Messages
      <4>3. QED BY <1>5, <3>1, <4>2 DEF Renounces
    <3>3. n > m
      BY <1>1, <1>2, <1>4, <2>1, <2>2 DEF InOrder
    <3>4. QED BY <3>2, <3>3
  <2>4. CASE f \notin registered
    BY <1>1, <1>6, <2>2, <2>4 DEF RegisteredKnown
  <2>5. QED BY <2>3, <2>4
<1>12. RepeatedOnlyIfUnknown'
  <2> SUFFICES ASSUME NEW m \in DOMAIN log, NEW k \in DOMAIN log, m < k,
                      log[m].kind = "submit", log[k].kind = "submit",
                      NEW f \in log[m].relays \cap log[k].relays,
                      m \in fetched, log'[m].result # "error"
               PROVE  \E j \in m + 1 .. k - 1 : Renounces(j, f)'
    BY <1>2, <1>3, <1>5 DEF RepeatedOnlyIfUnknown
  <2>1. log[m].result # "error"
    BY <1>4, <1>5
  <2>2. PICK j \in m + 1 .. k - 1 : Renounces(j, f)
    BY <1>1, <2>1 DEF RepeatedOnlyIfUnknown
  <2>3. j \in DOMAIN log
    BY <1>1 DEF TypeOK
  <2>4. QED BY <1>6, <2>2, <2>3
<1>13. QED BY <1>7, <1>8, <1>9, <1>10, <1>11, <1>12 DEF Content

\* The invariant is inductive.
LEMMA MessagesStep == MessagesInv /\ [Next]_vars => MessagesInv'
<1> SUFFICES ASSUME MessagesInv, [Next]_vars PROVE MessagesInv'
  OBVIOUS
<1>1. TypeOK'
  BY MessagesTypes
<1>2. Content'
  <2>1. CASE UNCHANGED vars \/ StartRound \/ ReadState \/ ReadFails \/ ReadAgain
             \/ NextChunk \/ NoSigner \/ SendFails \/ FetchFails \/ SendAgain
             \/ CreateSigner \/ Restart
    <3>1. UNCHANGED <<process, history>>
      BY <2>1 DEF vars, StartRound, ReadState, ReadFails, ReadAgain,
         NextChunk, NoSigner, SendFails, FetchFails, SendAgain, CreateSigner,
         Restart
    <3>2. QED BY <2>1, <3>1, MoveStep
  <2>2. CASE Send
    BY <2>2, SendStep
  <2>3. CASE Fetch
    BY <2>3, FetchStep
  <2>4. CASE Evaluate
    BY <2>4, EvaluateStep
  <2>5. CASE Renounce
    BY <2>5, RenounceStep
  <2>6. QED BY <2>1, <2>2, <2>3, <2>4, <2>5 DEF Next, Step
<1>3. QED BY <1>1, <1>2 DEF MessagesInv

\* The invariant holds in every state.
THEOREM MessagesInvariant == Spec => []MessagesInv
BY MessagesInit, MessagesStep, PTL DEF Spec

-----------------------------------------------------------------------------
(* What follows                                                            *)

\* The types of the messaging state.
THEOREM MessagesTypeCorrect == Spec => []TypeOK
<1>1. MessagesInv => TypeOK
  BY DEF MessagesInv
<1>2. QED BY <1>1, MessagesInvariant, PTL

\* sendAosMessage: a relay is sent again only when the first result was not
\* seen or an error, or its operator has renounced it between the two.
THEOREM RepeatsExplained == Spec => []RepeatedOnlyIfUnknown
<1>1. MessagesInv => RepeatedOnlyIfUnknown
  BY DEF MessagesInv, Content
<1>2. QED BY <1>1, MessagesInvariant, PTL

\* verifyRelays: what is reported is registered, and not sent again, until its
\* operator renounces it.
THEOREM ReportsHold == Spec => []ToldOnce
<1>1. MessagesInv => ToldOnce
  BY DEF MessagesInv, Content, ChunkApart, ToldOnce
<1>2. QED BY <1>1, MessagesInvariant, PTL

\* Every step is one of Submission's, or none.
LEMMA SubmissionStep ==
    MessagesInv /\ [Next]_vars => [Abstract!Next]_<<registered, Told>>
<1> SUFFICES ASSUME MessagesInv, [Next]_vars
             PROVE  [Abstract!Next]_<<registered, Told>>
  OBVIOUS
<1>1. TypeOK /\ ChunkApart
  BY DEF MessagesInv, Content
<1>2. CASE UNCHANGED vars \/ StartRound \/ ReadState \/ ReadFails \/ ReadAgain
           \/ NextChunk \/ NoSigner \/ SendFails \/ FetchFails \/ SendAgain
           \/ CreateSigner \/ Restart
  <2>1. log' = log /\ registered' = registered /\ told' = told
    BY <1>2 DEF vars, process, history, StartRound, ReadState, ReadFails,
       ReadAgain, NextChunk, NoSigner, SendFails, FetchFails, SendAgain,
       CreateSigner, Restart
  <2>2. Told' = Told
    BY <2>1 DEF Told, Renounces
  <2>3. QED BY <2>1, <2>2
<1>3. CASE Send
  <2> DEFINE e == [kind |-> "submit", relays |-> chunk, result |-> "pending"]
  <2>1. /\ e \in Messages /\ e.result = "pending" /\ log' = Append(log, e)
        /\ UNCHANGED <<registered, history>>
    BY <1>1, <1>3 DEF Send, TypeOK, Messages
  <2> HIDE DEF e
  <2>2. Told' = Told
    BY <1>1, <2>1, Accepted
  <2>3. QED BY <2>1, <2>2
<1>4. CASE Renounce
  <2>1. PICK f \in registered :
          log' = Append(log, [kind |-> "renounce", relays |-> {f},
                              result |-> "pending"])
    BY <1>4 DEF Renounce
  <2> DEFINE e == [kind |-> "renounce", relays |-> {f}, result |-> "pending"]
  <2>2. /\ e \in Messages /\ e.result = "pending" /\ log' = Append(log, e)
        /\ UNCHANGED <<registered, history>>
    BY <1>1, <1>4, <2>1 DEF Renounce, TypeOK, Messages
  <2> HIDE DEF e
  <2>3. Told' = Told
    BY <1>1, <2>2, Accepted
  <2>4. QED BY <2>2, <2>3
<1>5. CASE Evaluate
  <2>1. PICK fs \in SUBSET Relays :
             \/ registered' = registered \cup fs /\ Told' = Told
             \/ registered' = registered \ fs /\ Told' = Told \ fs
    BY <1>5, EvaluateEffect
  <2>2. Abstract!Register(fs) \/ Abstract!Renounce(fs)
    BY <2>1 DEF Abstract!Register, Abstract!Renounce
  <2>3. QED BY <2>2 DEF Abstract!Next
<1>6. CASE Fetch
  <2>1. PICK fs \in SUBSET chunk : fs \subseteq registered /\ Told' = Told \cup fs
    BY <1>6, FetchEffect
  <2>2. fs \subseteq registered \ Told /\ fs \in SUBSET Relays
    BY <1>1, <2>1 DEF ChunkApart, TypeOK
  <2>3. registered' = registered
    BY <1>6 DEF Fetch, process
  <2>4. Abstract!Tell(fs)
    BY <2>1, <2>2, <2>3 DEF Abstract!Tell
  <2>5. QED BY <2>2, <2>4 DEF Abstract!Next
<1>7. QED BY <1>2, <1>3, <1>4, <1>5, <1>6 DEF Next, Step

\* The messages implement the abstract submission.
THEOREM SubmissionImplemented == Spec => ImplementsSubmission
<1>1. Init => Abstract!Init
  BY DEF Init, Abstract!Init, Told
<1>2. QED
  BY <1>1, SubmissionStep, MessagesInvariant, PTL
     DEF Spec, ImplementsSubmission, Abstract!Spec

=============================================================================
