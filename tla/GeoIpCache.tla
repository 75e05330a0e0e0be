----------------------------- MODULE GeoIpCache -----------------------------
(***************************************************************************)
(* The fingerprint map of one process.  It is asked for at boot, and again *)
(* by fetch-relays when the Date header of the last answer is more than a  *)
(* TTL ago.  A request that fails changes nothing; an answer without a     *)
(* readable date replaces the map and leaves no timestamp.                 *)
(*                                                                         *)
(* Times are ages, so that the clock needs no bound.                       *)
(***************************************************************************)
EXTENDS Integers

CONSTANTS
    TTL,       \* ANYONE_API_CACHE_TTL
    Skew,      \* how far the Date header may be off, either way
    None       \* an empty map; no timestamp (undefined, or NaN)

ASSUME TimesAssumption == TTL \in Nat /\ Skew \in Nat /\ None \notin Int

\* Older than this makes no difference.
Cap == TTL + 2 * Skew + 1

VARIABLES
    age,       \* age of fingerprintMapData, or None
    elapsed,   \* Date.now() - lastResponseTimestamp, or None
    requests,  \* who waits for an answer: "boot", "check"
    failed,    \* history: the last request failed
    used,      \* history: age of the map fetch-relays last used, or None
    excused    \* history: at that time, a request had failed or there was no date

vars == <<age, elapsed, requests, failed, used, excused>>

TypeOK ==
    /\ age \in 0 .. Cap \cup {None}
    /\ elapsed \in -Skew .. Cap \cup {None}
    /\ requests \in SUBSET {"boot", "check"}
    /\ failed \in BOOLEAN
    /\ used \in 0 .. Cap \cup {None}
    /\ excused \in BOOLEAN

\* onApplicationBootstrap asks for the map; workers may run already.
Init ==
    /\ age = None /\ elapsed = None
    /\ requests = {"boot"}
    /\ failed = FALSE
    /\ used = None /\ excused = TRUE

-----------------------------------------------------------------------------

\* Mutant: ages have no bound.
OlderEver(a) == IF a = None THEN a ELSE a + 1

\* An hour later.
Older(a) == IF a = None \/ a = Cap THEN a ELSE a + 1

\* The map stays what it was.
Tick ==
    /\ age' = Older(age)
    /\ elapsed' = Older(elapsed)
    /\ UNCHANGED <<requests, failed, used, excused>>

\* fingerprintToGeoHex, for every relay, with the map as it then is.
Use(mapAge, excuse) == used' = mapAge /\ excused' = excuse

\* Mutant: the cache is refreshed twice as late.
ExpiredLate == elapsed # None /\ elapsed > 2 * TTL

\* Mutant: seconds are compared with milliseconds.
ExpiredSeconds == elapsed # None /\ elapsed \div 1000 > TTL

\* Mutant: no timestamp counts as expired.
ExpiredUndated == elapsed # None => elapsed > TTL

\* Comparing undefined or NaN gives false.
Expired == elapsed # None /\ elapsed > TTL

\* cacheCheck asks for the map.
Refresh ==
    /\ "check" \notin requests
    /\ Expired
    /\ requests' = requests \cup {"check"}
    /\ UNCHANGED <<age, elapsed, failed, used, excused>>

\* cacheCheck finds it fresh, or has nothing to compare with.
Fresh ==
    /\ "check" \notin requests
    /\ ~Expired
    /\ Use(age, failed \/ elapsed = None)
    /\ UNCHANGED <<age, elapsed, requests, failed>>

\* An answer comes, with a date or without.
Answer(who) ==
    /\ who \in requests /\ requests' = requests \ {who}
    /\ age' = 0
    /\ elapsed' \in -Skew .. Skew \cup {None}
    /\ failed' = FALSE
    /\ IF who = "check" THEN Use(0, elapsed' = None) ELSE UNCHANGED <<used, excused>>

\* The request fails and the old map stays.
Fail(who) ==
    /\ who \in requests /\ requests' = requests \ {who}
    /\ failed' = TRUE
    /\ IF who = "check" THEN Use(age, TRUE) ELSE UNCHANGED <<used, excused>>
    /\ UNCHANGED <<age, elapsed>>

\* The process is started again.
Restart ==
    /\ age' = None /\ elapsed' = None /\ requests' = {"boot"} /\ failed' = FALSE
    /\ UNCHANGED <<used, excused>>

Next ==
    \/ Tick \/ Refresh \/ Fresh \/ Restart
    \/ \E who \in {"boot", "check"} : Answer(who) \/ Fail(who)

Spec == Init /\ [][Next]_vars

\* Rounds come again and again, time passes, and the API does not fail each
\* time it is asked.
FairSpec ==
    /\ Spec
    /\ WF_vars(Tick) /\ WF_vars(Refresh) /\ SF_vars(Answer("check"))

-----------------------------------------------------------------------------
(* Properties                                                              *)

\* fetch-relays uses a map that is older than the TTL (and what the date may be
\* off) only after a failed request or an answer without a date; without a map
\* it resolves no cell, for the same reasons only.
LookupsFresh ==
    ~excused => used # None /\ used <= TTL + Skew

\* The request of the boot and the one of a check are never under way together,
\* so an old answer does not replace a newer map: before the first answer there
\* is no timestamp, and a check asks for nothing.
OneRequest == requests # {"boot", "check"}

\* A failed refresh is made up for in a later round: the map does not stay old.
MapRefreshed == []<>(elapsed = None \/ age = None \/ age <= TTL)

=============================================================================
