-------------------------- MODULE GeoIpCacheProofs --------------------------
(***************************************************************************)
(* Theorems about GeoIpCache: types, fresh lookups, one request at a time, *)
(* for any TTL and any error of the dates.                                 *)
(***************************************************************************)
EXTENDS GeoIpCache, TLAPS

\* The timestamp tells the age of the map, but for what dates may be off.
DatesTell ==
    elapsed # None => age # None /\ (age <= elapsed + Skew \/ elapsed = Cap)

\* The boot waits only while there is no timestamp, a check only with an old
\* one.
RequestsTell ==
    /\ "boot" \in requests => elapsed = None
    /\ "check" \in requests => elapsed # None

GeoInv == TypeOK /\ DatesTell /\ RequestsTell /\ LookupsFresh

\* The initial state satisfies the invariant.
LEMMA GeoInit == Init => GeoInv
BY TimesAssumption DEF Init, GeoInv, TypeOK, DatesTell, RequestsTell, LookupsFresh, Cap

\* A date just read is off by no more than the skew.
LEMMA DatesInRange ==
    \A e \in -Skew .. Skew : e \in -Skew .. Cap /\ 0 <= e + Skew
BY TimesAssumption DEF Cap

\* The invariant is inductive.
LEMMA GeoStep == GeoInv /\ [Next]_vars => GeoInv'
<1> SUFFICES ASSUME GeoInv, [Next]_vars PROVE GeoInv'
  OBVIOUS
<1> USE TimesAssumption DEF GeoInv, TypeOK, Cap
<1>1. CASE UNCHANGED vars
  BY <1>1 DEF vars, DatesTell, RequestsTell, LookupsFresh
<1>2. CASE Tick
  <2>1. TypeOK'
    BY <1>2 DEF Tick, Older
  <2>2. DatesTell'
    BY <1>2 DEF Tick, Older, DatesTell
  <2>3. RequestsTell' /\ LookupsFresh'
    BY <1>2 DEF Tick, Older, RequestsTell, LookupsFresh
  <2>4. QED BY <2>1, <2>2, <2>3
<1>3. CASE Refresh
  BY <1>3 DEF Refresh, Expired, DatesTell, RequestsTell, LookupsFresh
<1>4. CASE Fresh
  <2>1. TypeOK' /\ DatesTell' /\ RequestsTell'
    BY <1>4 DEF Fresh, Use, DatesTell, RequestsTell
  <2>2. LookupsFresh'
    BY <1>4 DEF Fresh, Use, Expired, DatesTell, LookupsFresh
  <2>3. QED BY <2>1, <2>2
<1>5. ASSUME NEW who \in {"boot", "check"}, Answer(who) PROVE GeoInv'
  <2>0. /\ age' = 0 /\ 0 \in 0 .. Cap /\ 0 # None
        /\ elapsed' \in -Skew .. Cap \cup {None}
        /\ elapsed' # None => 0 <= elapsed' + Skew
    <3>1. /\ age' = 0 /\ elapsed' \in -Skew .. Skew \cup {None}
      BY <1>5 DEF Answer
    <3>2. CASE elapsed' = None
      BY <3>1, <3>2
    <3>3. CASE elapsed' \in -Skew .. Skew
      <4>2. elapsed' \in -Skew .. Cap /\ 0 <= elapsed' + Skew
        BY <3>3, DatesInRange
      <4>3. 0 \in 0 .. Cap /\ 0 # None
        OBVIOUS
      <4>4. QED BY <3>1, <4>2, <4>3
    <3>4. QED BY <3>1, <3>2, <3>3
  <2>1. TypeOK'
    <3>1. used' \in 0 .. Cap \cup {None} /\ excused' \in BOOLEAN
      BY <1>5, <2>0 DEF Answer, Use
    <3>2. requests' \in SUBSET {"boot", "check"} /\ failed' \in BOOLEAN
      BY <1>5 DEF Answer
    <3>3. QED BY <2>0, <3>1, <3>2
  <2>2. DatesTell'
    BY <2>0 DEF DatesTell
  <2>3. RequestsTell'
    BY <1>5 DEF Answer, RequestsTell
  <2>4. LookupsFresh'
    BY <1>5 DEF Answer, Use, LookupsFresh
  <2>5. QED BY <2>1, <2>2, <2>3, <2>4
<1>6. ASSUME NEW who \in {"boot", "check"}, Fail(who) PROVE GeoInv'
  BY <1>6 DEF Fail, Use, DatesTell, RequestsTell, LookupsFresh
<1>7. CASE Restart
  BY <1>7 DEF Restart, DatesTell, RequestsTell, LookupsFresh
<1>8. QED BY <1>1, <1>2, <1>3, <1>4, <1>5, <1>6, <1>7 DEF Next

\* The invariant holds in every state.
THEOREM GeoInvariant == Spec => []GeoInv
BY GeoInit, GeoStep, PTL DEF Spec

\* The types of the cache.
THEOREM GeoTypeCorrect == Spec => []TypeOK
<1>1. GeoInv => TypeOK
  BY DEF GeoInv
<1>2. QED BY <1>1, GeoInvariant, PTL

\* GeoIpService.lookup: an old map, or none, is used only after a failed
\* request or an answer without a date.
THEOREM LookupsAreFresh == Spec => []LookupsFresh
<1>1. GeoInv => LookupsFresh
  BY DEF GeoInv
<1>2. QED BY <1>1, GeoInvariant, PTL

\* fetchFingerprintMapData: requests do not overlap, so no answer replaces a
\* newer one.
THEOREM RequestsApart == Spec => []OneRequest
<1>1. GeoInv => OneRequest
  BY DEF GeoInv, RequestsTell, OneRequest
<1>2. QED BY <1>1, GeoInvariant, PTL

=============================================================================
