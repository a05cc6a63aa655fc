------------------------- MODULE GuidanceCacheProofs -------------------------
(***************************************************************************)
(* Theorems about GuidanceCache, for any set of runs, any TTL (0 included) *)
(* and any number of changes.                                              *)
(***************************************************************************)
EXTENDS GuidanceCache, TLAPS

\* The time stamp is the one of the last reply; without any, it never counts.
Stamped ==
  /\ sinceFetch = sinceReply
  /\ cache = NoGuidance => sinceFetch = Ttl

\* An outdated reply on its way, or an outdated cache, is as recent as sinceOld says.
OldIsRecent ==
  /\ \A r \in Run : OutdatedReply(r) => sinceOld = 0
  /\ cache # NoGuidance /\ cache # version => sinceOld <= sinceFetch

GuidanceInv == TypeOK /\ Stamped /\ OldIsRecent

LEMMA GuidanceInit == Init => GuidanceInv
  BY TtlAssumption, VersionAssumption
     DEF Init, GuidanceInv, TypeOK, Stamped, OldIsRecent, OutdatedReply, Version

LEMMA OlderStaysTyped ==
  ASSUME NEW a \in 0..Ttl, NEW b \in 0..Ttl, a <= b
  PROVE  /\ Older(a) \in 0..Ttl /\ Older(b) \in 0..Ttl
         /\ Older(a) <= Older(b)
  BY TtlAssumption DEF Older

LEMMA GuidanceStep == GuidanceInv /\ [Next]_vars => GuidanceInv'
<1> SUFFICES ASSUME GuidanceInv, [Next]_vars PROVE GuidanceInv'
  OBVIOUS
<1> USE TtlAssumption, VersionAssumption
<1>0. TypeOK /\ Stamped /\ OldIsRecent
  BY DEF GuidanceInv
<1>1. ASSUME NEW r \in Run, Get(r)
      PROVE  GuidanceInv'
  <2>1. TypeOK'
    BY <1>0, <1>1 DEF Get, Prompted, Fresh, TypeOK
  <2>2. Stamped' /\ OldIsRecent'
    BY <1>0, <1>1 DEF Get, Prompted, Stamped, OldIsRecent, OutdatedReply, TypeOK
  <2>3. QED
    BY <2>1, <2>2 DEF GuidanceInv
<1>2. ASSUME NEW r \in Run, Answered(r)
      PROVE  GuidanceInv'
  <2>1. TypeOK'
    BY <1>0, <1>2 DEF Answered, TypeOK
  <2>2. Stamped' /\ OldIsRecent'
    BY <1>0, <1>2 DEF Answered, Stamped, OldIsRecent, OutdatedReply, TypeOK
  <2>3. QED
    BY <2>1, <2>2 DEF GuidanceInv
<1>3. ASSUME NEW r \in Run, Arrived(r)
      PROVE  GuidanceInv'
  <2>1. TypeOK'
    BY <1>0, <1>3 DEF Arrived, Prompted, TypeOK
  <2>2. Stamped' /\ \A q \in Run : OutdatedReply(q)' => sinceOld' = 0
    BY <1>0, <1>3 DEF Arrived, Prompted, Stamped, OldIsRecent, OutdatedReply, TypeOK
  <2>3. cache' # version' => sinceOld' = 0
    BY <1>0, <1>3 DEF Arrived, OldIsRecent, OutdatedReply
  <2>4. QED
    BY <1>3, <2>1, <2>2, <2>3 DEF GuidanceInv, OldIsRecent, Arrived
<1>4. ASSUME NEW r \in Run, FetchFailed(r) \/ RunEnds(r)
      PROVE  GuidanceInv'
  <2>1. TypeOK'
    BY <1>0, <1>4 DEF FetchFailed, RunEnds, TypeOK
  <2>2. Stamped' /\ OldIsRecent'
    BY <1>0, <1>4 DEF FetchFailed, RunEnds, Stamped, OldIsRecent, OutdatedReply, TypeOK
  <2>3. QED
    BY <2>1, <2>2 DEF GuidanceInv
<1>5. CASE Change
  BY <1>0, <1>5
     DEF Change, GuidanceInv, TypeOK, Stamped, OldIsRecent, OutdatedReply, Version
<1>6. CASE Elapse
  <2> DEFINE old == \E r \in Run : OutdatedReply(r)
  <2>1. /\ sinceFetch' = Older(sinceFetch) /\ sinceReply' = Older(sinceReply)
        /\ sinceOld' = IF old THEN 0 ELSE Older(sinceOld)
        /\ UNCHANGED <<cache, pc, guidance, version>>
    BY <1>6 DEF Elapse
  <2>2. /\ sinceFetch \in 0..Ttl /\ sinceReply \in 0..Ttl /\ sinceOld \in 0..Ttl
        /\ sinceFetch = sinceReply
    BY <1>0 DEF TypeOK, Stamped
  <2>3. /\ sinceFetch' \in 0..Ttl /\ sinceOld' \in 0..Ttl
        /\ sinceOld <= sinceFetch => sinceOld' <= sinceFetch'
    BY <2>1, <2>2 DEF Older
  <2>4. TypeOK'
    BY <1>0, <2>1, <2>2, <2>3 DEF TypeOK
  <2>5. Stamped'
    BY <1>0, <2>1, <2>2 DEF Stamped, Older
  <2>6. OldIsRecent'
    BY <1>0, <2>1, <2>3 DEF OldIsRecent, OutdatedReply
  <2>7. QED
    BY <2>4, <2>5, <2>6 DEF GuidanceInv
<1>7. CASE UNCHANGED vars
  BY <1>0, <1>7 DEF vars, GuidanceInv, TypeOK, Stamped, OldIsRecent, OutdatedReply
<1>8. QED
  BY <1>1, <1>2, <1>3, <1>4, <1>5, <1>6, <1>7 DEF Next

\* The inductive invariant: the stamp is the time of the last reply, and whatever
\* is outdated, in the cache or on its way, has not been so for longer than sinceOld.
THEOREM GuidanceInvariant == Spec => []GuidanceInv
<1>1. QED
  BY GuidanceInit, GuidanceStep, PTL DEF Spec

\* No agent loop starts without guidance, however its fetch fails.
THEOREM TypeCorrect == Spec => []TypeOK
<1>1. GuidanceInv => TypeOK
  BY DEF GuidanceInv
<1>2. QED
  BY <1>1, GuidanceInvariant, PTL

\* The docstring's promise: no connection is opened within ttl_seconds of a reply,
\* unless its fetch was on its way already.
THEOREM NoNeedlessFetch == Spec => FetchesOnlyWhenStale
<1> DEFINE Stale == \A r \in Run : pc[r] = "idle" /\ pc'[r] = "asked" => sinceReply >= Ttl
<1>1. GuidanceInv /\ [Next]_vars => [Stale]_vars
  <2> SUFFICES ASSUME GuidanceInv, Next, NEW q \in Run, pc[q] = "idle", pc'[q] = "asked"
               PROVE  sinceReply >= Ttl
    OBVIOUS
  <2>1. pc \in [Run -> {"idle", "asked", "answered", "prompted"}]
    BY DEF GuidanceInv, TypeOK
  <2>2. Get(q)
    BY <2>1 DEF Next, Get, Answered, Arrived, FetchFailed, RunEnds, Prompted, Change, Elapse
  <2>3. ~Fresh
    BY <2>1, <2>2 DEF Get, Prompted
  <2>4. QED
    BY <2>3, TtlAssumption DEF Fresh, GuidanceInv, TypeOK, Stamped
<1>2. QED
  BY <1>1, GuidanceInvariant, PTL DEF Spec, FetchesOnlyWhenStale

\* A prompt is never taken from guidance that was outdated, in SAGA and on the
\* wire, for ttl_seconds or more, however many fetches overlap.
THEOREM OldGuidanceExpires == Spec => OutdatedOnlyForTtl
<1> DEFINE Expires == \A r \in Run :
      pc[r] = "idle" /\ pc'[r] = "prompted" /\ guidance'[r] # version => sinceOld < Ttl
<1>1. GuidanceInv /\ [Next]_vars => [Expires]_vars
  <2> SUFFICES ASSUME GuidanceInv, Next, NEW q \in Run,
                      pc[q] = "idle", pc'[q] = "prompted", guidance'[q] # version
               PROVE  sinceOld < Ttl
    OBVIOUS
  <2>1. /\ pc \in [Run -> {"idle", "asked", "answered", "prompted"}]
        /\ guidance \in [Run -> Version \union {NoGuidance}]
    BY DEF GuidanceInv, TypeOK
  <2>2. Get(q)
    BY <2>1 DEF Next, Get, Answered, Arrived, FetchFailed, RunEnds, Prompted, Change, Elapse
  <2>3. Fresh /\ guidance'[q] = cache
    BY <2>1, <2>2 DEF Get, Prompted
  <2>4. sinceOld <= sinceFetch /\ sinceFetch < Ttl
    BY <2>3 DEF Fresh, GuidanceInv, OldIsRecent
  <2>5. QED
    BY <2>4, TtlAssumption DEF GuidanceInv, TypeOK
<1>2. QED
  BY <1>1, GuidanceInvariant, PTL DEF Spec, OutdatedOnlyForTtl
=============================================================================
