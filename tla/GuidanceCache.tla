---------------------------- MODULE GuidanceCache ----------------------------
(***************************************************************************)
(* GuidanceProvider: the store guidance that runs put into their system    *)
(* prompts, cached for ttl_seconds.  One provider serves all runs of a     *)
(* process, and a run that finds the cache stale fetches by itself: the    *)
(* fetches of several runs overlap, and replies come in any order.         *)
(***************************************************************************)
EXTENDS Integers

CONSTANTS
  Run,         \* slots in which runs follow each other
  Ttl,         \* ttl_seconds, in units of time
  MaxVersion,  \* bound: changes of the guidance in SAGA
  NoGuidance

Version == 0..MaxVersion

ASSUME TtlAssumption == Ttl \in Nat
ASSUME VersionAssumption == MaxVersion \in Nat /\ NoGuidance \notin Version

VARIABLES
  cache,       \* _cache
  sinceFetch,  \* the time since _fetched_at, at most Ttl
  pc,          \* where a run is: see below
  guidance,    \* what the server answered it, or its prompt was built from
  version,     \* the guidance SAGA has now (external)
  sinceReply,  \* the time since a reply arrived, at most Ttl (history)
  sinceOld     \* the time since a change, or since an outdated reply was on its way (history)

vars == <<cache, sinceFetch, pc, guidance, version, sinceReply, sinceOld>>

Init ==
  /\ cache = NoGuidance /\ sinceFetch = Ttl
  /\ pc = [r \in Run |-> "idle"]
  /\ guidance = [r \in Run |-> NoGuidance]
  /\ version = 0
  /\ sinceReply = Ttl /\ sinceOld = Ttl

Fresh == cache # NoGuidance /\ sinceFetch < Ttl

Prompted(r, g) ==
  /\ pc' = [pc EXCEPT ![r] = "prompted"]
  /\ guidance' = [guidance EXCEPT ![r] = g]

\* A run with placeholders in its prompt calls get(): the cached guidance, or a
\* request to the server.
GetSliding(r) ==                                                 \* mutant
  /\ pc[r] = "idle"
  /\ IF Fresh
       THEN Prompted(r, cache) /\ sinceFetch' = 0
       ELSE pc' = [pc EXCEPT ![r] = "asked"] /\ UNCHANGED <<guidance, sinceFetch>>
  /\ UNCHANGED <<cache, version, sinceReply, sinceOld>>
Get(r) ==
  /\ pc[r] = "idle"
  /\ IF Fresh
       THEN Prompted(r, cache)
       ELSE pc' = [pc EXCEPT ![r] = "asked"] /\ UNCHANGED guidance
  /\ UNCHANGED <<cache, sinceFetch, version, sinceReply, sinceOld>>

\* The server executes get_store_guidance.
Answered(r) ==
  /\ pc[r] = "asked"
  /\ pc' = [pc EXCEPT ![r] = "answered"]
  /\ guidance' = [guidance EXCEPT ![r] = version]
  /\ UNCHANGED <<cache, sinceFetch, version, sinceReply, sinceOld>>

\* The reply arrives.  It replaces whatever the cache holds by now.
ArrivedFirst(r) ==                                               \* mutant
  /\ pc[r] = "answered"
  /\ cache' = IF cache = NoGuidance THEN guidance[r] ELSE cache
  /\ sinceFetch' = 0 /\ sinceReply' = 0
  /\ Prompted(r, cache')
  /\ UNCHANGED <<version, sinceOld>>
ArrivedUnstamped(r) ==                                           \* mutant
  /\ pc[r] = "answered"
  /\ cache' = guidance[r]
  /\ sinceFetch' = IF cache = NoGuidance THEN 0 ELSE sinceFetch
  /\ sinceReply' = 0
  /\ Prompted(r, guidance[r])
  /\ UNCHANGED <<version, sinceOld>>
Arrived(r) ==
  /\ pc[r] = "answered"
  /\ cache' = guidance[r]
  /\ sinceFetch' = 0 /\ sinceReply' = 0
  /\ Prompted(r, guidance[r])
  /\ UNCHANGED <<version, sinceOld>>

\* The fetch raises, answers nonsense or is cancelled: the run ends without a
\* prompt, the cache stays.
FailedQuietly(r) ==                                              \* mutant
  /\ pc[r] \in {"asked", "answered"}
  /\ Prompted(r, NoGuidance)
  /\ UNCHANGED <<cache, sinceFetch, version, sinceReply, sinceOld>>
FetchFailed(r) ==
  /\ pc[r] \in {"asked", "answered"}
  /\ pc' = [pc EXCEPT ![r] = "idle"]
  /\ guidance' = [guidance EXCEPT ![r] = NoGuidance]
  /\ UNCHANGED <<cache, sinceFetch, version, sinceReply, sinceOld>>

\* A run with its prompt ends; its slot is free for the next.
RunEnds(r) ==
  /\ pc[r] = "prompted"
  /\ pc' = [pc EXCEPT ![r] = "idle"]
  /\ guidance' = [guidance EXCEPT ![r] = NoGuidance]
  /\ UNCHANGED <<cache, sinceFetch, version, sinceReply, sinceOld>>

\* Somebody edits the guidance in SAGA.
Change ==
  /\ version < MaxVersion
  /\ version' = version + 1
  /\ sinceOld' = 0
  /\ UNCHANGED <<cache, sinceFetch, pc, guidance, sinceReply>>

OutdatedReply(r) == pc[r] = "answered" /\ guidance[r] # version

Older(age) == IF age < Ttl THEN age + 1 ELSE age

Elapse ==
  /\ sinceFetch' = Older(sinceFetch)
  /\ sinceReply' = Older(sinceReply)
  /\ sinceOld' = IF \E r \in Run : OutdatedReply(r) THEN 0 ELSE Older(sinceOld)
  /\ UNCHANGED <<cache, pc, guidance, version>>

Next ==
  \/ \E r \in Run :
       Get(r) \/ Answered(r) \/ Arrived(r) \/ FetchFailed(r) \/ RunEnds(r)
  \/ Change \/ Elapse

Spec == Init /\ [][Next]_vars

\* Fetches and runs end one way or the other, and time passes.
FairSpec ==
  /\ Spec /\ WF_vars(Elapse)
  /\ \A r \in Run : WF_vars(Answered(r) \/ Arrived(r) \/ FetchFailed(r)) /\ WF_vars(RunEnds(r))
-----------------------------------------------------------------------------
(* Properties.                                                             *)

\* Every variable has its type, and no agent loop starts without guidance.
TypeOK ==
  /\ cache \in Version \union {NoGuidance}
  /\ sinceFetch \in 0..Ttl
  /\ pc \in [Run -> {"idle", "asked", "answered", "prompted"}]
  /\ guidance \in [Run -> Version \union {NoGuidance}]
  /\ version \in Version
  /\ sinceReply \in 0..Ttl /\ sinceOld \in 0..Ttl
  /\ \A r \in Run : pc[r] \in {"answered", "prompted"} => guidance[r] # NoGuidance

\* A run opens a connection only when no reply of anybody's fetch arrived within
\* the last ttl_seconds.
FetchesOnlyWhenStale ==
  [][\A r \in Run : pc[r] = "idle" /\ pc'[r] = "asked" => sinceReply >= Ttl]_vars

\* A prompt taken from the cache is outdated only within ttl_seconds of a change,
\* or of the moment when the last outdated reply was still on its way: however
\* replies overtake each other, no old guidance outlives that.
OutdatedOnlyForTtl ==
  [][\A r \in Run :
       pc[r] = "idle" /\ pc'[r] = "prompted" /\ guidance'[r] # version => sinceOld < Ttl]_vars

\* Once SAGA's guidance stays as it is, all runs come to work with it for good.
GuidanceSpreads ==
  <>[](\A r \in Run : pc[r] = "prompted" => guidance[r] = version)
=============================================================================
