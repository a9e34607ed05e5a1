---------------------------- MODULE PoolSignals ----------------------------
(***************************************************************************)
(* Which subscription pools are known to be exhausted, told twice: by the  *)
(* fold of the log (capacity::observe, src/src/capacity.rs), which status, *)
(* the estimator and a resume read, and by the set the running engine      *)
(* keeps (exhausted_pools, src/src/engine.rs), which decides whether an    *)
(* outage is announced as a pool_exhausted event.                          *)
(*                                                                         *)
(* An attempt draws on the worker's pool and on those of the review passes *)
(* that ran; pools nobody named are not modelled, since neither side       *)
(* tracks them.                                                            *)
(***************************************************************************)
EXTENDS Naturals

CONSTANTS Pools,         \* the pools of the pools file
          MaxResumes     \* bound: processes that die and are resumed

ASSUME PoolsAssumption == MaxResumes \in Nat

VARIABLES
  observed,      \* exhausted pools by the fold of the log (durable)
  exhausted,     \* exhausted_pools of the running engine (volatile)
  settling,      \* {the settlement whose aftermath the engine still owes}
  announced,     \* pools whose present outage has a pool_exhausted event
  resumes

poolVars == <<observed, exhausted, settling, announced, resumes>>

(* A finished attempt.  `judged` are the pools of the review passes that   *)
(* reached a verdict, `limited` is {the pool that refused} after a rate    *)
(* limit.  A worker that is refused never gets as far as a review.         *)
Settlement ==
  {s \in [worker: Pools, judged: SUBSET Pools, limited: SUBSET Pools,
          origin: {"none", "Worker", "Reviewer"}, passed: BOOLEAN] :
     /\ s.passed => s.origin = "none"
     /\ s.origin = "none" => s.limited = {}
     /\ s.origin = "Worker" => s.limited = {s.worker} /\ s.judged = {}
     /\ s.origin = "Reviewer" => \E pool \in Pools : s.limited = {pool}}

(* The pools an attempt proves to be serving again.                        *)
Served(s) == s.judged \union (IF s.origin = "Worker" THEN {} ELSE {s.worker})

(* One step of observe: retire what served, then mark what refused.        *)
ObserveSettlement(s) == (observed \ Served(s)) \union s.limited

PoolInit ==
  /\ observed = {} /\ exhausted = {} /\ settling = {}
  /\ announced = {} /\ resumes = 0

(* The types of the two accounts and of the settlement under way.          *)
PoolTypeOK ==
  /\ observed \subseteq Pools /\ exhausted \subseteq Pools
  /\ settling \subseteq Settlement
  /\ announced \subseteq Pools
  /\ resumes \in Nat

(* attempt_finished is appended; the engine's own set comes afterwards.    *)
Settle(s) ==
  /\ settling = {}
  /\ settling' = {s}
  /\ observed' = ObserveSettlement(s)
  /\ announced' = announced \ Served(s)
  /\ UNCHANGED <<exhausted, resumes>>

(* A passing attempt returns from step_task before the set is touched.     *)
AfterSuccess(s) ==
  /\ s.passed
  /\ settling' = {}
  /\ UNCHANGED <<observed, exhausted, announced, resumes>>

(* A failed one retires what served, and announces a refusal by a pool     *)
(* that is not in the set.                                                 *)
StillOut(s) == exhausted \ Served(s)
Announces(s) == s.limited \ StillOut(s)

(* Fault: the set holds only the pool that refused last.                   *)
AfterFailure_ForgetsOthers(s) ==
  /\ ~s.passed
  /\ settling' = {}
  /\ exhausted' = s.limited
  /\ announced' = announced \union Announces(s)
  /\ UNCHANGED <<observed, resumes>>

AfterFailure(s) ==
  /\ ~s.passed
  /\ settling' = {}
  /\ exhausted' = StillOut(s) \union s.limited
  /\ announced' = announced \union Announces(s)
  /\ UNCHANGED <<observed, resumes>>

(* Fault: the resumed process starts with an empty set.                    *)
CrashAndResume_Unseeded ==
  /\ resumes < MaxResumes
  /\ resumes' = resumes + 1
  /\ settling' = {} /\ exhausted' = {}
  /\ UNCHANGED <<observed, announced>>

(* The process dies; the resumed one seeds its set from the log.  An       *)
(* attempt the crash interrupted proves nothing about its pool.            *)
CrashAndResume ==
  /\ resumes < MaxResumes
  /\ resumes' = resumes + 1
  /\ settling' = {}
  /\ exhausted' = observed
  /\ UNCHANGED <<observed, announced>>

PoolNext ==
  \/ \E s \in Settlement : Settle(s)
  \/ \E s \in settling : AfterSuccess(s) \/ AfterFailure(s)
  \/ CrashAndResume

PoolSpec == PoolInit /\ [][PoolNext]_poolVars
-----------------------------------------------------------------------------
(* The engine never forgets an outage the log knows of: once a settlement  *)
(* is dealt with, every pool the fold calls exhausted is in the engine's   *)
(* set, over crashes between the settlement and its pool_exhausted event.  *)
OutagesRemembered == settling = {} => observed \subseteq exhausted

(* One outage is told once, however many deferred attempts run into it and *)
(* however often the process dies meanwhile: what the engine is about to   *)
(* announce has no event yet (engine.rs, exhausted_pools: "Only the        *)
(* transition is worth an event").                                         *)
ToldOnce == \A s \in settling : Announces(s) \intersect announced = {}

(* "so the log the engine writes and the fold a reader performs agree      *)
(* about when a pool came back": the engine's set is what the fold says.   *)
EngineAgreesWithLog == settling = {} => exhausted = observed
=============================================================================
