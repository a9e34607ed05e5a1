--------------------------- MODULE AttemptPipeline ---------------------------
(***************************************************************************)
(* One attempt from spawn to verdict: run_attempt in src/src/engine.rs     *)
(* with the gates of src/src/gates.rs and the review passes of             *)
(* src/src/review.rs, each run in a snapshot of GateSnapshots.  What       *)
(* happens to the result afterwards is Engine's business; here an attempt  *)
(* ends in a failure or in none.                                           *)
(***************************************************************************)
EXTENDS GateSnapshots, AgentOutcome, Sequences

CONSTANTS
  Plans,         \* what review may be bound to, for the task in hand
  Implementers,  \* the bindings the task's chain may run it on
  GateCounts,    \* how many gates a run may have
  PassClock      \* bound: the wall clock of a pass, in units

ASSUME PipelineBounds == GateCounts \subseteq Nat /\ PassClock \in Nat \ {0}

NoBinding == [agent |-> "none", model |-> "none"]

(* What resolve_reviews binds to runs on an adapter of the build; the      *)
(* alternative and the second opinion are of another family than the       *)
(* primary (different_family_at).                                          *)
ASSUME OtherFamilies ==
  /\ \A b \in Implementers : b.agent \in Adapter
  /\ \A p \in Plans :
       /\ \A b \in {p.primary, p.alternative, p.second} : b = NoBinding \/ b.agent \in Adapter
       /\ p.alternative # NoBinding => p.alternative # p.primary
       /\ p.second # NoBinding => p.second # p.primary

VARIABLES
  phase,         \* "ready", "agent", "gates", "reviews" or "done"
  job,           \* the attempt: implementer, plan, gates and passes to run
  call,          \* the review pass in hand
  failure,       \* what is wrong with the attempt so far
  records,       \* the review records the ledger will carry
  witness        \* what really happened (no counterpart in the code)

attemptVars == <<phase, job, call, failure, records, witness>>
vars == <<snapVars, attemptVars>>

NewCall == [invocation |-> 1, session |-> FALSE, clock |-> PassClock, cost |-> 0]
NoJob == [by |-> NoBinding, plan |-> NoBinding, gates |-> 0, passes |-> <<>>]
Unseen == [healthy |-> FALSE, gates |-> 0, gated |-> 0, judged |-> 0,
           approved |-> {}, blind |-> FALSE, billed |-> 0]

ReviewRecord == [by: Implementers \union {b.primary : b \in Plans}
                     \union {b.alternative : b \in Plans} \union {b.second : b \in Plans},
                 outcome: {"Unavailable", "Passed", "Failed"}, cost: Nat]

(* The types; a failure with a reviewer's origin is one of the kinds a      *)
(* review can end in.                                                      *)
TypeOK ==
  /\ SnapTypeOK
  /\ phase \in {"ready", "agent", "gates", "reviews", "done"}
  /\ call \in [invocation: {1, 2}, session: BOOLEAN, clock: 0..PassClock, cost: Nat]
  /\ failure \in AttemptFailure \union {NoFailure}
  /\ failure.origin = "Reviewer" =>
       failure.kind \in {"RateLimited", "Timeout", "ReviewUnavailable", "NeedsHuman",
                         "ReviewInputOpaque", "ReviewInputTooLarge"}
  /\ \A i \in DOMAIN records : records[i] \in ReviewRecord

Init ==
  /\ SnapInit
  /\ phase = "ready" /\ job = NoJob /\ call = NewCall
  /\ failure = NoFailure /\ records = <<>> /\ witness = Unseen

Lost ==
  /\ phase' = "ready" /\ job' = NoJob /\ call' = NewCall
  /\ failure' = NoFailure /\ records' = <<>> /\ witness' = Unseen
-----------------------------------------------------------------------------
(* Fault: the primary is rebound although a second opinion is configured.  *)
PassesFor_AlwaysRebinds(plan, implementer) ==
  LET first == IF plan.alternative # NoBinding /\ plan.primary = implementer
               THEN plan.alternative ELSE plan.primary
  IN  CASE plan.primary = NoBinding -> <<>>
        [] plan.primary # NoBinding /\ plan.second # NoBinding -> <<first, plan.second>>
        [] OTHER -> <<first>>

(* ReviewPlan::passes_for: a second opinion keeps the primary as it is;    *)
(* without one the primary makes way where it would judge its own work.    *)
PassesFor(plan, implementer) ==
  CASE plan.primary = NoBinding -> <<>>
    [] plan.primary # NoBinding /\ plan.second # NoBinding ->
         <<plan.primary, plan.second>>
    [] OTHER ->
         <<IF plan.alternative # NoBinding /\ plan.primary = implementer
           THEN plan.alternative ELSE plan.primary>>

(* An attempt starts while there are names (MaxSnapshots) for both of its  *)
(* snapshots.                                                              *)
StartAttempt(plan, implementer, gates) ==
  /\ engine = "working" /\ Resting /\ phase = "ready"
  /\ Cardinality(used) + 2 <= MaxSnapshots
  /\ phase' = "agent"
  /\ job' = [by |-> implementer, plan |-> plan, gates |-> gates,
             passes |-> PassesFor(plan, implementer)]
  /\ call' = NewCall /\ failure' = NoFailure /\ records' = <<>>
  /\ witness' = [Unseen EXCEPT !.gates = gates]
  /\ UNCHANGED snapVars

(* Every way a child of the adapter can end, and what parse makes of it.   *)
Runs == [a \in Adapter |->
          {[healthy |-> ~p.limited /\ ~p.timed_out /\ ~Failed(a, p),
            late |-> p.timed_out, outcome |-> ParseOutput(a, p)] : p \in Process}]

Edits == {"none", "text", "opaque", "large"}

(* complete_diff_error: opaque bytes are refused even where nobody reviews,*)
(* a long diff only where somebody has to.                                 *)
StaticProblem(edits, reviewed) ==
  CASE edits = "opaque" -> By("ReviewInputOpaque", "Reviewer")
    [] edits = "large" /\ reviewed -> By("ReviewInputTooLarge", "Reviewer")
    [] OTHER -> NoFailure

FirstOf(failures) ==
  LET failing == {i \in DOMAIN failures : failures[i] # NoFailure}
  IN  IF failing = {} THEN NoFailure
      ELSE failures[CHOOSE i \in failing : \A j \in failing : i <= j]

NextPhase(fails, gates, passes) ==
  CASE fails = NoFailure /\ gates > 0 -> "gates"
    [] fails = NoFailure /\ gates = 0 /\ passes # <<>> -> "reviews"
    [] OTHER -> "done"

(* run_attempt from the spawn to review_input_problem_for_tree: `proven` is*)
(* test provenance, `hidden` a filter or attribute that keeps the reviewer *)
(* from seeing what the tree holds.                                        *)
AgentRuns(run, edits, proven, hidden) ==
  /\ engine = "working" /\ phase = "agent"
  /\ LET fails == FirstOf(<<EvaluateOutcome(run.outcome, edits),
                            StaticProblem(edits, job.passes # <<>>),
                            IF proven THEN NoFailure ELSE By("TestProvenance", "Worker"),
                            IF hidden THEN By("ReviewInputOpaque", "Reviewer")
                                      ELSE NoFailure>>)
     IN  /\ failure' = fails
         /\ phase' = NextPhase(fails, job.gates, job.passes)
  /\ witness' = [witness EXCEPT !.healthy = run.healthy]
  /\ UNCHANGED <<snapVars, job, call, records>>

(* Permissions, argv, spawn, transcript, parse or capture fails: the run   *)
(* ends with the attempt still in flight.                                  *)
AttemptErrs ==
  /\ engine = "working" /\ phase = "agent" /\ Fault /\ Down
  /\ UNCHANGED <<disk, maybe>> /\ Rest
  /\ Lost
-----------------------------------------------------------------------------
(* gate_snapshot_for_candidate_in_store, once for gates and once again for *)
(* reviewers.                                                              *)
OpenSnapshot(n) ==
  /\ phase \in {"gates", "reviews"}
  /\ CreateIntent(n)
  /\ UNCHANGED attemptVars

(* run_all: in order, and the first that fails is the last that runs.      *)
GatePasses(n) ==
  /\ phase = "gates" /\ At("live", n) /\ job.gates > 0
  /\ job' = [job EXCEPT !.gates = @ - 1]
  /\ witness' = [witness EXCEPT !.gates = @ - 1, !.gated = n]
  /\ UNCHANGED <<snapVars, phase, call, failure, records>>

(* A nonzero exit, too much output or too little time.                     *)
GateFails(n) ==
  /\ phase = "gates" /\ At("live", n) /\ job.gates > 0
  /\ job' = [job EXCEPT !.gates = 0]
  /\ failure' = By("GateFailed", "Worker")
  /\ UNCHANGED <<snapVars, phase, call, records, witness>>

(* A gate that cannot be spawned is no verdict on the code.                *)
GateErrs(n) ==
  /\ phase = "gates" /\ At("live", n) /\ job.gates > 0
  /\ Fault /\ Step("remove", n) /\ after' = "fail"
  /\ Lost
  /\ UNCHANGED <<disk, maybe, engine, gits, used, outlived, refused, failed, stops>>

(* Fault: reviewers look at the tree the gates built in.                   *)
CloseGates_Reuses(n) ==
  /\ phase = "gates" /\ At("live", n) /\ job.gates = 0
  /\ phase' = NextPhase(failure, 0, job.passes)
  /\ IF phase' = "reviews" THEN UNCHANGED snapVars ELSE Close(n, "work")
  /\ UNCHANGED <<job, call, failure, records, witness>>

CloseGates(n) ==
  /\ phase = "gates" /\ At("live", n) /\ job.gates = 0
  /\ Close(n, "work")
  /\ phase' = NextPhase(failure, 0, job.passes)
  /\ UNCHANGED <<job, call, failure, records, witness>>
-----------------------------------------------------------------------------
Judge == Head(job.passes)

(* The pass is over: what it found, and what it goes into the ledger as.   *)
EndPass(n, result, cost) ==
  LET fails == ReviewFailure(result)
  IN  /\ failure' = fails
      /\ records' = Append(records,
           [by |-> Judge, cost |-> cost,
            outcome |-> CASE result.is = "Unavailable" -> "Unavailable"
                          [] result.is = "Judged" /\ fails = NoFailure -> "Passed"
                          [] OTHER -> "Failed"])
      /\ job' = [job EXCEPT !.passes = IF fails = NoFailure THEN Tail(@) ELSE <<>>]
      /\ call' = NewCall

(* Fault: the re-ask is terse whoever is asked.                            *)
FullPrompt_FirstOnly(c) == c.invocation = 1

(* A terse re-ask needs a session that has read the diff.                  *)
FullPrompt(c) == c.invocation = 1 \/ ~c.session

(* Fault: a pass that comes to nothing cost nothing.                       *)
AddCost_Forgets(c, priced) == IF priced THEN 1 ELSE 0
AddCost(c, priced) == c.cost + (IF priced THEN 1 ELSE 0)

(* One of the two invocations of run_review.  A verdict counts even from a *)
(* process that failed, and only a completed one is asked again.           *)
InvokeReviewer(n, run, left) ==
  /\ phase = "reviews" /\ At("live", n) /\ job.passes # <<>> /\ call.clock > 0
  /\ left <= call.clock /\ (run.late => left = 0)
  /\ LET outcome == run.outcome
         cost == AddCost(call, outcome.priced)
         judged == HasVerdict(outcome)
     IN  /\ \/ /\ judged \/ outcome.status # "Completed" \/ call.invocation = 2
               /\ EndPass(n, CASE judged -> Judged(outcome.detail)
                               [] ~judged /\ outcome.status # "Completed" ->
                                    Unavailable(outcome.status)
                               [] OTHER -> Judged("unparseable"), cost)
            \/ /\ ~judged /\ outcome.status = "Completed" /\ call.invocation = 1
               /\ call' = [invocation |-> 2, session |-> outcome.session,
                           clock |-> left, cost |-> cost]
               /\ UNCHANGED <<job, failure, records>>
         /\ witness' = [witness EXCEPT
              !.judged = n, !.billed = @ + (IF outcome.priced THEN 1 ELSE 0),
              !.blind = @ \/ (judged /\ ~(FullPrompt(call) \/ call.session)),
              !.approved = IF outcome.detail = "pass" THEN @ \union {Judge} ELSE @]
  /\ UNCHANGED <<snapVars, phase>>

(* Fault: a pass without time is left to whoever comes next.               *)
PassRunsOut_Never(n) == FALSE /\ UNCHANGED vars

PassRunsOut(n) ==
  /\ phase = "reviews" /\ At("live", n) /\ job.passes # <<>> /\ call.clock = 0
  /\ EndPass(n, Unavailable("Timeout"), call.cost)
  /\ UNCHANGED <<snapVars, phase, witness>>

(* unavailable_after_error: permissions, argv or spawn; or the transcript, *)
(* where only the price of what ran is kept.                               *)
PassErrs(n, priced) ==
  /\ phase = "reviews" /\ At("live", n) /\ job.passes # <<>> /\ Fault
  /\ EndPass(n, Unavailable("AgentError"), AddCost(call, priced))
  /\ witness' = [witness EXCEPT !.billed = @ + (IF priced THEN 1 ELSE 0)]
  /\ UNCHANGED <<disk, maybe, engine, at, phase>> /\ Rest

CloseReviews(n) ==
  /\ phase = "reviews" /\ At("live", n) /\ job.passes = <<>>
  /\ Close(n, "work") /\ phase' = "done"
  /\ UNCHANGED <<job, call, failure, records, witness>>

Settled ==
  /\ engine = "working" /\ Resting /\ phase = "done"
  /\ Lost /\ UNCHANGED snapVars
-----------------------------------------------------------------------------
(* What git, the file system and the operator do leaves the attempt alone, *)
(* until the engine is gone.                                               *)
Beneath ==
  /\ SnapSteps \/ ResumeRun \/ Killed \/ PowerLoss \/ \E n \in Names : Spoil(n)
  /\ IF engine' = "down" THEN Lost ELSE UNCHANGED attemptVars

Working ==
  \/ \E plan \in Plans, b \in Implementers, gates \in GateCounts :
       StartAttempt(plan, b, gates)
  \/ phase = "agent" /\ \E run \in Runs[job.by.agent], edits \in Edits,
                           proven, hidden \in BOOLEAN :
       AgentRuns(run, edits, proven, hidden)
  \/ AttemptErrs \/ Settled

Verifying ==
  /\ phase \in {"gates", "reviews"}
  /\ \E n \in Names :
       \/ OpenSnapshot(n)
       \/ GatePasses(n) \/ GateFails(n) \/ GateErrs(n) \/ CloseGates(n)
       \/ job.passes # <<>> /\ \E run \in Runs[Judge.agent], left \in 0..PassClock :
            InvokeReviewer(n, run, left)
       \/ PassRunsOut(n) \/ CloseReviews(n)
       \/ \E priced \in BOOLEAN : PassErrs(n, priced)

Next == Beneath \/ Working \/ Verifying

(* Children end, by themselves or by the clock proc.rs puts on them;       *)
(* somebody resumes a run that stopped.                                    *)
Fairness ==
  /\ WF_vars(SnapSteps /\ Beneath) /\ WF_vars(ResumeRun /\ Beneath)
  /\ WF_vars(Verifying)

Spec == Init /\ [][Next]_vars /\ Fairness
-----------------------------------------------------------------------------
(* "the engine is about to commit on the strength of it" (engine.rs:3893): *)
(* an attempt without a failure comes from a process that ended well, has  *)
(* passed every gate, and every judge of its plan has said a plain pass.   *)
PassMeansVerified ==
  phase = "done" /\ failure = NoFailure =>
    /\ witness.healthy /\ witness.gates = 0
    /\ \A b \in {PassesFor(job.plan, job.by)[i] :
                  i \in DOMAIN PassesFor(job.plan, job.by)} : b \in witness.approved

(* Nobody judges what the gates left behind: the candidate is checked out  *)
(* again for the reviewers (engine.rs:3764).                               *)
JudgesGetTheirOwnTree == witness.judged # 0 => witness.judged # witness.gated

(* No model is both author and judge where the plan has another, and a     *)
(* second opinion is never the first one asked again (review.rs:308).      *)
SecondLook ==
  \A i \in DOMAIN records :
    /\ records[i].by = job.by =>
         job.plan.alternative = NoBinding \/ job.plan.second # NoBinding
    /\ \A j \in DOMAIN records : records[i].by = records[j].by => i = j

(* The worker answers for what its process did and the reviewer for its    *)
(* own outages: an attempt that went well is never filed as a failed       *)
(* process, a failed process asks nobody anything, and a judge that did    *)
(* not run is deferred, not escalated.                                     *)
BlameIsRight ==
  /\ failure.kind \in OutcomeStatus /\ failure.origin = "Worker" => ~witness.healthy
  /\ failure = By("NeedsHuman", "Worker") => witness.healthy
  /\ (\E i \in DOMAIN records : records[i].outcome = "Unavailable")
       <=> (failure.origin = "Reviewer" /\ IsOutage(failure))

(* What the judges charged is what the ledger adds up to, whichever way a  *)
(* pass ends (review.rs:615): the units of the records are counted.        *)
ReviewSpendRecorded ==
  witness.billed =
    call.cost + Cardinality(UNION {{i} \X (1..records[i].cost) : i \in DOMAIN records})

(* "a verdict from an agent that read nothing is worthless" (review.rs:606)*)
NoBlindVerdict == ~witness.blind

(* However gates and judges answer, time out or are asked again, the       *)
(* attempt they verify ends.                                               *)
VerificationEnds == phase \in {"gates", "reviews"} ~> phase \in {"ready", "done"}

(* What a dead engine left is taken away by the resumes that follow,       *)
(* whatever failed meanwhile, unless git will not let go of one of it:     *)
(* that one stops every resume, and what it had not come to stays too.     *)
LeftoversGo ==
  \A n \in Names : (engine = "down" /\ disk[n].intent)
    ~> (~disk[n].intent \/ \E m \in Names : disk[m].intent /\ Stuck(m))

(* What a passing attempt promises is what happened: every gate and every  *)
(* judge of the plan passed it, each on an untouched checkout of the       *)
(* candidate, having read it, and by another model where there is one.     *)
JudgedAsPromised ==
  TypeOK /\ PassMeansVerified /\ LiveIsIntact /\ JudgesGetTheirOwnTree
         /\ SecondLook /\ NoBlindVerdict

(* The settlement says whose failure it was and what was spent on finding  *)
(* out, whichever way the agent, a gate or a judge ended.                  *)
BlameAndBill == BlameIsRight /\ ReviewSpendRecorded

(* Nothing of an attempt goes on for ever: not its verification, and not   *)
(* the worktrees of one that died.                                         *)
AttemptsEnd == VerificationEnds /\ LeftoversGo
=============================================================================
