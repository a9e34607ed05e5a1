---------------------------- MODULE TaskProgress ----------------------------
(***************************************************************************)
(* What the log says about one task, and what each event does to it: the   *)
(* Progress record of src/src/events.rs and the part of RunState::apply    *)
(* that rewrites it.  Every operator takes the record a task had and       *)
(* returns the record it has once the event is folded in.                  *)
(*                                                                         *)
(* A session id is only ever held, passed to the next attempt or dropped,  *)
(* so it is a Boolean here ("a session is held").  Feedback and attempt    *)
(* records feed prompts and ledgers and are left out; what a record says   *)
(* about spend is kept by the scheduler's module.                          *)
(*                                                                         *)
(* Here and in the modules built on this one, Name_Fault is Name as a      *)
(* plausible bug would have it, next to the definition it spoils.  Nothing *)
(* refers to these: put in Name's place they show that a property notices. *)
(***************************************************************************)
EXTENDS Ladder

Progress == [rung: Nat, attempts_on_rung: Nat, attempts: Nat,
             session: BOOLEAN, resume_next: BOOLEAN, defers: Nat,
             in_flight: BOOLEAN]

NewProgress == [rung |-> 0, attempts_on_rung |-> 0, attempts |-> 0,
                session |-> FALSE, resume_next |-> FALSE, defers |-> 0,
                in_flight |-> FALSE]

(* u32::saturating_sub(1) *)
SaturatingPred(n) == IF n > 0 THEN n - 1 ELSE 0

(* The session the next attempt is spawned with: resume_next, then a       *)
(* session to resume.                                                      *)
ResumesSession(p) == p.resume_next /\ p.session

(* attempt_started: counted before anything runs, so that an attempt with  *)
(* no matching end is visible to a replay.                                 *)
Started(p) ==
  [p EXCEPT !.attempts = @ + 1,
            !.attempts_on_rung = @ + 1,
            !.in_flight = TRUE,
            !.session = ResumesSession(p)]

(* Faults a run must catch: the charge is kept, or given back twice.       *)
Interrupted_KeepsCharge(p) ==
  [p EXCEPT !.in_flight = FALSE, !.session = FALSE, !.resume_next = FALSE]
Interrupted_RefundsTwice(p) ==
  [Interrupted_KeepsCharge(p) EXCEPT !.attempts_on_rung = @ - 2]

(* attempt_interrupted: the allowance is returned, the number is not.      *)
Interrupted(p) ==
  [p EXCEPT !.in_flight = FALSE,
            !.attempts_on_rung = SaturatingPred(@),
            !.session = FALSE,
            !.resume_next = FALSE]

(* The part of attempt_finished every outcome shares.                      *)
Settled(p, reported) ==
  [p EXCEPT !.in_flight = FALSE, !.session = @ \/ reported]

Retried(p, resume) == [p EXCEPT !.resume_next = resume]

(* Fault: the new rung starts with the old rung's charge.                  *)
Escalated_KeepsCharge(p) ==
  [p EXCEPT !.rung = @ + 1, !.session = FALSE, !.resume_next = FALSE]

Escalated(p) ==
  [p EXCEPT !.rung = @ + 1,
            !.attempts_on_rung = 0,
            !.session = FALSE,
            !.resume_next = FALSE]

(* Faults: an outage is charged, or it is not counted.                     *)
Deferred_Charged(p) ==
  [p EXCEPT !.defers = @ + 1, !.session = FALSE, !.resume_next = FALSE]
Deferred_Uncounted(p) ==
  [p EXCEPT !.attempts_on_rung = SaturatingPred(@),
            !.session = FALSE, !.resume_next = FALSE]

Deferred(p) ==
  [p EXCEPT !.attempts_on_rung = SaturatingPred(@),
            !.defers = @ + 1,
            !.session = FALSE,
            !.resume_next = FALSE]

Parked(p, refund) ==
  [p EXCEPT !.attempts_on_rung = IF refund THEN SaturatingPred(@) ELSE @,
            !.session = FALSE,
            !.resume_next = FALSE]

(* An answer to a question of this kind releases the task.                 *)
Answered(p, kind) ==
  [p EXCEPT !.attempts_on_rung = IF kind = "Unblock" THEN 0 ELSE @,
            !.defers = 0,
            !.resume_next = FALSE]

(* run_resumed: no session survives the process that held it.              *)
Resumed(p) == [p EXCEPT !.session = FALSE, !.resume_next = FALSE]

(* A whole failed settlement: the decision `next`, then the parking that   *)
(* travels with it in the same event.                                      *)
SettledWith(p, reported, next, parks, refund) ==
  LET s == Settled(p, reported)
      moved == CASE next.step = "Retry"    -> Retried(s, next.resume)
                 [] next.step = "Escalate" -> Escalated(s)
                 [] next.step = "Defer"    -> Deferred(s)
                 [] OTHER                  -> s
  IN  IF parks THEN Parked(moved, refund) ELSE moved
=============================================================================
