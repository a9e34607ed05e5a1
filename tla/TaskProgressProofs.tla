------------------------- MODULE TaskProgressProofs -------------------------
(***************************************************************************)
(* What each event's effect on a Progress record leaves in the fields the  *)
(* accounts are kept in.                                                   *)
(***************************************************************************)
EXTENDS TaskProgress, TLAPS

(* u32::saturating_sub(1) of a counter is a counter.                       *)
LEMMA SaturatingPredType ==
  ASSUME NEW n \in Nat
  PROVE  SaturatingPred(n) \in Nat
  BY DEF SaturatingPred

(* A new task's record.                                                    *)
LEMMA NewProgressFields ==
  /\ NewProgress \in Progress
  /\ NewProgress.rung = 0 /\ NewProgress.attempts_on_rung = 0
  /\ NewProgress.attempts = 0 /\ NewProgress.in_flight = FALSE
  BY DEF NewProgress, Progress

(* attempt_started counts the attempt before anything runs.                *)
LEMMA StartedFields ==
  ASSUME NEW p \in Progress
  PROVE  /\ Started(p) \in Progress
         /\ Started(p).rung = p.rung
         /\ Started(p).attempts_on_rung = p.attempts_on_rung + 1
         /\ Started(p).attempts = p.attempts + 1
         /\ Started(p).in_flight = TRUE
<1> DEFINE attempts == p.attempts + 1
           on_rung == p.attempts_on_rung + 1
<1>1. attempts \in Nat /\ on_rung \in Nat /\ ResumesSession(p) \in BOOLEAN
  BY DEF ResumesSession, Progress
<1>2. Started(p) = [p EXCEPT !.attempts = attempts,
                             !.attempts_on_rung = on_rung,
                             !.in_flight = TRUE,
                             !.session = ResumesSession(p)]
  BY DEF Started
<1> HIDE DEF attempts, on_rung
<1>3. /\ Started(p) \in Progress
      /\ Started(p).rung = p.rung
      /\ Started(p).attempts_on_rung = on_rung
      /\ Started(p).attempts = attempts
      /\ Started(p).in_flight = TRUE
  BY <1>1, <1>2 DEF Progress
<1> QED
  BY <1>3 DEF attempts, on_rung

(* attempt_interrupted returns the allowance and keeps the number.         *)
LEMMA InterruptedFields ==
  ASSUME NEW p \in Progress
  PROVE  /\ Interrupted(p) \in Progress
         /\ Interrupted(p).rung = p.rung
         /\ Interrupted(p).attempts_on_rung = SaturatingPred(p.attempts_on_rung)
         /\ Interrupted(p).attempts = p.attempts
         /\ Interrupted(p).in_flight = FALSE
<1>1. SaturatingPred(p.attempts_on_rung) \in Nat
  BY SaturatingPredType DEF Progress
<1> QED
  BY <1>1 DEF Interrupted, Progress

(* A settlement ends the attempt and charges nothing by itself.            *)
LEMMA SettledFields ==
  ASSUME NEW p \in Progress, NEW reported \in BOOLEAN
  PROVE  /\ Settled(p, reported) \in Progress
         /\ Settled(p, reported).rung = p.rung
         /\ Settled(p, reported).attempts_on_rung = p.attempts_on_rung
         /\ Settled(p, reported).attempts = p.attempts
         /\ Settled(p, reported).in_flight = FALSE
<1>1. (p.session \/ reported) \in BOOLEAN
  BY DEF Progress
<1> QED
  BY <1>1 DEF Settled, Progress

(* The decisions that travel with a failed settlement.                     *)
LEMMA DecisionFields ==
  ASSUME NEW p \in Progress, NEW resume \in BOOLEAN
  PROVE  /\ /\ Retried(p, resume) \in Progress
            /\ Retried(p, resume).rung = p.rung
            /\ Retried(p, resume).attempts_on_rung = p.attempts_on_rung
            /\ Retried(p, resume).attempts = p.attempts
            /\ Retried(p, resume).in_flight = p.in_flight
         /\ /\ Escalated(p) \in Progress
            /\ Escalated(p).rung = p.rung + 1
            /\ Escalated(p).attempts_on_rung = 0
            /\ Escalated(p).attempts = p.attempts
            /\ Escalated(p).in_flight = p.in_flight
         /\ /\ Deferred(p) \in Progress
            /\ Deferred(p).rung = p.rung
            /\ Deferred(p).attempts_on_rung = SaturatingPred(p.attempts_on_rung)
            /\ Deferred(p).attempts = p.attempts
            /\ Deferred(p).in_flight = p.in_flight
<1>1. /\ SaturatingPred(p.attempts_on_rung) \in Nat
      /\ p.rung + 1 \in Nat
      /\ p.defers + 1 \in Nat
  BY SaturatingPredType DEF Progress
<1>2. /\ Retried(p, resume) \in Progress
      /\ Retried(p, resume).rung = p.rung
      /\ Retried(p, resume).attempts_on_rung = p.attempts_on_rung
      /\ Retried(p, resume).attempts = p.attempts
      /\ Retried(p, resume).in_flight = p.in_flight
  BY DEF Retried, Progress
<1>3. /\ Escalated(p) \in Progress
      /\ Escalated(p).rung = p.rung + 1
      /\ Escalated(p).attempts_on_rung = 0
      /\ Escalated(p).attempts = p.attempts
      /\ Escalated(p).in_flight = p.in_flight
  <2> DEFINE rung == p.rung + 1
             none == 0
  <2>1. Escalated(p) = [p EXCEPT !.rung = rung,
                                 !.attempts_on_rung = none,
                                 !.session = FALSE,
                                 !.resume_next = FALSE]
    BY DEF Escalated
  <2>2. rung \in Nat /\ none \in Nat
    BY <1>1
  <2> HIDE DEF rung, none
  <2>3. /\ Escalated(p) \in Progress
        /\ Escalated(p).rung = rung
        /\ Escalated(p).attempts_on_rung = none
        /\ Escalated(p).attempts = p.attempts
        /\ Escalated(p).in_flight = p.in_flight
    BY <2>1, <2>2 DEF Progress
  <2> QED
    BY <2>3 DEF rung, none
<1>4. /\ Deferred(p) \in Progress
      /\ Deferred(p).rung = p.rung
      /\ Deferred(p).attempts_on_rung = SaturatingPred(p.attempts_on_rung)
      /\ Deferred(p).attempts = p.attempts
      /\ Deferred(p).in_flight = p.in_flight
  <2> DEFINE defers == p.defers + 1
             on_rung == SaturatingPred(p.attempts_on_rung)
  <2>1. Deferred(p) = [p EXCEPT !.attempts_on_rung = on_rung,
                                !.defers = defers,
                                !.session = FALSE,
                                !.resume_next = FALSE]
    BY DEF Deferred
  <2>2. on_rung \in Nat /\ defers \in Nat
    BY <1>1
  <2> HIDE DEF defers, on_rung
  <2>3. /\ Deferred(p) \in Progress
        /\ Deferred(p).rung = p.rung
        /\ Deferred(p).attempts_on_rung = on_rung
        /\ Deferred(p).attempts = p.attempts
        /\ Deferred(p).in_flight = p.in_flight
    BY <2>1, <2>2 DEF Progress
  <2> QED
    BY <2>3 DEF on_rung
<1> QED
  BY <1>2, <1>3, <1>4

(* Parking gives the allowance back only when asked to.                    *)
LEMMA ParkedFields ==
  ASSUME NEW p \in Progress
  PROVE  /\ /\ Parked(p, TRUE) \in Progress
            /\ Parked(p, TRUE).rung = p.rung
            /\ Parked(p, TRUE).attempts_on_rung =
                 SaturatingPred(p.attempts_on_rung)
            /\ Parked(p, TRUE).attempts = p.attempts
            /\ Parked(p, TRUE).in_flight = p.in_flight
         /\ /\ Parked(p, FALSE) \in Progress
            /\ Parked(p, FALSE).rung = p.rung
            /\ Parked(p, FALSE).attempts_on_rung = p.attempts_on_rung
            /\ Parked(p, FALSE).attempts = p.attempts
            /\ Parked(p, FALSE).in_flight = p.in_flight
<1>1. SaturatingPred(p.attempts_on_rung) \in Nat
  BY SaturatingPredType DEF Progress
<1> QED
  BY <1>1 DEF Parked, Progress

(* An answer re-arms the rung only if it answers the chain's exhaustion.   *)
LEMMA AnsweredFields ==
  ASSUME NEW p \in Progress, NEW kind
  PROVE  /\ Answered(p, kind) \in Progress
         /\ Answered(p, kind).rung = p.rung
         /\ Answered(p, kind).attempts_on_rung =
              IF kind = "Unblock" THEN 0 ELSE p.attempts_on_rung
         /\ Answered(p, kind).attempts = p.attempts
         /\ Answered(p, kind).in_flight = p.in_flight
  BY DEF Answered, Progress

(* A resume drops the session and nothing else.                            *)
LEMMA ResumedFields ==
  ASSUME NEW p \in Progress
  PROVE  /\ Resumed(p) \in Progress
         /\ Resumed(p).rung = p.rung
         /\ Resumed(p).attempts_on_rung = p.attempts_on_rung
         /\ Resumed(p).attempts = p.attempts
         /\ Resumed(p).in_flight = p.in_flight
  BY DEF Resumed, Progress

(* An outage is counted once, an answer forgets all of them, and nothing   *)
(* else touches the count.                                                 *)
LEMMA DefersFields ==
  ASSUME NEW p \in Progress, NEW b \in BOOLEAN
  PROVE  /\ Started(p).defers = p.defers /\ Interrupted(p).defers = p.defers
         /\ Settled(p, b).defers = p.defers /\ Retried(p, b).defers = p.defers
         /\ Escalated(p).defers = p.defers /\ Parked(p, b).defers = p.defers
         /\ Resumed(p).defers = p.defers
         /\ Deferred(p).defers = p.defers + 1
         /\ \A kind : Answered(p, kind).defers = 0
<1>1. Started(p).defers = p.defers /\ Interrupted(p).defers = p.defers
  BY DEF Started, Interrupted, Progress
<1>2. Settled(p, b).defers = p.defers /\ Retried(p, b).defers = p.defers
  BY DEF Settled, Retried, Progress
<1>3. Escalated(p).defers = p.defers /\ Parked(p, b).defers = p.defers
  BY DEF Escalated, Parked, Progress
<1>4. Resumed(p).defers = p.defers /\ \A kind : Answered(p, kind).defers = 0
  BY DEF Resumed, Answered, Progress
<1>5. Deferred(p).defers = p.defers + 1
  BY DEF Deferred, Progress
<1> QED
  BY <1>1, <1>2, <1>3, <1>4, <1>5

(* Whatever a failed settlement decides, the record stays one.             *)
LEMMA SettledWithType ==
  ASSUME NEW p \in Progress, NEW reported \in BOOLEAN, NEW next \in Decision,
         NEW parks \in BOOLEAN, NEW refund \in BOOLEAN
  PROVE  SettledWith(p, reported, next, parks, refund) \in Progress
<1> DEFINE s == Settled(p, reported)
           moved == CASE next.step = "Retry"    -> Retried(s, next.resume)
                      [] next.step = "Escalate" -> Escalated(s)
                      [] next.step = "Defer"    -> Deferred(s)
                      [] OTHER                  -> s
<1>1. s \in Progress
  BY SettledFields
<1>2. next.resume \in BOOLEAN
  BY DEF Decision
<1>3. moved \in Progress
  <2> HIDE DEF s
  <2> QED
    BY <1>1, <1>2, DecisionFields
<1>4. SettledWith(p, reported, next, parks, refund) =
        IF parks THEN Parked(moved, refund) ELSE moved
  BY DEF SettledWith
<1>5. Parked(moved, refund) \in {Parked(moved, TRUE), Parked(moved, FALSE)}
  <2> HIDE DEF moved
  <2>1. CASE refund
    BY <2>1 DEF Parked
  <2>2. CASE ~refund
    BY <2>2 DEF Parked
  <2> QED
    BY <2>1, <2>2
<1> HIDE DEF moved
<1> QED
  BY <1>3, <1>4, <1>5, ParkedFields

(* The session survives a settlement that reported one; only a retry asks  *)
(* for it, and whatever stops the task or changes its rung drops it.       *)
LEMMA SessionDropped ==
  ASSUME NEW p \in Progress
  PROVE  /\ Started(p).session <=> ResumesSession(p)
         /\ Started(p).resume_next <=> p.resume_next
         /\ ~Interrupted(p).resume_next
         /\ ~Escalated(p).resume_next
         /\ ~Deferred(p).resume_next
         /\ ~Resumed(p).resume_next
         /\ \A kind : ~Answered(p, kind).resume_next
<1>1. /\ Started(p).session <=> ResumesSession(p)
      /\ Started(p).resume_next <=> p.resume_next
  BY DEF Started, Progress
<1>2. ~Interrupted(p).resume_next /\ ~Escalated(p).resume_next
  BY DEF Interrupted, Escalated, Progress
<1>3. /\ ~Deferred(p).resume_next /\ ~Resumed(p).resume_next
      /\ \A kind : ~Answered(p, kind).resume_next
  BY DEF Deferred, Resumed, Answered, Progress
<1> QED
  BY <1>1, <1>2, <1>3

LEMMA SessionKept ==
  ASSUME NEW p \in Progress, NEW b \in BOOLEAN
  PROVE  /\ Settled(p, b).session <=> p.session \/ b
         /\ Settled(p, b).resume_next <=> p.resume_next
         /\ Retried(p, b).session <=> p.session
         /\ Retried(p, b).resume_next <=> b
         /\ ~Parked(p, b).resume_next
<1>1. /\ Settled(p, b).session <=> p.session \/ b
      /\ Settled(p, b).resume_next <=> p.resume_next
  BY DEF Settled, Progress
<1>2. (Retried(p, b).session <=> p.session) /\ (Retried(p, b).resume_next <=> b)
  BY DEF Retried, Progress
<1>3. ~Parked(p, b).resume_next
  BY DEF Parked, Progress
<1> QED
  BY <1>1, <1>2, <1>3

(* What a failed settlement leaves, by the decision that travels with it.  *)
LEMMA SettledWithFields ==
  ASSUME NEW p \in Progress, NEW reported \in BOOLEAN, NEW next \in Decision,
         NEW parks \in BOOLEAN, NEW refund \in BOOLEAN, next.step # "Fail",
         next.step = "AskHuman" => parks,
         next.step \in {"Retry", "Defer"} => ~parks,
         next.step = "Retry" => (next.resume => p.session \/ reported)
  PROVE  LET q == SettledWith(p, reported, next, parks, refund)
         IN /\ ~q.in_flight /\ q.attempts = p.attempts
            /\ next.step = "Retry" =>
                 /\ q.rung = p.rung /\ q.attempts_on_rung = p.attempts_on_rung
                 /\ q.resume_next => q.session
            /\ next.step = "Escalate" =>
                 q.attempts_on_rung = 0 /\ ~q.resume_next
            /\ next.step = "Defer" =>
                 /\ ~q.resume_next
                 /\ q.attempts_on_rung = SaturatingPred(p.attempts_on_rung)
            /\ next.step = "AskHuman" =>
                 /\ ~q.resume_next
                 /\ q.attempts_on_rung = IF refund
                                         THEN SaturatingPred(p.attempts_on_rung)
                                         ELSE p.attempts_on_rung
<1> DEFINE s == Settled(p, reported)
           moved == CASE next.step = "Retry"    -> Retried(s, next.resume)
                      [] next.step = "Escalate" -> Escalated(s)
                      [] next.step = "Defer"    -> Deferred(s)
                      [] OTHER                  -> s
           q == SettledWith(p, reported, next, parks, refund)
<1>1. /\ s \in Progress /\ s.in_flight = FALSE /\ s.attempts = p.attempts
      /\ s.rung = p.rung /\ s.attempts_on_rung = p.attempts_on_rung
      /\ (s.session <=> p.session \/ reported)
  <2>1. /\ s \in Progress /\ s.in_flight = FALSE /\ s.attempts = p.attempts
        /\ s.rung = p.rung /\ s.attempts_on_rung = p.attempts_on_rung
    BY SettledFields
  <2>2. s.session <=> p.session \/ reported
    BY SessionKept
  <2> QED
    BY <2>1, <2>2
<1>2. next.resume \in BOOLEAN
  BY DEF Decision
<1>3. q = IF parks THEN Parked(moved, refund) ELSE moved
  BY DEF SettledWith
<1> HIDE DEF s, q
<1>4. /\ moved \in Progress /\ moved.in_flight = FALSE
      /\ moved.attempts = p.attempts
      /\ next.step = "Retry" =>
           /\ moved.rung = p.rung
           /\ moved.attempts_on_rung = p.attempts_on_rung
           /\ (moved.resume_next <=> next.resume)
           /\ (moved.session <=> p.session \/ reported)
      /\ next.step = "Escalate" =>
           /\ moved.rung = p.rung + 1 /\ moved.attempts_on_rung = 0
           /\ ~moved.resume_next
      /\ next.step = "Defer" =>
           /\ moved.rung = p.rung /\ ~moved.resume_next
           /\ moved.attempts_on_rung = SaturatingPred(p.attempts_on_rung)
      /\ next.step = "AskHuman" =>
           /\ moved.rung = p.rung
           /\ moved.attempts_on_rung = p.attempts_on_rung
  <2>1. CASE next.step = "Retry"
    <3>1. moved = Retried(s, next.resume)
      BY <2>1
    <3>2. /\ Retried(s, next.resume).session <=> s.session
          /\ Retried(s, next.resume).resume_next <=> next.resume
      BY <1>1, <1>2, SessionKept
    <3> HIDE DEF moved
    <3> QED
      BY <1>1, <1>2, <2>1, <3>1, <3>2, DecisionFields
  <2>2. CASE next.step = "Escalate"
    <3>1. moved = Escalated(s)
      BY <2>2
    <3>2. ~Escalated(s).resume_next
      BY <1>1, SessionDropped
    <3> HIDE DEF moved
    <3> QED
      BY <1>1, <1>2, <2>2, <3>1, <3>2, DecisionFields
  <2>3. CASE next.step = "Defer"
    <3>1. moved = Deferred(s)
      BY <2>3
    <3>2. ~Deferred(s).resume_next
      BY <1>1, SessionDropped
    <3> HIDE DEF moved
    <3> QED
      BY <1>1, <1>2, <2>3, <3>1, <3>2, DecisionFields
  <2>4. CASE next.step \in {"AskHuman", "Fail"}
    <3>1. moved = s
      BY <2>4
    <3> HIDE DEF moved
    <3> QED
      BY <1>1, <2>4, <3>1
  <2> QED
    BY <2>1, <2>2, <2>3, <2>4 DEF Decision
<1> HIDE DEF moved
<1>5. CASE ~parks
  <2>1. q = moved /\ next.step # "AskHuman"
    BY <1>3, <1>5
  <2>2. next.step = "Retry" => (moved.resume_next => moved.session)
    BY <1>4, Zenon
  <2> QED
    BY <1>4, <2>1, <2>2 DEF q
<1>6. CASE parks
  <2>1. q = Parked(moved, refund)
    BY <1>3, <1>6
  <2>2. /\ q.in_flight = FALSE /\ q.attempts = p.attempts
        /\ ~q.resume_next /\ q.rung = moved.rung
        /\ q.attempts_on_rung = IF refund
                                THEN SaturatingPred(moved.attempts_on_rung)
                                ELSE moved.attempts_on_rung
    <3>1. ~q.resume_next
      BY <1>4, <2>1, SessionKept
    <3>2. CASE refund = TRUE
      BY <1>4, <2>1, <3>1, <3>2, ParkedFields
    <3>3. CASE refund = FALSE
      BY <1>4, <2>1, <3>1, <3>3, ParkedFields
    <3> QED
      BY <3>2, <3>3
  <2>3. next.step = "Escalate" => q.attempts_on_rung = 0
    BY <1>4, <2>2 DEF SaturatingPred
  <2>4. next.step \notin {"Retry", "Defer"}
    BY <1>6
  <2> QED
    BY <1>4, <2>2, <2>3, <2>4 DEF q
<1> QED
  BY <1>5, <1>6
=============================================================================
