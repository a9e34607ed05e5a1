-------------------------- MODULE LadderWalkProofs --------------------------
(***************************************************************************)
(* What a rung is charged for, for chains, allowances and deferral limits  *)
(* of any size and any number of answers and crashes.                      *)
(***************************************************************************)
EXTENDS LadderWalk, TaskProgressProofs

(* While an attempt may still be started on this rung, or may be once the  *)
(* task is woken or answered without being re-armed, one is left.          *)
OneLeft ==
  (is \in {"Pending", "Deferred"} \/ asked \in {"Clarify", "ApproveSpend"})
    => charged[p.rung] < AttemptsPer

(* The inductive invariant.  RungsUsedInFull alone is not inductive: it    *)
(* says nothing of a deferred or parked task, whose waking must find an    *)
(* attempt left.                                                           *)
IInv ==
  /\ TypeOK
  /\ p.in_flight => is = "Pending"
  /\ asked # "none" <=> is = "AwaitingInput"
  /\ ChargedExactly
  /\ RungsUsedInFull
  /\ OneLeft

(* What the decision of the ladder can be, by the class of the failure;    *)
(* the four rules of next_step in the order they are tried.                *)
LEMMA Decided ==
  ASSUME NEW f \in AttemptEnds, NEW st, NEW pol, pol.rungs # 0
  PROVE  LET next == NextStep(f, st, pol)
         IN \/ /\ f.kind = "NeedsHuman" /\ ~IsJudged(f)
               /\ next = AskHuman("Clarify")
            \/ /\ IsOutage(f) /\ ~IsJudged(f)
               /\ next \in {Defer, AskHuman("Unblock")}
            \/ /\ ~IsOutage(f) /\ IsJudged(f)
               /\ \/ next = AskHuman("Unblock")
                  \/ /\ st.attempts_on_rung < pol.attempts_per
                     /\ next = RetrySameRung(st.resumable)
                  \/ /\ ~(st.attempts_on_rung < pol.attempts_per)
                     /\ st.rung + 1 < pol.rungs
                     /\ next = Escalate
  BY DEF NextStep, IsOutage, IsJudged, AttemptEnds, AttemptFailure

(* A new task has spent nothing.                                           *)
LEMMA IInvInit == Init => IInv
  BY WalkAssumption DEF Init, IInv, TypeOK, ChargedExactly, RungsUsedInFull,
     OneLeft, NewProgress, Progress, Rung, QuestionKind

(* The invariant of a next state in which no attempt is in flight.         *)
LEMMA AtRest ==
  ASSUME p' \in Progress, p'.in_flight = FALSE, p'.rung \in Rung,
         is' \in {"Pending", "Deferred", "AwaitingInput", "Done"},
         asked' \in QuestionKind \union {"none"},
         charged' \in [Rung -> Nat], answered' \in Nat, crashes' \in Nat,
         p'.attempts_on_rung = charged'[p'.rung],
         \A r \in Rung : /\ charged'[r] <= AttemptsPer
                         /\ r < p'.rung => charged'[r] = AttemptsPer
                         /\ r > p'.rung => charged'[r] = 0,
         (is' \in {"Pending", "Deferred"} \/ asked' \in {"Clarify", "ApproveSpend"})
           => charged'[p'.rung] < AttemptsPer,
         asked' # "none" <=> is' = "AwaitingInput"
  PROVE  IInv'
<1>1. TypeOK'
  BY DEF TypeOK
<1>2. ChargedExactly' /\ OneLeft'
  BY DEF ChargedExactly, OneLeft
<1>3. RungsUsedInFull'
  BY WalkAssumption DEF RungsUsedInFull
<1> QED
  BY <1>1, <1>2, <1>3 DEF IInv

(* A failed attempt keeps the account, whichever way it failed.            *)
LEMMA IInvFailAttempt ==
  ASSUME IInv, NEW f \in AttemptEnds, NEW reported \in BOOLEAN,
         NEW resumable \in BOOLEAN, NEW approve \in BOOLEAN,
         FailAttempt(f, reported, resumable, approve)
  PROVE  IInv'
<1> DEFINE st == [rung |-> p.rung, attempts_on_rung |-> p.attempts_on_rung,
                  defers |-> p.defers, resumable |-> resumable]
           pol == [attempts_per |-> AttemptsPer, rungs |-> RungCount,
                   max_defers |-> MaxDefers]
           next == NextStep(f, st, pol)
           parks == next.step = "AskHuman" \/ (next.step = "Escalate" /\ approve)
           refund == next.step = "AskHuman" /\
                     (next.kind = "Clarify" \/ IsOutage(f))
<1>1. /\ p.in_flight /\ is = "Pending"
      /\ p' = SettledWith(p, reported, next, parks, refund)
      /\ is' = IF parks THEN "AwaitingInput"
               ELSE IF next.step = "Defer" THEN "Deferred" ELSE "Pending"
      /\ asked' = IF ~parks THEN "none"
                  ELSE IF next.step = "AskHuman" THEN next.kind
                  ELSE "ApproveSpend"
      /\ charged' = IF IsJudged(f) THEN [charged EXCEPT ![p.rung] = @ + 1]
                                   ELSE charged
      /\ UNCHANGED <<answered, crashes>>
  BY DEF FailAttempt, IInv
<1>2. /\ p \in Progress /\ p.rung \in Rung /\ charged \in [Rung -> Nat]
      /\ answered \in Nat /\ crashes \in Nat
      /\ p.attempts_on_rung = charged[p.rung] + 1
      /\ charged[p.rung] < AttemptsPer
      /\ \A r \in Rung : /\ charged[r] <= AttemptsPer
                         /\ r < p.rung => charged[r] = AttemptsPer
                         /\ r > p.rung => charged[r] = 0
  BY <1>1 DEF IInv, TypeOK, ChargedExactly, RungsUsedInFull, OneLeft
<1>2a. UNCHANGED <<answered, crashes>>
  BY <1>1
<1>3. /\ \/ /\ f.kind = "NeedsHuman" /\ ~IsJudged(f)
            /\ next = AskHuman("Clarify")
         \/ /\ IsOutage(f) /\ ~IsJudged(f)
            /\ next \in {Defer, AskHuman("Unblock")}
         \/ /\ ~IsOutage(f) /\ IsJudged(f)
            /\ \/ next = AskHuman("Unblock")
               \/ /\ p.attempts_on_rung < AttemptsPer
                  /\ next = RetrySameRung(resumable)
               \/ /\ ~(p.attempts_on_rung < AttemptsPer)
                  /\ p.rung + 1 < RungCount
                  /\ next = Escalate
  <2>1. pol.rungs # 0
    BY WalkAssumption
  <2> HIDE DEF next
  <2>2. next = NextStep(f, st, pol)
    BY DEF next
  <2> QED
    BY <2>1, <2>2, Decided
<1> HIDE DEF next
<1> DEFINE s == Settled(p, reported)
<1>4. /\ s \in Progress /\ s.rung = p.rung /\ s.in_flight = FALSE
      /\ s.attempts_on_rung = p.attempts_on_rung
  BY <1>2, SettledFields
<1>5. SaturatingPred(p.attempts_on_rung) = charged[p.rung]
  BY <1>2 DEF SaturatingPred
<1>5a. ASSUME IsJudged(f)
       PROVE  /\ charged' \in [Rung -> Nat]
              /\ charged'[p.rung] = charged[p.rung] + 1
              /\ \A r \in Rung \ {p.rung} : charged'[r] = charged[r]
  <2>1. charged' = [charged EXCEPT ![p.rung] = @ + 1]
    BY <1>1, <1>5a
  <2> QED
    BY <1>2, <2>1
<1> HIDE DEF s
<1>6. CASE f.kind = "NeedsHuman" /\ ~IsJudged(f) /\ next = AskHuman("Clarify")
  <2>1. parks /\ refund /\ next.step = "AskHuman" /\ next.kind = "Clarify"
    BY <1>6 DEF AskHuman
  <2>2. p' = Parked(s, TRUE)
    BY <1>1, <2>1 DEF SettledWith, s
  <2>3. is' = "AwaitingInput" /\ asked' = "Clarify" /\ charged' = charged
    BY <1>1, <1>6, <2>1
  <2>4. /\ p' \in Progress /\ p'.rung = p.rung /\ p'.in_flight = FALSE
        /\ p'.attempts_on_rung = charged[p.rung]
    BY <1>4, <1>5, <2>2, ParkedFields
  <2> QED
    BY <1>2, <1>2a, <2>3, <2>4, AtRest, WalkAssumption DEF QuestionKind, Rung
<1>7. CASE IsOutage(f) /\ ~IsJudged(f) /\ next = Defer
  <2>1. ~parks /\ next.step = "Defer"
    BY <1>7 DEF Defer
  <2>2. p' = Deferred(s)
    BY <1>1, <2>1 DEF SettledWith, s
  <2>3. is' = "Deferred" /\ asked' = "none" /\ charged' = charged
    BY <1>1, <1>7, <2>1
  <2>4. /\ p' \in Progress /\ p'.rung = p.rung /\ p'.in_flight = FALSE
        /\ p'.attempts_on_rung = charged[p.rung]
    BY <1>4, <1>5, <2>2, DecisionFields
  <2> QED
    BY <1>2, <1>2a, <2>3, <2>4, AtRest, WalkAssumption DEF QuestionKind, Rung
<1>8. CASE IsOutage(f) /\ ~IsJudged(f) /\ next = AskHuman("Unblock")
  <2>1. parks /\ refund /\ next.step = "AskHuman" /\ next.kind = "Unblock"
    BY <1>8 DEF AskHuman
  <2>2. p' = Parked(s, TRUE)
    BY <1>1, <2>1 DEF SettledWith, s
  <2>3. is' = "AwaitingInput" /\ asked' = "Unblock" /\ charged' = charged
    BY <1>1, <1>8, <2>1
  <2>4. /\ p' \in Progress /\ p'.rung = p.rung /\ p'.in_flight = FALSE
        /\ p'.attempts_on_rung = charged[p.rung]
    BY <1>4, <1>5, <2>2, ParkedFields
  <2> QED
    BY <1>2, <1>2a, <2>3, <2>4, AtRest, WalkAssumption DEF QuestionKind, Rung
<1>9. CASE ~IsOutage(f) /\ IsJudged(f) /\ next = AskHuman("Unblock")
  <2>1. parks /\ ~refund /\ next.step = "AskHuman" /\ next.kind = "Unblock"
    BY <1>9 DEF AskHuman
  <2>2. p' = Parked(s, FALSE)
    BY <1>1, <2>1 DEF SettledWith, s
  <2>3. /\ is' = "AwaitingInput" /\ asked' = "Unblock"
    BY <1>1, <1>9, <2>1
  <2>4. /\ p' \in Progress /\ p'.rung = p.rung /\ p'.in_flight = FALSE
        /\ p'.attempts_on_rung = charged[p.rung] + 1
    BY <1>2, <1>4, <2>2, ParkedFields
  <2>5. ASSUME NEW r \in Rung
        PROVE  /\ charged'[r] <= AttemptsPer
               /\ r < p'.rung => charged'[r] = AttemptsPer
               /\ r > p'.rung => charged'[r] = 0
    <3>1. charged[r] \in Nat /\ r \in Nat /\ p.rung \in Nat /\ AttemptsPer \in Nat
      BY <1>2, WalkAssumption DEF Rung
    <3>2. CASE r = p.rung
      BY <1>2, <1>5a, <1>9, <2>4, <3>1, <3>2
    <3>3. CASE r # p.rung
      BY <1>2, <1>5a, <1>9, <2>4, <3>1, <3>3
    <3> QED
      BY <3>2, <3>3
  <2> QED
    BY <1>2, <1>2a, <1>5a, <1>9, <2>3, <2>4, <2>5, AtRest DEF QuestionKind
<1>10. CASE /\ IsJudged(f) /\ p.attempts_on_rung < AttemptsPer
            /\ next = RetrySameRung(resumable)
  <2>1. ~parks /\ next.step = "Retry" /\ next.resume = resumable
    BY <1>10 DEF RetrySameRung
  <2>2. p' = Retried(s, resumable)
    BY <1>1, <2>1 DEF SettledWith, s
  <2>3. /\ is' = "Pending" /\ asked' = "none"
    BY <1>1, <1>10, <2>1
  <2>4. /\ p' \in Progress /\ p'.rung = p.rung /\ p'.in_flight = FALSE
        /\ p'.attempts_on_rung = charged[p.rung] + 1
    BY <1>2, <1>4, <2>2, DecisionFields
  <2>5. ASSUME NEW r \in Rung
        PROVE  /\ charged'[r] <= AttemptsPer
               /\ r < p'.rung => charged'[r] = AttemptsPer
               /\ r > p'.rung => charged'[r] = 0
    <3>1. charged[r] \in Nat /\ r \in Nat /\ p.rung \in Nat /\ AttemptsPer \in Nat
      BY <1>2, WalkAssumption DEF Rung
    <3>2. CASE r = p.rung
      BY <1>2, <1>5a, <1>10, <2>4, <3>1, <3>2
    <3>3. CASE r # p.rung
      BY <1>2, <1>5a, <1>10, <2>4, <3>1, <3>3
    <3> QED
      BY <3>2, <3>3
  <2> QED
    BY <1>2, <1>2a, <1>5a, <1>10, <2>3, <2>4, <2>5, AtRest DEF QuestionKind
<1>11. CASE /\ IsJudged(f) /\ ~(p.attempts_on_rung < AttemptsPer)
            /\ p.rung + 1 < RungCount /\ next = Escalate
  <2>1. next.step = "Escalate" /\ refund = FALSE
    BY <1>11 DEF Escalate
  <2>2. p' \in {Parked(Escalated(s), FALSE), Escalated(s)}
    BY <1>1, <2>1 DEF SettledWith, s
  <2>3. /\ is' \in {"Pending", "AwaitingInput"}
        /\ asked' \in {"none", "ApproveSpend"}
        /\ asked' # "none" <=> is' = "AwaitingInput"
    BY <1>1, <1>11, <2>1
  <2>4. /\ p' \in Progress /\ p'.rung = p.rung + 1 /\ p'.in_flight = FALSE
        /\ p'.attempts_on_rung = 0
    <3>1. /\ Escalated(s) \in Progress /\ Escalated(s).rung = p.rung + 1
          /\ Escalated(s).in_flight = FALSE
          /\ Escalated(s).attempts_on_rung = 0
      BY <1>4, DecisionFields
    <3> QED
      BY <2>2, <3>1, ParkedFields
  <2>5. /\ p.rung + 1 \in Rung /\ charged[p.rung] + 1 = AttemptsPer
        /\ charged[p.rung + 1] = 0 /\ p.rung # p.rung + 1
    BY <1>2, <1>11, WalkAssumption DEF Rung
  <2>6. ASSUME NEW r \in Rung
        PROVE  /\ charged'[r] <= AttemptsPer
               /\ r < p'.rung => charged'[r] = AttemptsPer
               /\ r > p'.rung => charged'[r] = 0
    <3>1. charged[r] \in Nat /\ r \in Nat /\ p.rung \in Nat /\ AttemptsPer \in Nat
      BY <1>2, WalkAssumption DEF Rung
    <3>2. CASE r = p.rung
      BY <1>5a, <1>11, <2>4, <2>5, <3>1, <3>2
    <3>3. CASE r # p.rung
      <4>1. /\ charged[r] <= AttemptsPer
            /\ r < p.rung => charged[r] = AttemptsPer
            /\ r > p.rung => charged[r] = 0
        BY <1>2
      <4>2. charged'[r] = charged[r] /\ p'.rung = p.rung + 1
        BY <1>5a, <1>11, <2>4, <3>3
      <4> QED
        BY <3>1, <3>3, <4>1, <4>2
    <3> QED
      BY <3>2, <3>3
  <2> QED
    <3>1. charged'[p'.rung] = 0 /\ 0 < AttemptsPer /\ p'.rung \in Rung
      BY <1>5a, <1>11, <2>4, <2>5, WalkAssumption
    <3>2. asked' \in QuestionKind \union {"none"}
      BY <2>3 DEF QuestionKind
    <3> QED
      BY <1>2, <1>2a, <1>5a, <1>11, <2>3, <2>4, <2>6, <3>1, <3>2, AtRest
<1> QED
  BY <1>3, <1>6, <1>7, <1>8, <1>9, <1>10, <1>11

(* Every step of the walk keeps the account.                               *)
LEMMA IInvNext == IInv /\ [Next]_vars => IInv'
<1> SUFFICES ASSUME IInv, [Next]_vars PROVE IInv'
  OBVIOUS
<1>0. /\ p \in Progress /\ p.rung \in Rung
      /\ is \in {"Pending", "Deferred", "AwaitingInput", "Done"}
      /\ asked \in QuestionKind \union {"none"}
      /\ charged \in [Rung -> Nat] /\ answered \in Nat /\ crashes \in Nat
      /\ p.in_flight => is = "Pending"
      /\ \A r \in Rung : /\ charged[r] <= AttemptsPer
                         /\ r < p.rung => charged[r] = AttemptsPer
                         /\ r > p.rung => charged[r] = 0
      /\ (is \in {"Pending", "Deferred"} \/ asked \in {"Clarify", "ApproveSpend"})
           => charged[p.rung] < AttemptsPer
      /\ asked # "none" <=> is = "AwaitingInput"
      /\ charged[p.rung] \in Nat
  BY DEF IInv, TypeOK, ChargedExactly, RungsUsedInFull, OneLeft
<1>0a. /\ p.in_flight = TRUE => p.attempts_on_rung = charged[p.rung] + 1
       /\ p.in_flight = FALSE => p.attempts_on_rung = charged[p.rung]
       /\ p.in_flight \in BOOLEAN
  BY <1>0 DEF IInv, ChargedExactly, Progress
<1>1. CASE Start
  <2>1. /\ p' \in Progress /\ p'.rung = p.rung /\ p'.in_flight = TRUE
        /\ p'.attempts_on_rung = charged[p.rung] + 1
    BY <1>0, <1>0a, <1>1, StartedFields DEF Start
  <2>2. is = "Pending" /\ UNCHANGED <<is, asked, charged, answered, crashes>>
    BY <1>1 DEF Start
  <2> QED
    <3>1. TypeOK' /\ OneLeft' /\ ChargedExactly'
      BY <1>0, <2>1, <2>2 DEF TypeOK, OneLeft, ChargedExactly
    <3>2. RungsUsedInFull'
      BY <1>0, <2>1, <2>2, WalkAssumption DEF RungsUsedInFull
    <3> QED
      BY <1>0, <2>1, <2>2, <3>1, <3>2 DEF IInv
<1>2. CASE Pass
  <2>1. /\ p' \in Progress /\ p'.rung = p.rung /\ p'.in_flight = FALSE
        /\ p'.attempts_on_rung = charged[p.rung] + 1
    BY <1>0, <1>0a, <1>2, SettledFields DEF Pass
  <2>2. /\ is' = "Done" /\ UNCHANGED <<asked, answered, crashes>>
        /\ charged' = [charged EXCEPT ![p.rung] = @ + 1]
    BY <1>2 DEF Pass
  <2>3. charged[p.rung] < AttemptsPer
    BY <1>0, <1>2 DEF Pass
  <2>4. /\ charged' \in [Rung -> Nat]
        /\ charged'[p.rung] = charged[p.rung] + 1
        /\ \A r \in Rung \ {p.rung} : charged'[r] = charged[r]
    BY <1>0, <2>2
  <2>5. ASSUME NEW r \in Rung
        PROVE  /\ charged'[r] <= AttemptsPer
               /\ r < p'.rung => charged'[r] = AttemptsPer
               /\ r > p'.rung => charged'[r] = 0
    <3>1. charged[r] \in Nat /\ r \in Nat /\ p.rung \in Nat /\ AttemptsPer \in Nat
      BY <1>0, WalkAssumption DEF Rung
    <3>2. CASE r = p.rung
      BY <1>0, <2>1, <2>3, <2>4, <3>1, <3>2
    <3>3. CASE r # p.rung
      BY <1>0, <2>1, <2>4, <3>1, <3>3
    <3> QED
      BY <3>2, <3>3
  <2>6. asked = "none"
    BY <1>0, <1>2 DEF Pass
  <2> QED
    BY <1>0, <2>1, <2>2, <2>4, <2>5, <2>6, AtRest
<1>3. CASE Wake
  <2>1. /\ p.in_flight = FALSE /\ p.attempts_on_rung = charged[p.rung]
        /\ is = "Deferred" /\ is' = "Pending"
        /\ UNCHANGED <<p, asked, charged, answered, crashes>>
    BY <1>0, <1>0a, <1>3 DEF Wake
  <2> QED
    BY <1>0, <2>1, AtRest
<1>4. CASE Answer
  <2>1. /\ is = "AwaitingInput" /\ p.in_flight = FALSE
        /\ is' = "Pending" /\ asked' = "none"
        /\ answered' \in Nat /\ crashes' \in Nat
    BY <1>0, <1>0a, <1>4 DEF Answer
  <2>2. CASE asked = "Unblock"
    <3>1. /\ p' \in Progress /\ p'.rung = p.rung /\ p'.in_flight = FALSE
          /\ p'.attempts_on_rung = 0
      BY <1>0, <1>0a, <1>4, <2>1, <2>2, AnsweredFields DEF Answer
    <3>2. /\ charged' \in [Rung -> Nat] /\ charged'[p.rung] = 0
          /\ \A r \in Rung \ {p.rung} : charged'[r] = charged[r]
      BY <1>0, <1>4, <2>2 DEF Answer
    <3>3. ASSUME NEW r \in Rung
          PROVE  /\ charged'[r] <= AttemptsPer
                 /\ r < p'.rung => charged'[r] = AttemptsPer
                 /\ r > p'.rung => charged'[r] = 0
      <4>1. CASE r = p.rung
        BY <1>0, <3>1, <3>2, <4>1, WalkAssumption DEF Rung
      <4>2. CASE r # p.rung
        BY <1>0, <3>1, <3>2, <4>2
      <4> QED
        BY <4>1, <4>2
    <3> QED
      <4>1. charged'[p'.rung] < AttemptsPer
        BY <3>1, <3>2, WalkAssumption
      <4> QED
        BY <1>0, <2>1, <3>1, <3>2, <3>3, <4>1, AtRest DEF QuestionKind
  <2>3. CASE asked # "Unblock"
    <3>1. /\ p' \in Progress /\ p'.rung = p.rung /\ p'.in_flight = FALSE
          /\ p'.attempts_on_rung = charged[p.rung]
      BY <1>0, <1>0a, <1>4, <2>1, <2>3, AnsweredFields DEF Answer
    <3>2. charged' = charged /\ asked \in {"Clarify", "ApproveSpend"}
      BY <1>0, <1>4, <2>1, <2>3 DEF Answer, QuestionKind
    <3> QED
      <4>1. charged'[p'.rung] < AttemptsPer /\ asked' = "none"
        BY <1>0, <2>1, <3>1, <3>2
      <4> QED
        BY <1>0, <2>1, <3>1, <3>2, <4>1, AtRest DEF QuestionKind
  <2> QED
    BY <2>2, <2>3
<1>5. CASE CrashAndResume
  <2> DEFINE q == IF p.in_flight THEN Interrupted(p) ELSE p
  <2>1. /\ q \in Progress /\ q.rung = p.rung /\ q.in_flight = FALSE
        /\ q.attempts_on_rung = charged[p.rung]
    <3>1. CASE p.in_flight
      <4>1. SaturatingPred(p.attempts_on_rung) = charged[p.rung]
        BY <1>0, <1>0a, <3>1 DEF SaturatingPred
      <4> QED
        BY <1>0, <3>1, <4>1, InterruptedFields
    <3>2. CASE ~p.in_flight
      BY <1>0, <1>0a, <3>2
    <3> QED
      BY <3>1, <3>2
  <2>2. p' = Resumed(q)
    BY <1>5 DEF CrashAndResume
  <2> HIDE DEF q
  <2>3. /\ p' \in Progress /\ p'.rung = p.rung /\ p'.in_flight = FALSE
        /\ p'.attempts_on_rung = charged[p.rung]
    BY <2>1, <2>2, ResumedFields
  <2> QED
    <3>1. /\ is' = (IF is = "Deferred" THEN "Pending" ELSE is)
          /\ answered' \in Nat /\ crashes' \in Nat
          /\ UNCHANGED <<asked, charged>>
      BY <1>0, <1>5 DEF CrashAndResume
    <3>2. CASE is = "Deferred"
      BY <1>0, <2>3, <3>1, <3>2, AtRest
    <3>3. CASE is # "Deferred"
      BY <1>0, <2>3, <3>1, <3>3, AtRest
    <3> QED
      BY <3>2, <3>3
<1>6. ASSUME NEW f \in AttemptEnds, NEW reported \in BOOLEAN,
             NEW resumable \in BOOLEAN, NEW approve \in BOOLEAN,
             FailAttempt(f, reported, resumable, approve)
      PROVE  IInv'
  BY <1>6, IInvFailAttempt
<1>7. CASE UNCHANGED vars
  BY <1>7 DEF vars, IInv, TypeOK, ChargedExactly, RungsUsedInFull, OneLeft
<1> QED
  BY <1>1, <1>2, <1>3, <1>4, <1>5, <1>6, <1>7 DEF Next

(* An outage, a clarification and a crash give back exactly what           *)
(* attempt_started took.                                                   *)
THEOREM ChargedExactlyAlways == Spec => []ChargedExactly
<1>1. IInv => ChargedExactly
  BY DEF IInv
<1> QED
  BY IInvInit, IInvNext, <1>1, PTL DEF Spec

(* The ladder never climbs early, never overspends a rung, and never lets  *)
(* a task be scheduled without an attempt left.                            *)
THEOREM RungsUsedInFullAlways == Spec => []RungsUsedInFull
<1>1. IInv => RungsUsedInFull
  BY DEF IInv
<1> QED
  BY IInvInit, IInvNext, <1>1, PTL DEF Spec

(* What people and outages have put into the task since it started, less   *)
(* what it has spent of it: a full chain of attempts, its deferrals and    *)
(* one more for every answer, of which the current chain is still being    *)
(* used.  SpawnsBounded is not inductive: it does not say how much of the  *)
(* current chain is left.                                                  *)
Chain == RungCount * AttemptsPer + MaxDefers + 1
Climbed == p.rung * AttemptsPer + charged[p.rung]

Spent ==
  /\ p.defers <= MaxDefers
  /\ p.attempts <= answered * Chain + Climbed + p.defers + crashes
                   + (IF is = "AwaitingInput" THEN 1 ELSE 0)
                   + (IF p.in_flight THEN 1 ELSE 0)

(* The arithmetic of a chain: climbing a rung that was used in full costs  *)
(* nothing, and no task climbs past the top.                               *)
LEMMA ClimbedBounds ==
  ASSUME NEW r \in Rung, NEW c \in Nat, c <= AttemptsPer
  PROVE  /\ r * AttemptsPer \in Nat
         /\ (r + 1) * AttemptsPer = r * AttemptsPer + AttemptsPer
         /\ r * AttemptsPer + c <= RungCount * AttemptsPer
         /\ RungCount * AttemptsPer \in Nat
<1>1. r \in Nat /\ r + 1 <= RungCount /\ RungCount \in Nat /\ AttemptsPer \in Nat
  BY WalkAssumption DEF Rung
<1>2. (r + 1) * AttemptsPer = r * AttemptsPer + AttemptsPer
  BY <1>1
<1>3. (r + 1) * AttemptsPer <= RungCount * AttemptsPer
  BY <1>1
<1>4. r * AttemptsPer \in Nat /\ RungCount * AttemptsPer \in Nat
  BY <1>1
<1> QED
  BY <1>1, <1>2, <1>3, <1>4

(* A deferral is only decided on while the outage's allowance lasts.       *)
LEMMA DeferLeft ==
  ASSUME NEW f, NEW st, NEW pol, NextStep(f, st, pol) = Defer
  PROVE  st.defers < pol.max_defers
  BY DEF NextStep, Defer, AskHuman, Fail, RetrySameRung, Escalate

(* The four ways a failed attempt is accounted for: not judged and parked, *)
(* not judged and deferred, judged, and judged at the end of its rung.     *)
LEMMA FailAttemptDoes ==
  ASSUME IInv, NEW f \in AttemptEnds, NEW reported \in BOOLEAN,
         NEW resumable \in BOOLEAN, NEW approve \in BOOLEAN,
         FailAttempt(f, reported, resumable, approve)
  PROVE  /\ p'.attempts = p.attempts
         /\ \/ /\ charged' = charged /\ p'.rung = p.rung /\ p'.defers = p.defers
               /\ is' = "AwaitingInput"
            \/ /\ charged' = charged /\ p'.rung = p.rung /\ p'.defers = p.defers + 1
               /\ p.defers < MaxDefers
            \/ /\ charged'[p.rung] = charged[p.rung] + 1 /\ p'.rung = p.rung
               /\ p'.defers = p.defers
            \/ /\ p'.rung = p.rung + 1 /\ p'.defers = p.defers
               /\ charged[p.rung] + 1 = AttemptsPer /\ charged'[p.rung + 1] = 0
<1> DEFINE st == [rung |-> p.rung, attempts_on_rung |-> p.attempts_on_rung,
                  defers |-> p.defers, resumable |-> resumable]
           pol == [attempts_per |-> AttemptsPer, rungs |-> RungCount,
                   max_defers |-> MaxDefers]
           next == NextStep(f, st, pol)
           parks == next.step = "AskHuman" \/ (next.step = "Escalate" /\ approve)
           refund == next.step = "AskHuman" /\
                     (next.kind = "Clarify" \/ IsOutage(f))
           s == Settled(p, reported)
<1>1. /\ p' = SettledWith(p, reported, next, parks, refund)
      /\ parks => is' = "AwaitingInput"
      /\ charged' = IF IsJudged(f) THEN [charged EXCEPT ![p.rung] = @ + 1]
                                   ELSE charged
  BY DEF FailAttempt
<1>2. /\ p \in Progress /\ p.rung \in Rung /\ charged \in [Rung -> Nat]
      /\ p.attempts_on_rung = charged[p.rung] + 1
      /\ charged[p.rung] < AttemptsPer
      /\ \A r \in Rung : r > p.rung => charged[r] = 0
  BY DEF FailAttempt, IInv, TypeOK, ChargedExactly, RungsUsedInFull, OneLeft
<1>3. next = Defer => p.defers < MaxDefers
  BY DeferLeft
<1>4. \/ ~IsJudged(f) /\ next \in {AskHuman("Clarify"), AskHuman("Unblock")}
      \/ ~IsJudged(f) /\ next = Defer
      \/ IsJudged(f) /\ next \in {AskHuman("Unblock"), RetrySameRung(resumable)}
      \/ /\ IsJudged(f) /\ ~(p.attempts_on_rung < AttemptsPer)
         /\ p.rung + 1 < RungCount /\ next = Escalate
  <2>1. pol.rungs # 0
    BY WalkAssumption
  <2> HIDE DEF next
  <2>2. next = NextStep(f, st, pol)
    BY DEF next
  <2> QED
    BY <2>1, <2>2, Decided
<1> HIDE DEF next
<1>5. /\ s \in Progress /\ s.rung = p.rung /\ s.attempts = p.attempts /\ s.defers = p.defers
  BY <1>2, SettledFields, DefersFields
<1>6. SettledWith(p, reported, next, parks, refund) =
        LET moved == CASE next.step = "Retry"    -> Retried(s, next.resume)
                       [] next.step = "Escalate" -> Escalated(s)
                       [] next.step = "Defer"    -> Deferred(s)
                       [] OTHER                  -> s
        IN  IF parks THEN Parked(moved, refund) ELSE moved
  BY DEF SettledWith
<1> HIDE DEF s
<1>7. /\ parks \in BOOLEAN /\ refund \in BOOLEAN
      /\ \A q \in Progress, b \in BOOLEAN : /\ Parked(q, b).rung = q.rung
                                            /\ Parked(q, b).attempts = q.attempts
                                            /\ Parked(q, b).defers = q.defers
  <2>1. \A q \in Progress : \A b \in BOOLEAN : Parked(q, b).defers = q.defers
    BY DefersFields
  <2>2. \A q \in Progress : \A b \in BOOLEAN : Parked(q, b).rung = q.rung
                                            /\ Parked(q, b).attempts = q.attempts
    BY ParkedFields
  <2> QED
    BY <2>1, <2>2
<1>8. CASE ~IsJudged(f) /\ next \in {AskHuman("Clarify"), AskHuman("Unblock")}
  <2>1. parks /\ next.step = "AskHuman"
    BY <1>8 DEF AskHuman
  <2>2. p' = Parked(s, refund) /\ is' = "AwaitingInput" /\ charged' = charged
    BY <1>1, <1>6, <1>8, <2>1
  <2> HIDE DEF refund
  <2> QED
    BY <1>5, <1>7, <2>2
<1>9. CASE ~IsJudged(f) /\ next = Defer
  <2>1. ~parks /\ next.step = "Defer"
    BY <1>9 DEF Defer
  <2>2. p' = Deferred(s) /\ charged' = charged
    BY <1>1, <1>6, <1>9, <2>1
  <2> QED
    BY <1>3, <1>5, <1>9, <2>2, DecisionFields, DefersFields
<1>10. CASE IsJudged(f) /\ next \in {AskHuman("Unblock"), RetrySameRung(resumable)}
  <2>1. charged'[p.rung] = charged[p.rung] + 1
    BY <1>1, <1>2, <1>10
  <2>2. p' \in {Parked(s, refund), Retried(s, resumable)}
    <3>1. CASE next = AskHuman("Unblock")
      <4>1. parks /\ next.step = "AskHuman"
        BY <3>1 DEF AskHuman
      <4> QED
        BY <1>1, <1>6, <4>1
    <3>2. CASE next = RetrySameRung(resumable)
      <4>1. ~parks /\ next.step = "Retry" /\ next.resume = resumable
        BY <3>2 DEF RetrySameRung
      <4> QED
        BY <1>1, <1>6, <4>1
    <3> QED
      BY <1>10, <3>1, <3>2
  <2>3. /\ Retried(s, resumable).rung = p.rung
        /\ Retried(s, resumable).attempts = p.attempts
        /\ Retried(s, resumable).defers = p.defers
    BY <1>5, DecisionFields, DefersFields
  <2> HIDE DEF refund
  <2>4. /\ Parked(s, refund).rung = p.rung
        /\ Parked(s, refund).attempts = p.attempts
        /\ Parked(s, refund).defers = p.defers
    BY <1>5, <1>7
  <2>5. p'.rung = p.rung /\ p'.attempts = p.attempts /\ p'.defers = p.defers
    BY <2>2, <2>3, <2>4
  <2> QED
    BY <2>1, <2>5
<1>11. CASE /\ IsJudged(f) /\ ~(p.attempts_on_rung < AttemptsPer)
            /\ p.rung + 1 < RungCount /\ next = Escalate
  <2>1. next.step = "Escalate"
    BY <1>11 DEF Escalate
  <2>2. p' \in {Parked(Escalated(s), refund), Escalated(s)}
    BY <1>1, <1>6, <2>1
  <2>3. /\ Escalated(s) \in Progress /\ Escalated(s).rung = p.rung + 1
        /\ Escalated(s).attempts = p.attempts /\ Escalated(s).defers = p.defers
    BY <1>5, DecisionFields, DefersFields
  <2>4. /\ p.rung + 1 \in Rung /\ p.rung + 1 > p.rung /\ p.rung # p.rung + 1
        /\ charged[p.rung] + 1 = AttemptsPer
    BY <1>2, <1>11, WalkAssumption DEF Rung
  <2>5. charged'[p.rung + 1] = 0
    <3>1. charged'[p.rung + 1] = charged[p.rung + 1]
      BY <1>1, <1>2, <1>11, <2>4
    <3> QED
      BY <1>2, <2>4, <3>1
  <2> HIDE DEF refund
  <2> QED
    BY <1>7, <2>2, <2>3, <2>4, <2>5
<1> QED
  BY <1>4, <1>8, <1>9, <1>10, <1>11

(* A new task has spent nothing.                                           *)
LEMMA SpentInit == Init => Spent
<1> SUFFICES ASSUME Init PROVE Spent
  OBVIOUS
<1>1. /\ p.defers = 0 /\ p.attempts = 0 /\ p.rung = 0 /\ p.in_flight = FALSE
      /\ is = "Pending" /\ answered = 0 /\ crashes = 0 /\ charged[0] = 0
  BY WalkAssumption DEF Init, NewProgress, Rung
<1>2. Chain \in Nat
  BY WalkAssumption DEF Chain
<1> QED
  BY <1>1, <1>2, WalkAssumption DEF Spent, Climbed

(* Every step that adds to what was spent adds as much to what was put in. *)
LEMMA SpentNext == IInv /\ Spent /\ [Next]_vars => Spent'
<1> SUFFICES ASSUME IInv, Spent, [Next]_vars PROVE Spent'
  OBVIOUS
<1> DEFINE put == answered * Chain
<1>0. /\ p \in Progress /\ p.rung \in Rung /\ charged \in [Rung -> Nat]
      /\ answered \in Nat /\ crashes \in Nat
      /\ p.rung \in Nat /\ p.attempts \in Nat /\ p.defers \in Nat
      /\ p.in_flight \in BOOLEAN
      /\ p.in_flight => is = "Pending"
      /\ charged[p.rung] \in Nat /\ charged[p.rung] <= AttemptsPer
  BY DEF IInv, TypeOK, RungsUsedInFull, Progress
<1>1. Chain \in Nat /\ put \in Nat /\ (answered + 1) * Chain = put + Chain
  BY <1>0, WalkAssumption DEF Chain
<1>2. Climbed \in Nat /\ Climbed <= RungCount * AttemptsPer
  BY <1>0, ClimbedBounds DEF Climbed
<1>3. AttemptsPer \in Nat /\ MaxDefers \in Nat
      /\ Chain = RungCount * AttemptsPer + MaxDefers + 1
      /\ RungCount * AttemptsPer \in Nat
  BY WalkAssumption DEF Chain
<1>4. /\ p.defers <= MaxDefers
      /\ p.attempts <= put + Climbed + p.defers + crashes
                       + (IF is = "AwaitingInput" THEN 1 ELSE 0)
                       + (IF p.in_flight THEN 1 ELSE 0)
  BY DEF Spent
<1>5. CASE Start
  <2>1. /\ p'.rung = p.rung /\ p'.attempts = p.attempts + 1 /\ p'.defers = p.defers
        /\ p'.in_flight = TRUE /\ p.in_flight = FALSE
        /\ UNCHANGED <<is, charged, answered, crashes>>
    BY <1>0, <1>5, StartedFields, DefersFields DEF Start
  <2>2. Climbed' = Climbed /\ put' = put
    BY <2>1 DEF Climbed, Chain
  <2> HIDE DEF put
  <2>3. p'.attempts <= put' + Climbed' + p'.defers + crashes'
                       + (IF is' = "AwaitingInput" THEN 1 ELSE 0)
                       + (IF p'.in_flight THEN 1 ELSE 0)
    BY <1>0, <1>1, <1>2, <1>4, <2>1, <2>2
  <2> QED
    BY <1>4, <2>1, <2>3 DEF Spent, put
<1>6. CASE Pass
  <2>1. /\ p'.rung = p.rung /\ p'.attempts = p.attempts /\ p'.defers = p.defers
        /\ p'.in_flight = FALSE /\ p.in_flight = TRUE
        /\ is = "Pending" /\ is' = "Done"
        /\ charged'[p.rung] = charged[p.rung] + 1
        /\ UNCHANGED <<answered, crashes>>
    BY <1>0, <1>6, SettledFields, DefersFields DEF Pass
  <2>2. Climbed' = Climbed + 1 /\ put' = put
    <3>1. p.rung * AttemptsPer \in Nat
      BY <1>0, <1>3
    <3> QED
      BY <1>0, <2>1, <3>1 DEF Climbed, Chain
  <2> HIDE DEF put
  <2>3. p'.attempts <= put' + Climbed' + p'.defers + crashes'
                       + (IF is' = "AwaitingInput" THEN 1 ELSE 0)
                       + (IF p'.in_flight THEN 1 ELSE 0)
    BY <1>0, <1>1, <1>2, <1>4, <2>1, <2>2
  <2> QED
    BY <1>4, <2>1, <2>3 DEF Spent, put
<1>7. CASE Wake
  <2>1. /\ UNCHANGED <<p, charged, answered, crashes>>
        /\ is = "Deferred" /\ is' = "Pending"
    BY <1>7 DEF Wake
  <2>2. Climbed' = Climbed /\ put' = put
    BY <2>1 DEF Climbed, Chain
  <2> QED
    BY <1>4, <2>1, <2>2 DEF Spent
<1>8. CASE Answer
  <2>1. /\ p'.rung = p.rung /\ p'.attempts = p.attempts /\ p'.defers = 0
        /\ p'.in_flight = FALSE /\ p.in_flight = FALSE
        /\ is = "AwaitingInput" /\ is' = "Pending"
        /\ answered' = answered + 1 /\ crashes' = crashes
        /\ charged'[p.rung] \in Nat
    BY <1>0, <1>8, AnsweredFields, DefersFields DEF Answer
  <2>2. put' = put + Chain
    BY <1>1, <2>1 DEF Chain
  <2>3. Climbed' \in Nat
    <3>1. p.rung * AttemptsPer \in Nat
      BY <1>0, <1>3
    <3> QED
      BY <2>1, <3>1 DEF Climbed
  <2> HIDE DEF put
  <2>4. p'.attempts <= put' + Climbed' + p'.defers + crashes'
                       + (IF is' = "AwaitingInput" THEN 1 ELSE 0)
                       + (IF p'.in_flight THEN 1 ELSE 0)
    BY <1>0, <1>1, <1>2, <1>3, <1>4, <2>1, <2>2, <2>3
  <2> QED
    BY <1>3, <2>1, <2>4 DEF Spent, put
<1>9. CASE CrashAndResume
  <2> DEFINE q == IF p.in_flight THEN Interrupted(p) ELSE p
  <2>1. /\ q \in Progress /\ q.rung = p.rung /\ q.attempts = p.attempts
        /\ q.defers = p.defers /\ q.in_flight = FALSE
    BY <1>0, InterruptedFields, DefersFields
  <2>2. p' = Resumed(q)
    BY <1>9 DEF CrashAndResume
  <2> HIDE DEF q
  <2>3. /\ p'.rung = p.rung /\ p'.attempts = p.attempts /\ p'.defers = p.defers
        /\ p'.in_flight = FALSE
    BY <2>1, <2>2, ResumedFields, DefersFields
  <2>4. /\ crashes' = crashes + 1 /\ UNCHANGED <<charged, answered>>
        /\ is' = "AwaitingInput" <=> is = "AwaitingInput"
    BY <1>9 DEF CrashAndResume
  <2>5. Climbed' = Climbed /\ put' = put
    BY <2>3, <2>4 DEF Climbed, Chain
  <2> HIDE DEF put
  <2>6. p'.attempts <= put' + Climbed' + p'.defers + crashes'
                       + (IF is' = "AwaitingInput" THEN 1 ELSE 0)
                       + (IF p'.in_flight THEN 1 ELSE 0)
    BY <1>0, <1>1, <1>2, <1>4, <2>3, <2>4, <2>5
  <2> QED
    BY <1>4, <2>3, <2>6 DEF Spent, put
<1>10. ASSUME NEW f \in AttemptEnds, NEW reported \in BOOLEAN,
              NEW resumable \in BOOLEAN, NEW approve \in BOOLEAN,
              FailAttempt(f, reported, resumable, approve)
       PROVE  Spent'
  <2>1. /\ p.in_flight = TRUE /\ is = "Pending"
        /\ UNCHANGED <<answered, crashes>>
    BY <1>0, <1>10 DEF FailAttempt
  <2>2. IInv'
    BY <1>10, IInvFailAttempt
  <2>3. /\ p'.in_flight \in BOOLEAN /\ p'.defers \in Nat
    BY <2>2 DEF IInv, TypeOK, Progress
  <2>4. put' = put
    BY <2>1 DEF Chain
  <2>5. /\ p.rung * AttemptsPer \in Nat
        /\ (p.rung + 1) * AttemptsPer = p.rung * AttemptsPer + AttemptsPer
    BY <1>0, ClimbedBounds
  <2>6. /\ p'.attempts = p.attempts
        /\ \/ /\ Climbed' = Climbed /\ p'.defers = p.defers
              /\ is' = "AwaitingInput"
           \/ /\ Climbed' = Climbed /\ p'.defers = p.defers + 1
              /\ p.defers < MaxDefers
           \/ /\ Climbed' = Climbed + 1 /\ p'.defers = p.defers
    <3> DEFINE Same == charged' = charged /\ p'.rung = p.rung
               Charged == charged'[p.rung] = charged[p.rung] + 1 /\ p'.rung = p.rung
               Up == /\ p'.rung = p.rung + 1 /\ charged[p.rung] + 1 = AttemptsPer
                     /\ charged'[p.rung + 1] = 0
    <3>1. Same => Climbed' = Climbed
      BY DEF Climbed
    <3>2. Charged => Climbed' = Climbed + 1
      BY <1>0, <2>5 DEF Climbed
    <3>3. Up => Climbed' = Climbed + 1
      BY <1>0, <1>3, <2>5 DEF Climbed
    <3>4. /\ p'.attempts = p.attempts
          /\ \/ Same /\ p'.defers = p.defers /\ is' = "AwaitingInput"
             \/ Same /\ p'.defers = p.defers + 1 /\ p.defers < MaxDefers
             \/ Charged /\ p'.defers = p.defers
             \/ Up /\ p'.defers = p.defers
      BY <1>10, FailAttemptDoes
    <3> HIDE DEF Same, Charged, Up
    <3> QED
      BY <3>1, <3>2, <3>3, <3>4
  <2> HIDE DEF put
  <2>7. p'.attempts <= put' + Climbed' + p'.defers + crashes'
                       + (IF is' = "AwaitingInput" THEN 1 ELSE 0)
                       + (IF p'.in_flight THEN 1 ELSE 0)
    BY <1>0, <1>1, <1>2, <1>4, <2>1, <2>3, <2>4, <2>6
  <2>8. p'.defers <= MaxDefers
    BY <1>0, <1>3, <1>4, <2>6
  <2> QED
    BY <2>7, <2>8 DEF Spent, put
<1>11. CASE UNCHANGED vars
  <2>1. UNCHANGED <<p, is, charged, answered, crashes>>
    BY <1>11 DEF vars
  <2>2. Climbed' = Climbed /\ put' = put
    BY <2>1 DEF Climbed, Chain
  <2> QED
    BY <1>4, <2>1, <2>2 DEF Spent
<1> QED
  BY <1>5, <1>6, <1>7, <1>8, <1>9, <1>10, <1>11 DEF Next

(* What a task can spend is bounded by what people put into it.            *)
THEOREM SpawnsBoundedAlways == Spec => []SpawnsBounded
<1>1. IInv /\ Spent => SpawnsBounded
  <2> SUFFICES ASSUME IInv, Spent PROVE SpawnsBounded
    OBVIOUS
  <2>1. /\ p.rung \in Rung /\ charged[p.rung] \in Nat
        /\ charged[p.rung] <= AttemptsPer
        /\ p.defers \in Nat /\ p.attempts \in Nat
        /\ answered \in Nat /\ crashes \in Nat
        /\ ~(p.in_flight /\ is = "AwaitingInput")
    BY DEF IInv, TypeOK, RungsUsedInFull, Progress
  <2>2. /\ Climbed \in Nat /\ Climbed <= RungCount * AttemptsPer
        /\ RungCount * AttemptsPer \in Nat
    BY <2>1, ClimbedBounds DEF Climbed
  <2>3. /\ Chain = RungCount * AttemptsPer + MaxDefers + 1
        /\ Chain \in Nat /\ MaxDefers \in Nat
        /\ answered * Chain \in Nat
        /\ (answered + 1) * Chain = answered * Chain + Chain
    BY <2>1, WalkAssumption DEF Chain
  <2>4. /\ p.defers <= MaxDefers
        /\ p.attempts <= answered * Chain + Climbed + p.defers + crashes + 1
    <3>1. /\ p.defers <= MaxDefers
          /\ p.attempts <= answered * Chain + Climbed + p.defers + crashes
                           + (IF is = "AwaitingInput" THEN 1 ELSE 0)
                           + (IF p.in_flight THEN 1 ELSE 0)
      BY DEF Spent
    <3> QED
      BY <2>1, <2>2, <2>3, <3>1
  <2>5. p.attempts <= (answered + 1) * Chain + crashes
    BY <2>1, <2>2, <2>3, <2>4
  <2> QED
    BY <2>5 DEF SpawnsBounded, Chain
<1>2. Init => IInv /\ Spent
  BY IInvInit, SpentInit
<1>3. (IInv /\ Spent) /\ [Next]_vars => (IInv /\ Spent)'
  BY IInvNext, SpentNext
<1> QED
  BY <1>1, <1>2, <1>3, PTL DEF Spec
=============================================================================
