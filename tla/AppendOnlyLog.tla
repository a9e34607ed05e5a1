---------------------------- MODULE AppendOnlyLog ----------------------------
(* What the event log promises the rest of the program, with no file in it:  *)
(* a sequence of events that only grows, a count of the events an `append`   *)
(* has acknowledged, and the events one follower has been shown.  A crash of *)
(* the machine may take back events nobody was told about, and nothing else. *)
EXTENDS Naturals, Sequences, SequencesExt

CONSTANT Event

VARIABLES
  log,      \* the committed events, in order
  acked,    \* how many of them an append has acknowledged
  shown     \* the events the follower has shown

vars == <<log, acked, shown>>

Init == log = <<>> /\ acked = 0 /\ shown = <<>>

Commit ==
  /\ Len(log') = Len(log) + 1 /\ IsPrefix(log, log') /\ Last(log') \in Event
  /\ UNCHANGED <<acked, shown>>

\* Everything before an acknowledged event is acknowledged with it.
Acknowledge == acked' = Len(log) /\ UNCHANGED <<log, shown>>

Show == \E n \in Len(shown)..Len(log) :
          shown' = SubSeq(log, 1, n) /\ UNCHANGED <<log, acked>>

\* The machine stops: what was not acknowledged may be gone, and so is the
\* follower's terminal.
Forget == \E n \in acked..Len(log) :
            log' = SubSeq(log, 1, n) /\ shown' = <<>> /\ UNCHANGED acked

Next == Commit \/ Acknowledge \/ Show \/ Forget

Spec == Init /\ [][Next]_vars
==============================================================================
