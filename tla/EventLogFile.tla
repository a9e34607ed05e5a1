---------------------------- MODULE EventLogFile -----------------------------
(* events.jsonl: the engine that appends to it, the crashes that cut an      *)
(* append short, the resume that cleans up after them, and the three readers *)
(* that look at the file meanwhile without taking the run's lock -- `status` *)
(* and `export`, which want a snapshot of a run that stands still, and       *)
(* `status --follow`, which polls.                                           *)
(*                                                                           *)
(* The file is a sequence of cells.  The line of an event is three of them:  *)
(* the JSON in two halves and the newline, so that a write can stop before,  *)
(* inside or after the JSON and the newline remains the commit marker.       *)
EXTENDS Naturals, Sequences, SequencesExt, FiniteSetsExt

CONSTANTS
  MaxEvents,            \* bound: events ever written
  MaxStops,             \* bound: kills, failed writes and power losses
  MaxSnapshotAttempts,  \* MAX_SNAPSHOT_ATTEMPTS of status.rs
  MaxIdlePolls,         \* max_idle_polls of follow
  Watchers              \* who may look at the run meanwhile: a behaviour has one

ASSUME BoundsAreNaturals ==
  /\ MaxEvents \in Nat /\ MaxStops \in Nat
  /\ MaxSnapshotAttempts \in Nat \ {0} /\ MaxIdlePolls \in Nat
  /\ Watchers \subseteq {"status", "export", "follower"}

VARIABLES
  file,     \* the cells of events.jsonl
  synced,   \* how many of them the disk has for certain
  engine,   \* where the process that holds the run is
  known,    \* the events in its memory: its own fold of the log
  rests,    \* ghost: the events that effects outside the log were carried out on
  acked,    \* events an append has acknowledged to some process, ever
  next,     \* number of the next event written
  stops,    \* crashes so far
  reader,   \* the snapshot reader
  still,    \* ghost: its first read was the log while nobody held the run
  tail      \* the follower

vars == <<file, synced, engine, known, rests, acked, next, stops, reader, still, tail>>
writerVars == <<file, synced, engine, known, rests, acked, next, stops>>

Kind == {"run_started", "run_resumed", "attempt_started", "settled", "run_finished"}
Event == [kind : Kind, seq : 1..MaxEvents]
Newline == [half |-> 0, of |-> 0]
Json(e) == <<[half |-> 1, of |-> e], [half |-> 2, of |-> e]>>
Line(e) == Append(Json(e), Newline)

(* ---------------------------- reading the file -------------------------- *)

\* events::parse_bytes: only what a newline ends was ever committed.
CommittedEnd(cells) == Max({0} \cup {i \in DOMAIN cells : cells[i] = Newline})

Committed(cells) == SubSeq(cells, 1, CommittedEnd(cells))

\* The line that the newline at i ends.
LineBefore(cells, i) ==
  SubSeq(cells, CommittedEnd(SubSeq(cells, 1, i - 1)) + 1, i - 1)

\* A committed line that is not one event: a rewritten log, which every
\* whole-log reader refuses.
Corrupt(cells) ==
  \E i \in DOMAIN cells :
    /\ cells[i] = Newline
    /\ LET line == LineBefore(cells, i)
       IN line # <<>> /\ (Len(line) # 2 \/ line # Json(line[1].of))

\* The events of a log that is not corrupt, one to a committed line: the k-th
\* is the one whose line is the k-th to begin.
EventsOf(cells) ==
  LET begins == {i \in 1..CommittedEnd(cells) : cells[i].half = 1}
  IN [k \in 1..Cardinality(begins) |->
        cells[CHOOSE i \in begins : Cardinality(begins \cap (1..i)) = k].of]

Held == engine.at # "away"

(* ------------------------------- the engine ------------------------------ *)

Away == [at |-> "away", writing |-> <<>>]
At(place) == [at |-> place, writing |-> <<>>]

IdleReader == [at |-> "idle", as |-> "none", heldBefore |-> FALSE, first |-> <<>>, round |-> 0]
NewTail == [at |-> "poll", offset |-> 0, shown |-> <<>>, idle |-> 0, terminal |-> FALSE]

Init ==
  /\ file = <<>> /\ synced = 0 /\ engine = Away /\ known = <<>> /\ rests = <<>>
  /\ acked = 0 /\ next = 1 /\ stops = 0
  /\ still = FALSE
  /\ \E who \in Watchers :
       /\ reader = [IdleReader EXCEPT !.as = who]
       /\ tail = IF who = "follower" THEN NewTail ELSE [NewTail EXCEPT !.at = "done"]

\* run_harness_inner and resume_harness_inner: the run's lock comes first.
Claim ==
  /\ ~Held
  /\ engine' = At("claimed")
  /\ UNCHANGED <<file, synced, known, acked, next, stops>>

\* A fresh run reads nothing.
BeginFresh ==
  /\ engine.at = "claimed" /\ next = 1
  /\ engine' = At("ready") /\ known' = <<>>
  /\ UNCHANGED <<file, synced, acked, next, stops>>

\* A resume folds what is there, and syncs none of it; a log it cannot read,
\* or that names no run, is refused.
ReadLog ==
  /\ engine.at = "claimed" /\ next > 1
  /\ IF ~Corrupt(file) /\ EventsOf(file) # <<>>
       THEN engine' = At("loaded") /\ known' = EventsOf(file)
       ELSE engine' = Away /\ known' = <<>>
  /\ UNCHANGED <<file, synced, acked, next, stops>>

\* Before it opens the log a resume brings git in line with what it read: it
\* reclaims snapshot worktrees, publishes a prepared commit, removes pins and
\* discards what a dead agent left.  A kill or a refusal half way leaves some
\* of that done (EngineStops).
Repair ==
  /\ engine.at = "loaded"
  /\ engine' = At("ready")
  /\ UNCHANGED <<file, synced, known, acked, next, stops>>

Keep_Fault(cells) == Len(cells)

\* EventLog::open: how much of an existing file survives being opened.
Keep(cells) == CommittedEnd(cells)

OpenLog ==
  /\ engine.at = "ready"
  /\ file' = SubSeq(file, 1, Keep(file))
  /\ synced' = IF synced < Keep(file) THEN synced ELSE Keep(file)
  /\ engine' = At("opened")
  /\ UNCHANGED <<known, acked, next, stops>>

LastKind == IF known = <<>> THEN "none" ELSE Last(known).kind

InFlight(events) ==
  \E i \in DOMAIN events :
    /\ events[i].kind = "attempt_started"
    /\ \A j \in DOMAIN events : j > i => events[j].kind # "settled"

\* What the engine may append next: a process opens with run_started or
\* run_resumed, settles what it starts (a resume settles what it found), and
\* ends with run_finished.
Appendable(kind) ==
  \/ kind = "run_started" /\ engine.at = "opened" /\ known = <<>>
  \/ kind = "run_resumed" /\ engine.at = "opened" /\ known # <<>>
  \/ engine.at = "working" /\ CASE kind = "settled" -> InFlight(known)
                              [] kind \in {"attempt_started", "run_finished"} ->
                                   ~InFlight(known) /\ LastKind # "run_finished"
                              [] OTHER -> FALSE

\* EventLog::append: write_all puts some cells of the line down ...
WriteSome ==
  \/ \E kind \in Kind :
       /\ next <= MaxEvents /\ Appendable(kind)
       /\ LET line == Line([kind |-> kind, seq |-> next]) IN
            \E n \in 1..Len(line) :
              /\ file' = file \o SubSeq(line, 1, n)
              /\ engine' = [at |-> "writing", writing |-> SubSeq(line, n + 1, Len(line))]
       /\ next' = next + 1
       /\ UNCHANGED <<synced, known, acked, stops>>
  \/ /\ engine.at = "writing" /\ engine.writing # <<>>
     /\ file' = file \o engine.writing
     /\ engine' = At("writing")
     /\ UNCHANGED <<synced, known, acked, next, stops>>

Synced_Fault(cells) == synced

\* ... and nothing is returned before sync_data has the whole file on disk.
Synced(cells) == Len(cells)

Sync ==
  /\ engine.at = "writing" /\ engine.writing = <<>>
  /\ synced' = Synced(file)
  /\ known' = Append(known, Last(EventsOf(file)))
  /\ acked' = Len(EventsOf(file))
  /\ engine' = At("working")
  /\ UNCHANGED <<file, next, stops>>

\* The end of a run: the report is on disk and the locks are dropped.
Release ==
  /\ engine.at = "working" /\ LastKind = "run_finished"
  /\ engine' = Away /\ known' = <<>>
  /\ UNCHANGED <<file, synced, acked, next, stops>>

\* write_all or sync_data fails, or a check does, or the process is killed.
\* Either way it is gone and the lock with it, and whatever part of a line it
\* had put down stays.
EngineStops ==
  /\ Held /\ stops < MaxStops
  /\ engine' = Away /\ known' = <<>>
  /\ stops' = stops + 1
  /\ UNCHANGED <<file, synced, acked, next>>

\* A resume's repairs, and after them everything done between two appends,
\* have effects that outlive the process: they rest on the events it knew.
Acts == rests' = IF engine'.at \in {"ready", "working"} THEN known' ELSE rests

Writer == Claim \/ BeginFresh \/ ReadLog \/ Repair \/ OpenLog \/ WriteSome \/ Sync
            \/ Release \/ EngineStops

(* --------------------------- snapshot readers ---------------------------- *)

Give(result) == reader' = [reader EXCEPT !.at = result]

Probe1 ==
  /\ reader.at = "idle" /\ reader.as \in {"status", "export"}
  /\ IF reader.as = "export" /\ Held
       THEN Give("refused")
       ELSE reader' = [reader EXCEPT !.at = "first", !.heldBefore = Held, !.round = 1]

ReadFirst ==
  /\ reader.at = "first" /\ file # <<>>
  /\ reader' = [reader EXCEPT !.at = "probe", !.first = file]

\* stable_event_bytes_with: a live answer needs one read, a dead one a second.
StatusProbe ==
  /\ reader.at = "probe" /\ reader.as = "status"
  /\ CASE reader.heldBefore # Held -> Give("again")
       [] Held -> Give("live")
       [] OTHER -> Give("second")

\* begin_snapshot_with, after its read.
ExportProbe ==
  /\ reader.at = "probe" /\ reader.as = "export"
  /\ Give(IF Held THEN "refused" ELSE "second")

SameAsFirst_Fault == TRUE
SameAsFirst == file = reader.first

\* The second read, and then the last probe: in that order in both readers.
ReadSecond ==
  /\ reader.at = "second"
  /\ Give(IF SameAsFirst THEN "same" ELSE "changed")

LastProbe ==
  /\ reader.at \in {"same", "changed"}
  /\ Give(IF reader.at = "same" /\ ~Held THEN "dead"
          ELSE IF reader.as = "status" THEN "again" ELSE "refused")

MayTryAgain_Fault == TRUE
MayTryAgain == reader.round < MaxSnapshotAttempts

\* status tries again from a fresh probe; export never does.
TryAgain ==
  /\ reader.at = "again"
  /\ IF MayTryAgain
       THEN reader' = [IdleReader EXCEPT !.at = "first", !.as = "status", !.heldBefore = Held,
                                         !.round = reader.round + 1]
       ELSE Give("refused")

Reader == Probe1 \/ ReadFirst \/ StatusProbe \/ ExportProbe \/ ReadSecond \/ LastProbe
            \/ TryAgain

(* ------------------------------ the follower ----------------------------- *)

Advance_Fault(chunk) == Len(chunk)

\* LogTail::poll moves past the complete lines it read and no further.
Advance(chunk) == CommittedEnd(chunk)

\* A file shorter than the offset was replaced underneath: start over.
From == IF Len(file) < tail.offset THEN 0 ELSE tail.offset

Fresh == SubSeq(file, From + 1, Len(file))

ShownTerminal(events) ==
  LET marks == {i \in DOMAIN events : events[i].kind \in {"run_finished", "run_resumed"}}
  IN IF marks = {} THEN tail.terminal ELSE events[Max(marks)].kind = "run_finished"

Poll ==
  /\ tail.at = "poll"
  /\ LET new == EventsOf(Fresh) IN
       IF Corrupt(Fresh) THEN tail' = [tail EXCEPT !.at = "done"]
       ELSE IF CommittedEnd(Fresh) = 0
         THEN tail' = [tail EXCEPT !.offset = From, !.at = "quiet"]
         ELSE tail' = [at |-> IF ShownTerminal(new) THEN "ended" ELSE "poll",
                       offset |-> From + Advance(Fresh),
                       shown |-> tail.shown \o new,
                       idle |-> 0,
                       terminal |-> ShownTerminal(new)]

Idle_Fault == IF Held THEN 0 ELSE tail.idle

\* The idle budget runs only while nothing drives the run.
Idle == IF Held THEN 0 ELSE tail.idle + 1

\* follow, after a poll that brought nothing, and then the sleep.
ProbeQuiet ==
  /\ tail.at = "quiet"
  /\ IF ~Held /\ (tail.terminal \/ Idle > MaxIdlePolls)
       THEN tail' = [tail EXCEPT !.at = "done"]
       ELSE tail' = [tail EXCEPT !.at = "poll", !.idle = Idle]

\* follow, after a poll that left the run recorded as finished.
ProbeEnded ==
  /\ tail.at = "ended"
  /\ tail' = [tail EXCEPT !.at = IF Held THEN "poll" ELSE "done"]

Follower == Poll \/ ProbeQuiet \/ ProbeEnded

(* -------------------------------- together ------------------------------- *)

\* The machine loses power: every process is gone, and of the cells the disk
\* was not made to take, any number.
PowerLoss ==
  /\ stops < MaxStops
  /\ \E n \in synced..Len(file) : file' = SubSeq(file, 1, n) /\ synced' = n
  /\ engine' = Away /\ known' = <<>> /\ stops' = stops + 1
  /\ reader' = [IdleReader EXCEPT !.as = reader.as] /\ still' = FALSE
  /\ tail' = IF reader.as = "follower" THEN NewTail ELSE tail
  /\ UNCHANGED <<rests, acked, next>>

\* Has the log, as the reader first saw it, been the log of a run nobody held?
Watch == still' = /\ reader'.at \in {"probe", "second", "same", "changed", "dead"}
                  /\ \/ still
                     \/ engine'.at = "away" /\ Committed(file') = Committed(reader'.first)

Next ==
  \/ Writer /\ Acts /\ UNCHANGED <<reader, tail>> /\ Watch
  \/ Reader /\ UNCHANGED <<writerVars, tail>> /\ Watch
  \/ Follower /\ UNCHANGED <<writerVars, reader>> /\ Watch
  \/ PowerLoss

\* A follower keeps polling: its loop has no other exit, and its sleep ends.
Spec == Init /\ [][Next]_vars /\ WF_vars(Follower /\ UNCHANGED <<writerVars, reader>> /\ Watch)

(* ------------------------------- properties ------------------------------ *)

\* The types of the file, the writer, the reader and the follower.
TypeOK ==
  /\ engine.at \in {"away", "claimed", "loaded", "ready", "opened", "writing", "working"}
  /\ known \in Seq(Event) /\ rests \in Seq(Event)
  /\ synced \in 0..Len(file) /\ acked \in 0..MaxEvents
  /\ next \in 1..MaxEvents + 1 /\ stops \in 0..MaxStops
  /\ reader.at \in {"idle", "first", "probe", "again", "second", "same", "changed",
                    "live", "dead", "refused"}
  /\ reader.round \in 0..MaxSnapshotAttempts
  /\ tail.at \in {"poll", "quiet", "ended", "done"} /\ tail.shown \in Seq(Event)

\* "Damage anywhere but the end means corruption": whatever writes were cut
\* short, by whatever stop, and however often the run was resumed over them,
\* no committed line of the log is ever anything but one event.
NeverCorrupt == ~Corrupt(file)

\* No event is told twice and none is skipped over: the events of the log are
\* numbered in the order they were written, and the engine's memory is exactly
\* the log it would read back -- apart from the line it is writing.
MemoryIsTheLog ==
  /\ LET events == EventsOf(file)
     IN \A i, j \in DOMAIN events : i < j => events[i].seq < events[j].seq
  /\ engine.at \in {"loaded", "ready", "opened", "working"} => known = EventsOf(file)
  /\ engine.at = "writing" => EventsOf(file) \in {known} \cup {Append(known, e) : e \in Event}

\* What a power loss leaves for certain.
OnDisk == EventsOf(SubSeq(file, 1, synced))

\* From a resume's repairs on, what an engine does rests on the log it then
\* appends to; between its appends it rests on nothing the disk may still
\* lose, be it an append of its own or a line it found whose writer died
\* before anyone knew it was durable.  And of all that work ever rested on,
\* also that of processes long gone, what an append acknowledged is on disk:
\* only a resume's repairs, which come before its first append, rest on more.
WorkRestsOnTheDisk ==
  /\ engine.at \in {"ready", "opened", "writing", "working"} => rests = known
  /\ engine.at = "working" => known = OnDisk
  /\ \A i \in DOMAIN rests : i <= acked => i \in DOMAIN OnDisk /\ OnDisk[i] = rests[i]

\* events.rs says of an append that "a crash or power loss is recoverable by
\* replaying this file, which is only true if the event reached the disk
\* before the work it describes carried on": a settlement whose commit was
\* published would always be there to be replayed, also when a resume did it.
RecoverableByReplay ==
  \A i \in DOMAIN rests :
    rests[i].kind = "settled" => i \in DOMAIN EventsOf(file) /\ EventsOf(file)[i] = rests[i]

\* A reader that says "nobody drives this run, and this is its log" saw a log
\* that really stood still: at some instant between its two reads the run was
\* held by nobody and its committed part was what it read.  A status that broke this
\* would report an attempt as interrupted that had in fact been settled; an
\* export would publish rows of a run in motion.
DeadMeansStill == reader.at = "dead" => still

\* `status --follow` shows the run as it was recorded: never half an event,
\* none twice, none skipped, whatever the writer was in the middle of.
ShowsThePrefix == IsPrefix(tail.shown, EventsOf(file))

\* A terminal attached to an engine that has died is released.
FollowerReleased == <>[](~Held) => <>(tail.at = "done")

\* The promise AppendOnlyLog states, kept by the file.
Promise == INSTANCE AppendOnlyLog WITH log <- EventsOf(file), shown <- tail.shown
\* Every step of writer, disk and readers is a step of AppendOnlyLog or none:
\* what an append acknowledged stays, in its order, through every crash.
KeepsThePromise == Promise!Spec

\* status.rs says of a follower that finds a run_finished and a held run that
\* it "must wait for the marker rather than treating historical terminal state
\* as the current process's result": it never returns on a run_finished when a
\* run_resumed after it is already in the log.
WaitsForTheMarker ==
  [][tail.at \in {"quiet", "ended"} /\ tail.terminal /\ tail'.at = "done" =>
       \A i \in DOMAIN EventsOf(file) :
         i > Len(tail.shown) => EventsOf(file)[i].kind # "run_resumed"]_vars

\* What the engine does rests on the log: the log is whole, its memory is that
\* log, and the disk has what the work depends on.
WorkRestsOnTheLog ==
  TypeOK /\ NeverCorrupt /\ MemoryIsTheLog /\ WorkRestsOnTheDisk

\* A follower sees the run as it was recorded, and gets away from one that died.
FollowerIsServed == []ShowsThePrefix /\ FollowerReleased
==============================================================================
