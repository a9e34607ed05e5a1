----------------------- MODULE AttemptPipelineProofs -----------------------
(***************************************************************************)
(* One attempt and the snapshots it is judged in, for any number of them,  *)
(* any plans and any faults.  The snapshots come first: their invariant    *)
(* speaks of the store alone, and the attempt's rests on it.               *)
(***************************************************************************)
EXTENDS AttemptPipeline, SequenceTheorems, FiniteSetTheorems, TLAPS

Opening == {"sync", "mkdir", "mkhooks", "add", "adding", "verify", "live"}
Closing == {"remove", "removing", "list", "delete", "unlink", "unsync"}
AddWork == {"register", "populate", "checkout", "unlock"}
RemoveWork == {"remove", "clear", "forget"}

(* What git has registered has an intent, and was made where something is. *)
Sound(s) == (s.reg # "none" => s.intent) /\ (s.reg = "done" => s.dir # "empty")

(* ... on every disk there may be.                                         *)
Disks ==
  /\ disk \in maybe
  /\ \A d \in maybe : \A n \in Names \ outlived : Sound(d[n])

(* A git process is the one the engine waits for, or was left running.     *)
Waited ==
  /\ \A g \in gits : g.child => /\ engine # "down" /\ at.on = g.on
                                /\ at.step = IF g.does \in AddWork THEN "adding" ELSE "removing"
  /\ \A g, h \in gits : g.child /\ h.child => g = h
  /\ \A g \in gits : ~g.child => g.on \in outlived

(* How far a snapshot has come when the engine is at a step.               *)
Reached(s, step) ==
  /\ step \in {"sync", "mkdir", "mkhooks", "add"} => s.reg = "none"
  /\ step \in Opening \cup {"remove", "removing", "list", "delete", "unlink"} => s.intent
  /\ step \in {"mkhooks", "add"} => s.dir = "empty"
  /\ step \in {"add", "adding", "verify", "live"} => s.hooks
  /\ step \in {"verify", "live"} => s.reg = "done"
  /\ step = "live" => s.dir \in {"tree", "used"}
  /\ step \in {"delete", "unlink", "unsync"} => s.reg = "none"
  /\ step = "unsync" => ~s.intent

(* ... and when git is at one of its own.                                  *)
Added(s, does) ==
  /\ does = "register" => s.reg = "none" /\ s.dir = "empty"
  /\ does \in {"populate", "checkout", "unlock"} => s.reg = "locked"
  /\ does \in {"checkout", "unlock"} => s.dir \in {"part", "tree"}

Stages ==
  /\ at.step = "idle" => at = Idle
  /\ engine = "down" => at = Idle
  /\ at.on \notin outlived => Reached(disk[at.on], at.step)
  /\ \A g \in gits : g.on \notin outlived => Added(disk[g.on], g.does)

(* What git still lists after it was asked to remove it without an error.  *)
Kept(s) == s.reg = "none" \/ s.reg = "locked" \/ (s.reg = "done" /\ s.dir = "part")

Listed == at.step = "list" /\ at.on \notin outlived \cup failed => Kept(disk[at.on])

(* Where work goes on, what is left of a snapshot is the one in hand, or   *)
(* git was cut off in it, or its cleanup failed.                           *)
Leftovers ==
  /\ engine = "working" =>
       \A n \in Names \ (outlived \cup failed) :
         disk[n].intent => Stuck(n) \/ (at.step # "idle" /\ at.on = n)
  /\ engine # "down" => refused = {}
  /\ \A n \in refused \ (outlived \cup failed) : Stuck(n)

(* Names are given out in order.                                           *)
Named ==
  /\ \E k \in 0..MaxSnapshots : used = 1..k
  /\ at.step \in Opening => at.on \in used

SnapInv == SnapTypeOK /\ Disks /\ Waited /\ Stages /\ Listed /\ Leftovers /\ Named

-----------------------------------------------------------------------------
(* The types that a step of the engine or of git leaves alone.             *)
Rests ==
  /\ after \in {"work", "resume", "fail"} /\ stops \in Nat /\ faults \in Nat
  /\ failed \subseteq Names

(* Only the snapshot n is written to, and it stays one that can be found.  *)
Touches(n) ==
  /\ disk' \in [Names -> Snapshot] /\ disk' \in maybe' /\ maybe' \subseteq maybe \cup {disk'}
  /\ \A m \in Names \ {n} : disk'[m] = disk[m]
  /\ n \notin outlived => Sound(disk'[n])

(* What a write does ...                                                   *)
LEMMA WriteIs ==
  ASSUME disk \in [Names -> Snapshot], NEW n \in Names, NEW s \in Snapshot, Write(n, s)
  PROVE  /\ disk' \in [Names -> Snapshot] /\ disk'[n] = s
         /\ \A m \in Names \ {n} : disk'[m] = disk[m]
         /\ disk' \in maybe' /\ maybe' \subseteq maybe \cup {disk'}
BY DEF Write

(* ... and what it must not do.                                            *)
LEMMA WriteTouches ==
  ASSUME disk \in [Names -> Snapshot], NEW n \in Names, NEW s \in Snapshot, Write(n, s),
         n \notin outlived => Sound(s)
  PROVE  Touches(n) /\ disk'[n] = s
BY WriteIs DEF Touches

(* Nothing is written, or what is there is synced.                         *)
LEMMA SameTouches ==
  ASSUME SnapInv, NEW n \in Names, UNCHANGED <<disk, maybe>> \/ Synced
  PROVE  Touches(n) /\ disk' = disk
<1>1. disk \in [Names -> Snapshot] /\ disk \in maybe
  BY DEF SnapInv, SnapTypeOK, Disks
<1>2. disk' = disk /\ disk' \in maybe' /\ maybe' \subseteq maybe \cup {disk'}
  BY <1>1 DEF Synced
<1>3. n \notin outlived => Sound(disk'[n])
  BY <1>1, <1>2 DEF SnapInv, Disks
<1> QED
  BY <1>1, <1>2, <1>3 DEF Touches

(* The disks stay sound.                                                   *)
LEMMA TouchKeepsDisks ==
  ASSUME SnapInv, NEW n \in Names, Touches(n), outlived' = outlived
  PROVE  Disks' /\ (maybe \subseteq [Names -> Snapshot])' /\ (disk \in [Names -> Snapshot])'
<1>1. maybe' \subseteq [Names -> Snapshot]
  BY DEF SnapInv, SnapTypeOK, Touches
<1>2. \A m \in Names \ outlived : Sound(disk'[m])
  <2>1. ASSUME NEW m \in Names \ outlived PROVE Sound(disk'[m])
    <3>1. CASE m = n
      BY <3>1 DEF Touches
    <3>2. CASE m # n
      BY <3>2 DEF Touches, SnapInv, Disks
    <3> QED
      BY <3>1, <3>2
  <2> QED
    BY <2>1
<1>3. \A d \in maybe' : \A m \in Names \ outlived' : Sound(d[m])
  <2>1. ASSUME NEW d \in maybe', NEW m \in Names \ outlived' PROVE Sound(d[m])
    <3>1. CASE d \in maybe
      BY <3>1 DEF SnapInv, Disks
    <3>2. CASE d = disk'
      BY <3>2, <1>2
    <3> QED
      BY <3>1, <3>2 DEF Touches
  <2> QED
    BY <2>1
<1> QED
  BY <1>1, <1>3 DEF Touches, Disks

(* A step of the engine itself: from a place where it waits for no git, to *)
(* the next, with the snapshot in hand as far as it should be.             *)
LEMMA EngineStep ==
  ASSUME SnapInv, NEW n \in Names, Touches(n), Rests',
         at.on = n, at.step \notin {"idle", "adding", "removing"},
         NEW next \in Opening \cup Closing, next \notin {"adding", "removing", "list"},
         at' = [step |-> next, on |-> n], n \notin outlived => Reached(disk'[n], next),
         next \in Opening => at.step \in Opening,
         UNCHANGED <<engine, gits, used, outlived, refused, failed>>
  PROVE  SnapInv'
<1>1. SnapTypeOK'
  BY TouchKeepsDisks DEF SnapInv, SnapTypeOK, Rests, Opening, Closing
<1>2. at'.step = next /\ at'.on = n /\ engine # "down"
  BY DEF SnapInv, Stages, Idle
<1>3. \A g \in gits : ~g.child /\ g.on \in outlived
  BY DEF SnapInv, Waited
<1>4. Waited'
  BY <1>3 DEF Waited
<1>5. Stages'
  BY <1>2, <1>3 DEF Stages, Opening, Closing
<1>9. Listed'
  BY <1>2 DEF Listed
<1>6. Leftovers'
  <2>1. ASSUME engine = "working", NEW m \in Names \ (outlived \cup failed), disk'[m].intent, m # n
        PROVE  Stuck(m)'
    <3>1. disk'[m] = disk[m]
      BY <2>1 DEF Touches
    <3> QED
      BY <2>1, <3>1 DEF SnapInv, Leftovers, Stuck
  <2>2. refused = {}
    BY <1>2 DEF SnapInv, Leftovers
  <2> QED
    BY <1>2, <2>1, <2>2 DEF Leftovers, Opening, Closing
<1>7. Named'
  BY <1>2 DEF SnapInv, Named
<1> QED
  BY <1>1, <1>4, <1>5, <1>6, <1>7, <1>9, TouchKeepsDisks DEF SnapInv

(* The engine goes down at a place where it waits for no git.              *)
LEMMA EngineFails ==
  ASSUME SnapInv, NEW n \in Names, Touches(n), Rests', Down,
         at.step \notin {"adding", "removing"},
         failed \subseteq failed',
         refused' \subseteq Names, \A m \in refused' \ (outlived \cup failed') : Stuck(m)',
         UNCHANGED <<gits, used, outlived>>
  PROVE  SnapInv'
<1>1. at' = Idle /\ engine' = "down" /\ at'.step = "idle" /\ at'.on = 1 /\ 1 \in Names
  BY SnapshotBounds DEF Down, Idle, Names
<1>2. SnapTypeOK'
  <2>1. at' \in [step : {"idle"}, on : Names]
    BY <1>1 DEF Idle
  <2> QED
    BY <1>1, <2>1, TouchKeepsDisks DEF SnapInv, SnapTypeOK, Rests
<1>3. \A g \in gits : ~g.child /\ g.on \in outlived
  BY DEF SnapInv, Waited
<1>4. Waited'
  BY <1>3 DEF Waited
<1>5. Stages'
  BY <1>1, <1>3 DEF Stages, Reached, Opening
<1>8. Listed'
  BY <1>1 DEF Listed
<1>6. Leftovers'
  BY <1>1 DEF Leftovers
<1>7. Named'
  BY <1>1 DEF SnapInv, Named, Opening
<1> QED
  BY <1>2, <1>4, <1>5, <1>6, <1>7, <1>8, TouchKeepsDisks DEF SnapInv

(* The engine starts a git and waits for it.                               *)
LEMMA GitStarts ==
  ASSUME SnapInv, NEW n \in Names, at.on = n, at.step \notin {"idle", "adding", "removing"},
         NEW does \in {"register", "remove"},
         gits' = gits \cup {[does |-> does, on |-> n, child |-> TRUE]},
         NEW next \in {"adding", "removing"},
         next = IF does = "register" THEN "adding" ELSE "removing",
         at' = [step |-> next, on |-> n],
         n \notin outlived => Added(disk[n], does) /\ Reached(disk[n], next),
         next = "adding" => at.step \in Opening,
         failed' \in {failed, failed \ {n}},
         UNCHANGED <<disk, maybe, engine, after, used, outlived, refused, stops, faults>>
  PROVE  SnapInv'
<1>1. PICK g \in Git : g = [does |-> does, on |-> n, child |-> TRUE]
  BY DEF Git
<1>2. g.does = does /\ g.on = n /\ g.child
  BY <1>1
<1>3. at'.step = next /\ at'.on = n /\ engine # "down"
  BY DEF SnapInv, Stages, Idle
<1>4. \A h \in gits : ~h.child /\ h.on \in outlived
  BY DEF SnapInv, Waited
<1>5. gits' = gits \cup {g}
  BY <1>1
<1>6. SnapTypeOK'
  BY <1>5 DEF SnapInv, SnapTypeOK
<1>7. Waited'
  BY <1>2, <1>3, <1>4, <1>5 DEF Waited, AddWork
<1>8. Stages'
  <2>1. \A h \in gits' : h.on \notin outlived => Added(disk[h.on], h.does)
    BY <1>2, <1>4, <1>5
  <2> QED
    BY <1>3, <2>1 DEF Stages
<1>12. Listed'
  BY <1>3 DEF Listed
<1>9. Leftovers'
  BY <1>3 DEF SnapInv, Leftovers, Stuck, Idle, Stages
<1>10. Named'
  BY <1>3 DEF SnapInv, Named, Opening
<1>11. Disks'
  BY DEF SnapInv, Disks
<1> QED
  BY <1>6, <1>7, <1>8, <1>9, <1>10, <1>11, <1>12 DEF SnapInv

(* Where the engine is says how far its snapshot has come.                 *)
LEMMA Here ==
  ASSUME SnapInv, NEW n \in Names, NEW step, At(step, n)
  PROVE  /\ at.on = n /\ at.step = step /\ disk[n] \in Snapshot
         /\ n \notin outlived => Reached(disk[n], step) /\ Sound(disk[n])
BY DEF SnapInv, SnapTypeOK, Stages, Disks, At

(* A snapshot that is there is about to be taken away.                     *)
LEMMA ToRemoval ==
  ASSUME SnapInv, NEW n \in Names, at.on = n, at.step \in {"verify", "live"},
         disk' = disk, maybe' = maybe, Step("remove", n),
         after' \in {"work", "resume", "fail"}, faults' \in Nat,
         UNCHANGED <<engine, gits, used, outlived, refused, failed, stops>>
  PROVE  SnapInv'
<1>1. Touches(n)
  BY SameTouches
<1>2. n \notin outlived => Reached(disk'[n], "remove")
  BY DEF SnapInv, Stages, Reached, Opening
<1>3. Rests'
  BY DEF SnapInv, SnapTypeOK, Rests
<1>4. "remove" \in Opening \cup Closing /\ "remove" \notin Opening
  BY DEF Opening, Closing
<1>5. at' = [step |-> "remove", on |-> n] /\ at.step \notin {"idle", "adding", "removing"}
  BY DEF Step
<1> QED
  BY <1>1, <1>2, <1>3, <1>4, <1>5, EngineStep

(* The steps on the way to an open snapshot.                               *)
LEMMA OpeningKeeps ==
  ASSUME SnapInv, NEW n \in Names, OpenSteps(n)
  PROVE  SnapInv'
<1>0. SnapTypeOK /\ disk \in [Names -> Snapshot] /\ disk[n] \in Snapshot /\ Rests
  BY DEF SnapInv, SnapTypeOK, Rests
<1>1. CASE SyncIntent(n)
  <2>1. at.on = n /\ at.step = "sync" /\ (n \notin outlived => Reached(disk[n], "sync"))
    BY <1>1, Here DEF SyncIntent
  <2>2. Touches(n) /\ disk' = disk
    BY <1>1, SameTouches DEF SyncIntent
  <2> QED
    BY <1>0, <1>1, <2>1, <2>2, EngineStep
       DEF SyncIntent, Step, Quiet, Rest, Rests, Opening, Reached
<1>2. CASE SyncIntentFails(n)
  <2>1. at.on = n /\ at.step = "sync"
    BY <1>2, Here DEF SyncIntentFails
  <2>2. Touches(n) /\ disk' = disk
    BY <1>2, SameTouches DEF SyncIntentFails
  <2>3. refused = {}
    BY <2>1 DEF SnapInv, Leftovers, Stages, Idle
  <2> QED
    BY <1>0, <1>2, <2>1, <2>2, <2>3, EngineFails DEF SyncIntentFails, Fault, Rest, Rests
<1>3. CASE MakePath(n)
  <2>1. at.on = n /\ at.step = "mkdir" /\ (n \notin outlived => Reached(disk[n], "mkdir"))
    BY <1>3, Here DEF MakePath
  <2>2. PICK s \in Snapshot : s = [disk[n] EXCEPT !.dir = "empty"]
    BY <1>0 DEF Snapshot
  <2>3. s.dir = "empty" /\ s.intent = disk[n].intent /\ s.reg = disk[n].reg
    BY <1>0, <2>2 DEF Snapshot
  <2>4. Touches(n) /\ disk'[n] = s
    BY <1>0, <1>3, <2>1, <2>2, <2>3, WriteTouches DEF MakePath, Sound, Reached, Opening
  <2> QED
    BY <1>0, <1>3, <2>1, <2>3, <2>4, EngineStep
       DEF MakePath, Step, Quiet, Rest, Rests, Opening, Reached
<1>4. CASE MakeHooks(n)
  <2>1. at.on = n /\ at.step = "mkhooks" /\ (n \notin outlived => Reached(disk[n], "mkhooks"))
    BY <1>4, Here DEF MakeHooks
  <2>2. PICK s \in Snapshot : s = [disk[n] EXCEPT !.hooks = TRUE]
    BY <1>0 DEF Snapshot
  <2>3. s.hooks /\ s.dir = disk[n].dir /\ s.intent = disk[n].intent /\ s.reg = disk[n].reg
    BY <1>0, <2>2 DEF Snapshot
  <2>4. Touches(n) /\ disk'[n] = s
    BY <1>0, <1>4, <2>1, <2>2, <2>3, WriteTouches DEF MakeHooks, Sound, Reached, Opening
  <2> QED
    BY <1>0, <1>4, <2>1, <2>3, <2>4, EngineStep
       DEF MakeHooks, Step, Quiet, Rest, Rests, Opening, Reached
<1>5. CASE MakeFails(n)
  <2>1. at.on = n /\ at.step \in {"mkdir", "mkhooks"}
    BY <1>5, Here DEF MakeFails
  <2>2. Nothing \in Snapshot /\ Sound(Nothing)
    BY DEF Nothing, Snapshot, Sound
  <2>3. Touches(n)
    BY <1>0, <1>5, <2>2, WriteTouches, SameTouches DEF MakeFails
  <2>4. refused = {}
    BY <2>1 DEF SnapInv, Leftovers, Stages, Idle
  <2> QED
    BY <1>0, <1>5, <2>1, <2>3, <2>4, EngineFails DEF MakeFails, Fault, Rest, Rests
<1>6. CASE AddWorktree(n)
  <2>1. at.on = n /\ at.step = "add" /\ (n \notin outlived => Reached(disk[n], "add"))
    BY <1>6, Here DEF AddWorktree
  <2> QED
    BY <1>6, <2>1, GitStarts DEF AddWorktree, Step, Added, Reached, Opening
<1>7. CASE Open(n)
  <2>1. at.on = n /\ at.step = "verify" /\ (n \notin outlived => Reached(disk[n], "verify"))
    BY <1>7, Here DEF Open, Verified
  <2>2. Touches(n) /\ disk' = disk
    BY <1>7, SameTouches DEF Open
  <2> QED
    BY <1>0, <1>7, <2>1, <2>2, EngineStep
       DEF Open, Verified, Step, Quiet, Rest, Rests, Opening, Reached
<1>8. CASE VerifyRefuses(n)
  <2>1. at.on = n /\ at.step = "verify" /\ (n \notin outlived => Reached(disk[n], "verify"))
    BY <1>8, Here DEF VerifyRefuses
  <2>2. Touches(n) /\ disk' = disk
    BY <1>8, SameTouches DEF VerifyRefuses
  <2> QED
    BY <1>0, <1>8, <2>1, ToRemoval DEF VerifyRefuses, Rests
<1> QED
  BY <1>1, <1>2, <1>3, <1>4, <1>5, <1>6, <1>7, <1>8 DEF OpenSteps

(* The engine is done with a snapshot and rests.                           *)
LEMMA EngineRests ==
  ASSUME SnapInv, NEW n \in Names, Touches(n), Rests',
         at.on = n, at.step \notin {"idle", "adding", "removing"}, at' = Idle,
         failed \subseteq failed',
         n \notin outlived \cup failed' => ~disk'[n].intent \/ Stuck(n)',
         UNCHANGED <<engine, gits, used, outlived, refused>>
  PROVE  SnapInv'
<1>1. at'.step = "idle" /\ at'.on = 1 /\ 1 \in Names /\ engine # "down"
  BY SnapshotBounds DEF SnapInv, Stages, Idle, Names
<1>2. SnapTypeOK'
  <2>1. at' \in [step : {"idle"}, on : Names]
    BY <1>1 DEF Idle
  <2> QED
    BY <2>1, TouchKeepsDisks DEF SnapInv, SnapTypeOK, Rests
<1>3. \A g \in gits : ~g.child /\ g.on \in outlived
  BY DEF SnapInv, Waited
<1>4. Waited'
  BY <1>3 DEF Waited
<1>5. Stages'
  BY <1>1, <1>3 DEF Stages, Reached, Opening
<1>6. Leftovers'
  <2>1. ASSUME engine = "working", NEW m \in Names \ (outlived \cup failed'), disk'[m].intent
        PROVE  Stuck(m)'
    <3>1. CASE m = n
      BY <2>1, <3>1
    <3>2. CASE m # n
      <4>1. disk'[m] = disk[m]
        BY <3>2 DEF Touches
      <4> QED
        BY <2>1, <3>2, <4>1 DEF SnapInv, Leftovers, Stuck
    <3> QED
      BY <3>1, <3>2
  <2>2. refused = {}
    BY <1>1 DEF SnapInv, Leftovers
  <2> QED
    BY <1>1, <2>1, <2>2 DEF Leftovers
<1>7. Named'
  BY <1>1 DEF SnapInv, Named, Opening
<1>8. Listed'
  BY <1>1 DEF Listed
<1> QED
  BY <1>2, <1>4, <1>5, <1>6, <1>7, <1>8, TouchKeepsDisks DEF SnapInv

(* A cleanup ends in the middle.                                           *)
LEMMA GiveUpKeeps ==
  ASSUME SnapInv, NEW n \in Names, at.on = n, at.step \in {"remove", "list", "unlink", "unsync"},
         GiveUp(n), Rests', gits' = gits, failed \subseteq failed',
         n \notin outlived \cup failed' => Stuck(n)
  PROVE  SnapInv'
<1>1. Touches(n) /\ disk' = disk
  BY SameTouches DEF GiveUp
<1>2. n \notin outlived \cup failed' => Stuck(n)'
  BY <1>1 DEF Stuck
<1>3. refused = {}
  BY DEF SnapInv, Leftovers, Stages, Idle
<1>4. UNCHANGED <<used, outlived>>
  BY DEF GiveUp
<1>5. CASE after = "work"
  BY <1>1, <1>2, <1>3, <1>4, <1>5, EngineRests DEF GiveUp
<1>6. CASE after # "work"
  <2>1. refused' \subseteq {n} /\ Down
    BY <1>3, <1>6 DEF GiveUp
  <2> QED
    BY <1>1, <1>2, <1>4, <2>1, EngineFails
<1> QED
  BY <1>5, <1>6

(* The steps that take a snapshot away.                                    *)
LEMMA ClosingKeeps ==
  ASSUME SnapInv, NEW n \in Names, CloseSteps(n)
  PROVE  SnapInv'
<1>0. SnapTypeOK /\ disk \in [Names -> Snapshot] /\ disk[n] \in Snapshot /\ Rests
  BY DEF SnapInv, SnapTypeOK, Rests
<1>1. CASE RemoveWorktree(n)
  <2>1. at.on = n /\ at.step = "remove" /\ (n \notin outlived => Reached(disk[n], "remove"))
    BY <1>1, Here DEF RemoveWorktree
  <2> QED
    BY <1>1, <2>1, GitStarts DEF RemoveWorktree, Step, Added, Reached, Opening
<1>2. CASE StillRegistered(n)
  <2>1. at.on = n /\ at.step = "list"
    BY <1>2, Here DEF StillRegistered
  <2>2. n \notin outlived \cup failed => Stuck(n)
    BY <1>2, <2>1 DEF StillRegistered, SnapInv, Listed, Kept, Stuck
  <2>3. Rests' /\ UNCHANGED <<gits, failed>> /\ GiveUp(n)
    BY <1>0, <1>2 DEF StillRegistered, GiveUp, Rests
  <2> QED
    BY <2>1, <2>2, <2>3, GiveUpKeeps
<1>7. CASE CleanupFails(n)
  <2>1. at.on = n /\ at.step \in {"remove", "list", "unlink", "unsync"}
    BY <1>7 DEF CleanupFails, At
  <2>2. Rests' /\ gits' = gits /\ GiveUp(n) /\ failed' = failed \cup {n}
    BY <1>0, <1>7 DEF CleanupFails, GiveUp, Fault, Rests
  <2> QED
    BY <2>1, <2>2, GiveUpKeeps
<1>3. CASE Confirm(n)
  <2>1. at.on = n /\ at.step = "list" /\ disk[n].reg = "none"
        /\ (n \notin outlived => Reached(disk[n], "list"))
    BY <1>3, Here DEF Confirm, Unregistered
  <2>2. Touches(n) /\ disk' = disk
    BY <1>3, SameTouches DEF Confirm
  <2> QED
    <3>1. n \notin outlived => Reached(disk'[n], "delete")
      BY <2>1, <2>2 DEF Reached, Opening
    <3>2. "delete" \in Opening \cup Closing /\ "delete" \notin Opening
      BY DEF Opening, Closing
    <3> QED
      BY <1>0, <1>3, <2>1, <2>2, <3>1, <3>2, EngineStep DEF Confirm, Step, Quiet, Rest, Rests
<1>4. CASE DeleteDirs(n)
  <2>1. at.on = n /\ at.step = "delete" /\ (n \notin outlived => Reached(disk[n], "delete"))
    BY <1>4, Here DEF DeleteDirs
  <2>2. PICK s \in Snapshot : s = [disk[n] EXCEPT !.dir = "none", !.hooks = FALSE]
    BY <1>0 DEF Snapshot
  <2>3. s.intent = disk[n].intent /\ s.reg = disk[n].reg
    BY <1>0, <2>2 DEF Snapshot
  <2>4. n \notin outlived => Sound(s)
    BY <2>1, <2>3 DEF Sound, Reached
  <2>5. Write(n, s) \/ UNCHANGED <<disk, maybe>>
    BY <1>4, <2>2 DEF DeleteDirs
  <2>6. Touches(n) /\ disk'[n] \in {s, disk[n]}
    <3>1. CASE Write(n, s)
      BY <1>0, <2>4, <3>1, WriteTouches
    <3>2. CASE UNCHANGED <<disk, maybe>>
      BY <3>2, SameTouches
    <3> QED
      BY <2>5, <3>1, <3>2
  <2>7. n \notin outlived => Reached(disk'[n], "unlink")
    BY <2>1, <2>3, <2>6 DEF Reached, Opening
  <2>8. Rests'
    BY <1>0, <1>4 DEF DeleteDirs, Fault, Rest, Rests
  <2>9. "unlink" \in Opening \cup Closing /\ "unlink" \notin Opening
    BY DEF Opening, Closing
  <2> QED
    BY <1>4, <2>1, <2>6, <2>7, <2>8, <2>9, EngineStep DEF DeleteDirs, Step, Rest
<1>5. CASE UnlinkIntent(n)
  <2>1. at.on = n /\ at.step = "unlink" /\ (n \notin outlived => Reached(disk[n], "unlink"))
    BY <1>5, Here DEF UnlinkIntent
  <2>2. PICK s \in Snapshot : s = [disk[n] EXCEPT !.intent = FALSE]
    BY <1>0 DEF Snapshot
  <2>3. ~s.intent /\ s.reg = disk[n].reg
    BY <1>0, <2>2 DEF Snapshot
  <2>4. Touches(n) /\ disk'[n] = s
    <3>1. n \notin outlived => Sound(s)
      BY <2>1, <2>3 DEF Sound, Reached
    <3>2. Write(n, s)
      BY <1>5, <2>2 DEF UnlinkIntent
    <3> QED
      BY <1>0, <3>1, <3>2, WriteTouches
  <2>5. n \notin outlived => Reached(disk'[n], "unsync")
    BY <2>1, <2>3, <2>4 DEF Reached, Opening
  <2>6. "unsync" \in Opening \cup Closing /\ "unsync" \notin Opening
    BY DEF Opening, Closing
  <2> QED
    BY <1>0, <1>5, <2>1, <2>4, <2>5, <2>6, EngineStep DEF UnlinkIntent, Step, Quiet, Rest, Rests
<1>6. CASE SyncUnlink(n)
  <2>1. at.on = n /\ at.step = "unsync" /\ (n \notin outlived => Reached(disk[n], "unsync"))
    BY <1>6, Here DEF SyncUnlink
  <2>2. Touches(n) /\ disk' = disk
    BY <1>6, SameTouches DEF SyncUnlink
  <2>3. Rests' /\ UNCHANGED <<gits, used, outlived, refused, failed>>
    BY <1>0, <1>6 DEF SyncUnlink, Rest, Rests
  <2>4. n \notin outlived => ~disk'[n].intent
    BY <2>1, <2>2 DEF Reached
  <2>5. refused = {}
    BY <2>1 DEF SnapInv, Leftovers, Stages, Idle
  <2>6. CASE after = "fail"
    BY <1>6, <2>1, <2>2, <2>3, <2>5, <2>6, EngineFails DEF SyncUnlink
  <2>7. CASE after # "fail"
    BY <1>6, <2>1, <2>2, <2>3, <2>4, <2>7, EngineRests DEF SyncUnlink
  <2> QED
    BY <2>6, <2>7
<1> QED
  BY <1>1, <1>2, <1>3, <1>4, <1>5, <1>6, <1>7 DEF CloseSteps

-----------------------------------------------------------------------------
(* What one git does concerns its own snapshot, which is in hand, or which *)
(* nobody answers for.                                                     *)
LEMMA GitLeavesRest ==
  ASSUME SnapInv, NEW g \in gits, Touches(g.on), UNCHANGED <<engine, outlived, refused>>,
         failed \subseteq failed',
         at' = at \/ (g.child /\ at'.step # "idle" /\ at'.on = g.on)
  PROVE  Leftovers'
<1>1. g.on \in Names
  BY DEF SnapInv, SnapTypeOK, Git
<1>2. g.on \notin outlived => g.child /\ engine # "down" /\ at.on = g.on /\ at.step # "idle"
  BY DEF SnapInv, Waited
<1>3. \A m \in Names \ outlived : m # g.on => (disk'[m] = disk[m])
  BY DEF Touches
<1>4. refused' = {} \/ \A m \in refused \ (outlived \cup failed) : Stuck(m)'
  <2>1. CASE engine # "down"
    BY <2>1 DEF SnapInv, Leftovers
  <2>2. CASE engine = "down"
    <3>1. ASSUME NEW m \in refused \ (outlived \cup failed) PROVE Stuck(m)'
      <4>1. m \in Names \ outlived /\ m # g.on
        BY <1>2, <2>2 DEF SnapInv, SnapTypeOK
      <4>2. Stuck(m)
        BY DEF SnapInv, Leftovers
      <4> QED
        BY <1>3, <4>1, <4>2 DEF Stuck
    <3> QED
      BY <3>1
  <2> QED
    BY <2>1, <2>2
<1>5. ASSUME engine = "working", NEW m \in Names \ (outlived \cup failed), disk'[m].intent
      PROVE  Stuck(m)' \/ (at'.step # "idle" /\ at'.on = m)
  <2>1. CASE m = g.on
    BY <1>2, <2>1
  <2>2. CASE m # g.on
    <3>1. disk'[m] = disk[m]
      BY <1>3, <2>2
    <3>2. Stuck(m) \/ (at.step # "idle" /\ at.on = m)
      BY <1>5, <3>1 DEF SnapInv, Leftovers
    <3>3. g.child => at.on = g.on
      BY DEF SnapInv, Waited
    <3> QED
      BY <2>2, <3>1, <3>2, <3>3 DEF Stuck
  <2> QED
    BY <2>1, <2>2
<1>6. engine # "down" => refused' = {}
  BY DEF SnapInv, Leftovers
<1> QED
  BY <1>4, <1>5, <1>6 DEF Leftovers

(* A step of git's own: it goes on with what it is doing.                  *)
LEMMA GitStep ==
  ASSUME SnapInv, NEW g \in gits, Touches(g.on), faults' \in Nat,
         NEW h \in Git, h.on = g.on, h.child = g.child, h.does \in AddWork <=> g.does \in AddWork,
         gits' = (gits \ {g}) \cup {h}, at' = at,
         g.on \notin outlived => /\ Added(disk'[g.on], h.does)
                                 /\ Reached(disk[g.on], at.step) => Reached(disk'[g.on], at.step),
         UNCHANGED <<engine, after, used, outlived, refused, failed, stops>>
  PROVE  SnapInv'
<1>1. g.on \in Names /\ g \in Git /\ disk \in [Names -> Snapshot]
  BY DEF SnapInv, SnapTypeOK, Git
<1>2. SnapTypeOK'
  BY <1>1, TouchKeepsDisks DEF SnapInv, SnapTypeOK
<1>3. Disks'
  BY <1>1, TouchKeepsDisks
<1>4. Waited'
  <2>1. \A k \in gits' : k = h \/ (k \in gits /\ k # g)
    OBVIOUS
  <2>2. h.child => /\ engine # "down" /\ at.on = h.on
                   /\ at.step = IF h.does \in AddWork THEN "adding" ELSE "removing"
    BY DEF SnapInv, Waited
  <2>3. \A k \in gits' : k.child => /\ engine # "down" /\ at.on = k.on
                                    /\ at.step = IF k.does \in AddWork THEN "adding" ELSE "removing"
    BY <2>1, <2>2 DEF SnapInv, Waited
  <2>4. \A k \in gits' : ~k.child => k.on \in outlived
    BY <2>1 DEF SnapInv, Waited
  <2>5. \A j, k \in gits' : j.child /\ k.child => j = k
    BY <2>1 DEF SnapInv, Waited
  <2> QED
    BY <2>3, <2>4, <2>5 DEF Waited
<1>5. Stages'
  <2>1. ASSUME at.on \notin outlived PROVE Reached(disk'[at.on], at.step)
    <3>1. CASE at.on = g.on
      BY <2>1, <3>1 DEF SnapInv, Stages
    <3>2. CASE at.on # g.on
      <4>1. disk'[at.on] = disk[at.on]
        BY <3>2 DEF Touches, SnapInv, SnapTypeOK
      <4> QED
        BY <2>1, <4>1 DEF SnapInv, Stages
    <3> QED
      BY <3>1, <3>2
  <2>2. ASSUME NEW k \in gits', k.on \notin outlived PROVE Added(disk'[k.on], k.does)
    <3>1. CASE k = h
      BY <2>2, <3>1
    <3>2. CASE k # h
      <4>1. k \in gits /\ k # g /\ k.child
        BY <2>2, <3>2 DEF SnapInv, Waited
      <4>2. ~g.child
        BY <4>1 DEF SnapInv, Waited
      <4>3. k.on # g.on /\ k.on \in Names
        BY <2>2, <4>1, <4>2 DEF SnapInv, Waited, SnapTypeOK, Git
      <4>4. disk'[k.on] = disk[k.on]
        BY <4>3 DEF Touches
      <4> QED
        BY <2>2, <4>1, <4>4 DEF SnapInv, Stages
    <3> QED
      BY <3>1, <3>2
  <2> QED
    BY <2>1, <2>2 DEF SnapInv, Stages
<1>6. Leftovers'
  BY GitLeavesRest
<1>7. Named'
  BY DEF SnapInv, Named
<1>8. Listed'
  <2>1. ASSUME at.step = "list", at.on \notin outlived \cup failed PROVE Kept(disk'[at.on])
    <3>1. at.on # g.on /\ at.on \in Names
      BY <2>1 DEF SnapInv, SnapTypeOK, Waited
    <3>2. disk'[at.on] = disk[at.on]
      BY <3>1 DEF Touches
    <3> QED
      BY <2>1, <3>2 DEF SnapInv, Listed
  <2> QED
    BY <2>1 DEF Listed
<1> QED
  BY <1>2, <1>3, <1>4, <1>5, <1>6, <1>7, <1>8 DEF SnapInv

(* Git is done, and the engine goes on if it was waiting.                  *)
LEMMA GitEnds ==
  ASSUME SnapInv, NEW g \in gits, Touches(g.on), Rests', gits' = gits \ {g},
         NEW next \in {"verify", "list", "remove"},
         at' = IF g.child THEN [step |-> next, on |-> g.on] ELSE at,
         g.child /\ next = "verify" => g.does \in AddWork,
         g.child /\ g.on \notin outlived => Reached(disk'[g.on], next),
         failed \subseteq failed',
         g.child /\ next = "list" /\ g.on \notin outlived \cup failed' => Kept(disk'[g.on]),
         UNCHANGED <<engine, used, outlived, refused>>
  PROVE  SnapInv'
<1>1. g.on \in Names /\ g \in Git /\ disk \in [Names -> Snapshot]
  BY DEF SnapInv, SnapTypeOK, Git
<1>2. SnapTypeOK'
  BY <1>1, TouchKeepsDisks DEF SnapInv, SnapTypeOK, Rests
<1>3. Disks'
  BY <1>1, TouchKeepsDisks
<1>4. \A k \in gits' : k \in gits /\ k # g /\ (k.child => ~g.child)
  BY DEF SnapInv, Waited
<1>5. Waited'
  BY <1>4 DEF SnapInv, Waited
<1>6. g.child => /\ at.on = g.on /\ engine # "down" /\ at'.step = next /\ at'.on = g.on
                 /\ at.step = IF g.does \in AddWork THEN "adding" ELSE "removing"
  BY DEF SnapInv, Waited
<1>7. Stages'
  <2>1. ASSUME at'.on \notin outlived PROVE Reached(disk'[at'.on], at'.step)
    <3>1. CASE g.child
      BY <1>6, <2>1, <3>1
    <3>2. CASE ~g.child
      <4>1. at' = at /\ at.on # g.on /\ at.on \in Names
        BY <2>1, <3>2 DEF SnapInv, Waited, SnapTypeOK
      <4>2. disk'[at.on] = disk[at.on]
        BY <4>1 DEF Touches
      <4> QED
        BY <2>1, <4>1, <4>2 DEF SnapInv, Stages
    <3> QED
      BY <3>1, <3>2
  <2>2. ASSUME NEW k \in gits', k.on \notin outlived PROVE Added(disk'[k.on], k.does)
    <3>1. k \in gits /\ k.child /\ ~g.child
      BY <1>4, <2>2 DEF SnapInv, Waited
    <3>2. k.on # g.on /\ k.on \in Names
      BY <2>2, <3>1 DEF SnapInv, Waited, SnapTypeOK, Git
    <3>3. disk'[k.on] = disk[k.on]
      BY <3>2 DEF Touches
    <3> QED
      BY <2>2, <3>1, <3>3 DEF SnapInv, Stages
  <2>3. (at'.step = "idle" => at' = Idle) /\ (engine = "down" => at' = Idle)
    BY <1>6 DEF SnapInv, Stages
  <2> QED
    BY <2>1, <2>2, <2>3 DEF Stages
<1>8. Leftovers'
  BY <1>6, GitLeavesRest
<1>9. Named'
  <2>1. at'.step \in Opening => at'.on \in used
    <3>1. CASE g.child /\ next = "verify"
      <4>1. at.step = "adding" /\ at'.on = at.on
        BY <1>6, <3>1
      <4> QED
        BY <4>1 DEF SnapInv, Named, Opening
    <3>2. CASE g.child /\ next # "verify"
      BY <1>6, <3>2 DEF Opening
    <3>3. CASE ~g.child
      BY <3>3 DEF SnapInv, Named
    <3> QED
      BY <3>1, <3>2, <3>3
  <2> QED
    BY <2>1 DEF SnapInv, Named
<1>10. Listed'
  <2>1. CASE g.child
    BY <1>6, <2>1 DEF Listed
  <2>2. ASSUME ~g.child, at.step = "list", at.on \notin outlived \cup failed' PROVE Kept(disk'[at.on])
    <3>1. at.on # g.on /\ at.on \in Names /\ at.on \notin outlived \cup failed
      BY <2>2 DEF SnapInv, SnapTypeOK, Waited
    <3>2. disk'[at.on] = disk[at.on]
      BY <3>1 DEF Touches
    <3> QED
      BY <2>2, <3>1, <3>2 DEF SnapInv, Listed
  <2> QED
    BY <2>1, <2>2 DEF Listed
<1> QED
  BY <1>2, <1>3, <1>5, <1>7, <1>8, <1>9, <1>10 DEF SnapInv

(* What holds where a git is at work.                                      *)
LEMMA AtWork ==
  ASSUME SnapInv, NEW g \in gits
  PROVE  /\ g.on \in Names /\ g \in Git /\ disk[g.on] \in Snapshot /\ disk \in [Names -> Snapshot]
         /\ faults \in Nat /\ Rests
         /\ g.on \notin outlived => /\ Sound(disk[g.on]) /\ Added(disk[g.on], g.does)
                                    /\ g.child /\ at.on = g.on /\ Reached(disk[g.on], at.step)
                                    /\ at.step = IF g.does \in AddWork THEN "adding" ELSE "removing"
BY DEF SnapInv, SnapTypeOK, Git, Disks, Stages, Waited, Rests

(* A git that goes on with its own next thing.                             *)
LEMMA GoesIs ==
  ASSUME SnapInv, NEW g \in gits,
         NEW does \in {"populate", "checkout", "unlock", "clear", "forget"}, Goes(g, does)
  PROVE  \E h \in Git : /\ h.on = g.on /\ h.child = g.child /\ h.does = does
                        /\ gits' = (gits \ {g}) \cup {h}
<1>1. g \in Git
  BY AtWork
<1>2. PICK h \in Git : h = [g EXCEPT !.does = does]
  BY <1>1 DEF Git
<1>3. h.on = g.on /\ h.child = g.child /\ h.does = does
  BY <1>1, <1>2 DEF Git
<1> QED
  BY <1>2, <1>3 DEF Goes

(* The steps of a git that adds a worktree ...                             *)
LEMMA AddingKeeps ==
  ASSUME SnapInv, NEW g \in gits, Register(g) \/ Populate(g) \/ Checkout(g) \/ Unlock(g) \/ AddFails(g)
  PROVE  SnapInv'
<1> DEFINE n == g.on
           s == disk[g.on]
<1>0. /\ n \in Names /\ s \in Snapshot /\ disk \in [Names -> Snapshot] /\ faults \in Nat /\ Rests
      /\ n \notin outlived => Sound(s) /\ Added(s, g.does) /\ g.child /\ at.on = n
      /\ n \notin outlived /\ g.does \in AddWork => s.intent /\ s.hooks /\ at.step = "adding"
  BY AtWork DEF Reached, Opening
<1>1. CASE Register(g)
  <2>1. PICK t \in Snapshot : t = [disk[n] EXCEPT !.reg = "locked"]
    BY <1>0 DEF Snapshot
  <2>2. t.intent = s.intent /\ t.hooks = s.hooks /\ t.dir = s.dir /\ t.reg = "locked"
    BY <1>0, <2>1 DEF Snapshot
  <2>3. g.does = "register" /\ (n \notin outlived => Sound(t))
    BY <1>0, <1>1, <2>2 DEF Register, Sound, AddWork
  <2>4. Touches(n) /\ disk'[n] = t
    BY <1>0, <1>1, <2>1, <2>3, WriteTouches DEF Register
  <2>5. PICK h \in Git : /\ h.on = g.on /\ h.child = g.child /\ h.does = "populate"
                         /\ gits' = (gits \ {g}) \cup {h}
    BY <1>1, GoesIs DEF Register
  <2>6. n \notin outlived => Added(t, "populate") /\ Reached(t, "adding")
    BY <1>0, <2>2, <2>3 DEF Added, Reached, AddWork, Opening
  <2> QED
    BY <1>0, <1>1, <2>3, <2>4, <2>5, <2>6, GitStep DEF Register, GitOnly, GitStays, AddWork
<1>2. CASE Populate(g)
  <2>1. PICK t \in Snapshot : t = [disk[n] EXCEPT !.dir = "part"]
    BY <1>0 DEF Snapshot
  <2>2. t.intent = s.intent /\ t.hooks = s.hooks /\ t.dir = "part" /\ t.reg = s.reg
    BY <1>0, <2>1 DEF Snapshot
  <2>3. g.does = "populate" /\ (n \notin outlived => Sound(t))
    BY <1>0, <1>2, <2>2 DEF Populate, Sound, AddWork
  <2>4. Touches(n) /\ disk'[n] = t
    BY <1>0, <1>2, <2>1, <2>3, WriteTouches DEF Populate
  <2>5. PICK h \in Git : /\ h.on = g.on /\ h.child = g.child /\ h.does = "checkout"
                         /\ gits' = (gits \ {g}) \cup {h}
    BY <1>2, GoesIs DEF Populate
  <2>6. n \notin outlived => Added(t, "checkout") /\ Reached(t, "adding")
    BY <1>0, <2>2, <2>3 DEF Added, Reached, AddWork, Opening
  <2> QED
    BY <1>0, <1>2, <2>3, <2>4, <2>5, <2>6, GitStep DEF Populate, GitOnly, GitStays, AddWork
<1>3. CASE Checkout(g)
  <2>1. PICK t \in Snapshot : t = [disk[n] EXCEPT !.dir = "tree"]
    BY <1>0 DEF Snapshot
  <2>2. t.intent = s.intent /\ t.hooks = s.hooks /\ t.dir = "tree" /\ t.reg = s.reg
    BY <1>0, <2>1 DEF Snapshot
  <2>3. g.does = "checkout" /\ (n \notin outlived => Sound(t))
    BY <1>0, <1>3, <2>2 DEF Checkout, Sound, AddWork
  <2>4. Touches(n) /\ disk'[n] \in {s, t}
    <3>1. CASE Write(n, t)
      BY <1>0, <2>3, <3>1, WriteTouches
    <3>2. CASE UNCHANGED <<disk, maybe>>
      BY <1>0, <3>2, SameTouches
    <3> QED
      BY <1>3, <2>1, <3>1, <3>2 DEF Checkout
  <2>5. PICK h \in Git : /\ h.on = g.on /\ h.child = g.child /\ h.does = "unlock"
                         /\ gits' = (gits \ {g}) \cup {h}
    BY <1>3, GoesIs DEF Checkout
  <2>6. n \notin outlived => Added(disk'[n], "unlock") /\ Reached(disk'[n], "adding")
    BY <1>0, <2>2, <2>3, <2>4 DEF Added, Reached, AddWork, Opening
  <2>7. faults' \in Nat
    BY <1>0, <1>3 DEF Checkout, Fault
  <2> QED
    BY <1>0, <1>3, <2>3, <2>4, <2>5, <2>6, <2>7, GitStep DEF Checkout, GitOnly, GitStays, AddWork
<1>4. CASE Unlock(g)
  <2>1. PICK t \in Snapshot : t = [disk[n] EXCEPT !.reg = "done"]
    BY <1>0 DEF Snapshot
  <2>2. t.intent = s.intent /\ t.hooks = s.hooks /\ t.dir = s.dir /\ t.reg = "done"
    BY <1>0, <2>1 DEF Snapshot
  <2>3. g.does = "unlock" /\ (n \notin outlived => Sound(t))
    BY <1>0, <1>4, <2>2 DEF Unlock, Sound, AddWork, Added
  <2>4. Touches(n) /\ disk'[n] = t
    BY <1>0, <1>4, <2>1, <2>3, WriteTouches DEF Unlock
  <2>5. n \notin outlived => Reached(t, "verify")
    BY <1>0, <2>2, <2>3 DEF Reached, AddWork
  <2>6. g.does \in AddWork /\ "verify" \in {"verify", "list", "remove"} /\ Rests'
    BY <1>0, <1>4, <2>3 DEF AddWork, Unlock, GitOnly, GitStays, Rests
  <2> QED
    BY <1>4, <2>4, <2>5, <2>6, GitEnds DEF Unlock, GitOnly, GitStays, Exits, Step
<1>5. CASE AddFails(g)
  <2>1. PICK t \in Snapshot : t = [disk[n] EXCEPT !.reg = "none", !.dir = "none"]
    BY <1>0 DEF Snapshot
  <2>2. t.intent = s.intent /\ t.reg = "none"
    BY <1>0, <2>1 DEF Snapshot
  <2>3. g.does \in AddWork /\ g.child /\ Sound(t)
    BY <1>5, <2>2 DEF AddFails, Sound, AddWork
  <2>4. Touches(n) /\ disk'[n] = t
    BY <1>0, <1>5, <2>1, <2>3, WriteTouches DEF AddFails
  <2>5. n \notin outlived => Reached(t, "remove")
    BY <1>0, <2>2, <2>3 DEF Reached
  <2>6. "remove" \in {"verify", "list", "remove"} /\ Rests'
    BY <1>0, <1>5 DEF AddFails, Fault, Rests
  <2>7. at' = [step |-> "remove", on |-> g.on] /\ gits' = gits \ {g}
        /\ UNCHANGED <<engine, used, outlived, refused, failed>>
    BY <1>5 DEF AddFails, Step
  <2> QED
    BY <2>3, <2>4, <2>5, <2>6, <2>7, GitEnds
<1> QED
  BY <1>1, <1>2, <1>3, <1>4, <1>5

(* ... and of one that removes it.                                         *)
LEMMA RemovingKeeps ==
  ASSUME SnapInv, NEW g \in gits, RemoveRefused(g) \/ RemoveStarts(g) \/ RemoveTree(g) \/ RemoveFails(g)
                             \/ Forget(g)
  PROVE  SnapInv'
<1> DEFINE n == g.on
           s == disk[g.on]
<1>0. /\ n \in Names /\ s \in Snapshot /\ disk \in [Names -> Snapshot] /\ faults \in Nat /\ Rests
      /\ n \notin outlived => Sound(s) /\ g.child /\ at.on = n
      /\ n \notin outlived /\ g.does \in RemoveWork => s.intent /\ at.step = "removing"
  BY AtWork DEF Reached, AddWork, RemoveWork
<1>1. CASE RemoveRefused(g)
  <2>1. Touches(n) /\ disk' = disk
    BY <1>0, <1>1, SameTouches DEF RemoveRefused
  <2>2. g.does \in RemoveWork /\ (~Removable(n) \/ s.dir = "part")
    BY <1>1 DEF RemoveRefused, RemoveWork
  <2>3. n \notin outlived => Reached(s, "list") /\ Kept(s)
    BY <1>0, <2>2 DEF Reached, Kept, Removable, Sound, Snapshot
  <2>4. "list" \in {"verify", "list", "remove"} /\ Rests'
    BY <1>0, <1>1 DEF RemoveRefused, GitOnly, GitStays, Rests
  <2> QED
    BY <1>1, <2>1, <2>3, <2>4, GitEnds DEF RemoveRefused, GitOnly, GitStays, Exits, Step
<1>2. CASE RemoveStarts(g)
  <2>1. PICK t \in Snapshot : t = [disk[n] EXCEPT !.dir = IF @ = "none" THEN @ ELSE "part"]
    BY <1>0 DEF Snapshot
  <2>2. t.intent = s.intent /\ t.reg = s.reg /\ t.dir \in {"none", "part"}
    BY <1>0, <2>1 DEF Snapshot
  <2>3. g.does \in RemoveWork /\ g.does \notin AddWork /\ (n \notin outlived => Sound(t))
    BY <1>0, <1>2, <2>2 DEF RemoveStarts, Sound, AddWork, RemoveWork
  <2>4. Touches(n) /\ disk'[n] = t
    BY <1>0, <1>2, <2>1, <2>3, WriteTouches DEF RemoveStarts
  <2>5. PICK h \in Git : /\ h.on = g.on /\ h.child = g.child /\ h.does = "clear"
                         /\ gits' = (gits \ {g}) \cup {h}
    BY <1>2, GoesIs DEF RemoveStarts
  <2>6. n \notin outlived => Added(t, "clear") /\ Reached(t, "removing")
    BY <1>0, <2>2, <2>3 DEF Added, Reached
  <2> QED
    BY <1>0, <1>2, <2>3, <2>4, <2>5, <2>6, GitStep DEF RemoveStarts, GitOnly, GitStays, AddWork
<1>3. CASE RemoveTree(g)
  <2>1. PICK t \in Snapshot : t = [disk[n] EXCEPT !.dir = "none"]
    BY <1>0 DEF Snapshot
  <2>2. t.intent = s.intent /\ t.reg = s.reg /\ t.dir = "none"
    BY <1>0, <2>1 DEF Snapshot
  <2>3. g.does \in RemoveWork /\ g.does \notin AddWork /\ (n \notin outlived => Sound(t))
    BY <1>0, <1>3, <2>2 DEF RemoveTree, Sound, AddWork, RemoveWork
  <2>4. Touches(n) /\ disk'[n] \in {s, t}
    <3>1. CASE Write(n, t)
      BY <1>0, <2>3, <3>1, WriteTouches
    <3>2. CASE UNCHANGED <<disk, maybe>>
      BY <1>0, <3>2, SameTouches
    <3> QED
      BY <1>3, <2>1, <3>1, <3>2 DEF RemoveTree
  <2>5. PICK h \in Git : /\ h.on = g.on /\ h.child = g.child /\ h.does = "forget"
                         /\ gits' = (gits \ {g}) \cup {h}
    BY <1>3, GoesIs DEF RemoveTree
  <2>6. n \notin outlived => Added(disk'[n], "forget") /\ Reached(disk'[n], "removing")
    BY <1>0, <2>2, <2>3, <2>4 DEF Added, Reached
  <2>7. faults' \in Nat
    BY <1>0, <1>3 DEF RemoveTree, Fault
  <2> QED
    BY <1>0, <1>3, <2>3, <2>4, <2>5, <2>6, <2>7, GitStep DEF RemoveTree, GitOnly, GitStays, AddWork
<1>4. CASE Forget(g)
  <2>1. PICK t \in Snapshot : t = [disk[n] EXCEPT !.reg = "none"]
    BY <1>0 DEF Snapshot
  <2>2. t.intent = s.intent /\ t.reg = "none"
    BY <1>0, <2>1 DEF Snapshot
  <2>3. g.does \in RemoveWork /\ Sound(t)
    BY <1>4, <2>2 DEF Forget, Sound, RemoveWork
  <2>4. Touches(n) /\ disk'[n] = t
    BY <1>0, <1>4, <2>1, <2>3, WriteTouches DEF Forget
  <2>5. n \notin outlived => Reached(t, "list") /\ Kept(t)
    BY <1>0, <2>2, <2>3 DEF Reached, Kept
  <2>6. "list" \in {"verify", "list", "remove"} /\ Rests'
    BY <1>0, <1>4 DEF Forget, GitOnly, GitStays, Rests
  <2> QED
    BY <1>4, <2>4, <2>5, <2>6, GitEnds DEF Forget, GitOnly, GitStays, Exits, Step
<1>5. CASE RemoveFails(g)
  <2>1. Touches(n) /\ disk' = disk
    BY <1>0, <1>5, SameTouches DEF RemoveFails
  <2>2. g.does \in RemoveWork
    BY <1>5 DEF RemoveFails, RemoveWork
  <2>3. n \notin outlived => Reached(s, "list")
    BY <1>0, <2>2 DEF Reached
  <2>4. "list" \in {"verify", "list", "remove"} /\ Rests'
    BY <1>0, <1>5 DEF RemoveFails, GitStays, Fault, Rests
  <2>5. failed \subseteq failed' /\ (g.child => n \in failed')
    BY <1>5 DEF RemoveFails
  <2> QED
    BY <1>5, <2>1, <2>3, <2>4, <2>5, GitEnds DEF RemoveFails, GitStays, Exits, Step
<1> QED
  BY <1>1, <1>2, <1>3, <1>4, <1>5

-----------------------------------------------------------------------------
(* The reclaim of a resume: one leftover after the other, then to work.    *)
LEMMA ReclaimKeeps ==
  ASSUME SnapInv, Reclaim
  PROVE  SnapInv'
<1>1. ASSUME NEW n \in Names, ReclaimNext(n)
      PROVE  SnapInv'
  <2>1. at.step = "idle" /\ at'.step = "remove" /\ at'.on = n /\ engine = "resuming" /\ disk[n].intent
    BY <1>1 DEF ReclaimNext, Resting, Idle, Step
  <2>2. SnapTypeOK'
    BY <1>1 DEF SnapInv, SnapTypeOK, ReclaimNext, Step
  <2>3. \A g \in gits : ~g.child /\ g.on \in outlived
    BY <2>1 DEF SnapInv, Waited
  <2>4. Disks' /\ Waited'
    BY <1>1, <2>3 DEF SnapInv, Disks, Waited, ReclaimNext
  <2>5. Reached(disk[n], "remove")
    BY <2>1 DEF Reached
  <2>6. Stages'
    BY <1>1, <2>1, <2>3, <2>5 DEF Stages, ReclaimNext
  <2>7. Leftovers'
    BY <1>1, <2>1 DEF SnapInv, Leftovers, Stuck, ReclaimNext
  <2>8. Listed' /\ Named'
    BY <1>1, <2>1 DEF SnapInv, Listed, Named, Opening, ReclaimNext
  <2> QED
    BY <2>2, <2>4, <2>6, <2>7, <2>8 DEF SnapInv
<1>2. CASE ReclaimDone
  <2>1. SnapTypeOK'
    BY <1>2 DEF SnapInv, SnapTypeOK, ReclaimDone, Rest
  <2>2. engine = "resuming" /\ engine' = "working" /\ at = Idle
        /\ UNCHANGED <<disk, maybe, at, gits, used, outlived, refused, failed>>
    BY <1>2 DEF ReclaimDone, Rest, Resting
  <2>3. \A n \in Names : ~disk[n].intent
    BY <1>2 DEF ReclaimDone
  <2>4. Disks' /\ Waited'
    BY <2>2 DEF SnapInv, Disks, Waited
  <2>5. Stages' /\ Listed' /\ Named'
    BY <2>2 DEF SnapInv, Stages, Listed, Named
  <2>6. Leftovers'
    BY <2>2, <2>3 DEF SnapInv, Leftovers, Stuck
  <2> QED
    BY <2>1, <2>4, <2>5, <2>6 DEF SnapInv
<1>3. CASE ReclaimFails
  <2>1. at = Idle /\ at.step = "idle" /\ engine # "down" /\ 1 \in Names
    BY <1>3, SnapshotBounds DEF ReclaimFails, Resting, Idle, Names
  <2>2. Touches(1) /\ disk' = disk
    BY <1>3, <2>1, SameTouches DEF ReclaimFails
  <2>3. refused = {}
    BY <2>1 DEF SnapInv, Leftovers
  <2> QED
    BY <1>3, <2>1, <2>2, <2>3, EngineFails DEF ReclaimFails, Fault, Rest, Rests, SnapInv, SnapTypeOK
<1> QED
  BY <1>1, <1>2, <1>3 DEF Reclaim

(* A resume begins.                                                        *)
LEMMA ResumeKeeps ==
  ASSUME SnapInv, ResumeRun
  PROVE  SnapInv'
<1>1. SnapTypeOK'
  BY DEF SnapInv, SnapTypeOK, ResumeRun
<1>2. engine = "down" /\ engine' = "resuming" /\ refused' = {} /\ at = Idle
      /\ UNCHANGED <<disk, maybe, at, gits, used, outlived, failed>>
  BY DEF SnapInv, Stages, ResumeRun
<1>3. Disks' /\ Waited' /\ Stages' /\ Listed' /\ Leftovers' /\ Named'
  BY <1>2 DEF SnapInv, Disks, Waited, Stages, Listed, Leftovers, Named
<1> QED
  BY <1>1, <1>3 DEF SnapInv

(* Whatever dies, what is left is what there was.                          *)
LEMMA StopKeeps ==
  ASSUME SnapInv, Down, Rests',
         disk' \in maybe, disk' \in maybe', maybe' \subseteq maybe,
         gits' \subseteq Git, outlived' \subseteq Names, outlived \subseteq outlived',
         \A g \in gits' : ~g.child /\ g.on \in outlived',
         refused' = {} \/ (disk' = disk /\ refused' = refused), failed' = failed, used' = used
  PROVE  SnapInv'
<1>1. at' = Idle /\ at'.step = "idle" /\ engine' = "down" /\ at'.on = 1 /\ 1 \in Names
  BY SnapshotBounds DEF Down, Idle, Names
<1>2. SnapTypeOK'
  <2>1. at' \in [step : {"idle"}, on : Names]
    BY <1>1 DEF Idle
  <2> QED
    BY <1>1, <2>1 DEF SnapInv, SnapTypeOK, Rests
<1>3. Disks' /\ Waited'
  BY DEF SnapInv, Disks, Waited
<1>4. Stages'
  BY <1>1 DEF Stages, Reached, Opening
<1>5. Leftovers'
  BY <1>1 DEF SnapInv, Leftovers, Stuck
<1>6. Listed' /\ Named'
  BY <1>1 DEF SnapInv, Listed, Named, Opening
<1> QED
  BY <1>2, <1>3, <1>4, <1>5, <1>6 DEF SnapInv

LEMMA KilledKeeps ==
  ASSUME SnapInv, Killed
  PROVE  SnapInv'
<1>1. Rests' /\ Down /\ UNCHANGED <<disk, maybe, used, refused, failed>> /\ disk \in maybe
  BY DEF SnapInv, SnapTypeOK, Rests, Killed, Disks
<1>2. CASE gits' = {g \in gits : ~g.child} /\ UNCHANGED outlived
  BY <1>1, <1>2, StopKeeps DEF SnapInv, SnapTypeOK, Waited
<1>3. CASE gits' = {Orphaned(g) : g \in gits} /\ outlived' = outlived \cup {g.on : g \in gits}
  <2>1. \A g \in gits : Orphaned(g) \in Git /\ Orphaned(g).on = g.on /\ Orphaned(g).child = FALSE
                        /\ g.on \in Names
    <3>1. ASSUME NEW g \in gits
          PROVE  Orphaned(g) \in Git /\ Orphaned(g).on = g.on /\ Orphaned(g).child = FALSE
                 /\ g.on \in Names
      <4>1. g \in Git
        BY DEF SnapInv, SnapTypeOK
      <4> QED
        BY <4>1 DEF Git, Orphaned
    <3> QED
      BY <3>1
  <2>2. gits' \subseteq Git /\ outlived' \subseteq Names
    BY <1>3, <2>1 DEF SnapInv, SnapTypeOK
  <2>3. \A g \in gits' : ~g.child /\ g.on \in outlived'
    BY <1>3, <2>1
  <2> QED
    BY <1>1, <1>3, <2>2, <2>3, StopKeeps
<1> QED
  BY <1>2, <1>3 DEF Killed

LEMMA PowerKeeps ==
  ASSUME SnapInv, PowerLoss
  PROVE  SnapInv'
<1>1. Rests' /\ Down /\ gits' = {} /\ refused' = {} /\ UNCHANGED <<used, outlived, failed>>
  BY DEF SnapInv, SnapTypeOK, Rests, PowerLoss
<1>2. disk' \in maybe /\ maybe' = {disk'}
  BY DEF PowerLoss
<1>3. gits' \subseteq Git /\ outlived' \subseteq Names /\ (\A g \in gits' : ~g.child /\ g.on \in outlived')
  BY <1>1 DEF SnapInv, SnapTypeOK
<1>4. disk' \in maybe /\ disk' \in maybe' /\ maybe' \subseteq maybe /\ outlived \subseteq outlived'
  BY <1>1, <1>2
<1>5. Rests' /\ Down /\ refused' = {} /\ failed' = failed /\ used' = used
  BY <1>1
<1> QED
  BY <1>3, <1>4, <1>5, StopKeeps

-----------------------------------------------------------------------------
(* What an attempt does with snapshots: it makes one under a name of its   *)
(* own ...                                                                 *)
LEMMA CreateKeeps ==
  ASSUME SnapInv, NEW n \in Names, CreateIntent(n)
  PROVE  SnapInv' /\ n \notin used /\ used' = used \cup {n} /\ at'.step = "sync" /\ at'.on = n
<1>1. PICK k \in 0..MaxSnapshots : used = 1..k
  BY DEF SnapInv, Named
<1>2. n = k + 1
  <2>1. k \in Int /\ 1 \in Int /\ k >= 0
    BY SnapshotBounds
  <2>2. Cardinality(1..k) = k
    BY <2>1, FS_Interval
  <2> QED
    BY <1>1, <2>2 DEF CreateIntent
<1>3. n \notin used /\ used' = 1..k + 1 /\ k + 1 \in 0..MaxSnapshots /\ used' = used \cup {n}
  BY <1>1, <1>2, SnapshotBounds DEF CreateIntent, Names
<1>4. PICK s \in Snapshot : s = [Nothing EXCEPT !.intent = TRUE]
  BY DEF Nothing, Snapshot
<1>5. s.intent /\ s.reg = "none"
  BY <1>4 DEF Nothing
<1>6. Touches(n) /\ disk'[n] = s
  <2>1. Sound(s)
    BY <1>5 DEF Sound
  <2>2. Write(n, s)
    BY <1>4 DEF CreateIntent
  <2> QED
    BY <2>1, <2>2, WriteTouches DEF SnapInv, SnapTypeOK
<1>7. /\ at'.step = "sync" /\ at'.on = n /\ at.step = "idle" /\ engine = "working"
      /\ UNCHANGED <<engine, after, gits, outlived, refused, failed, stops, faults>>
  BY DEF CreateIntent, Step, Resting, Idle
<1>8. SnapTypeOK'
  <2>1. used' \subseteq Names
    BY <1>3 DEF SnapInv, SnapTypeOK
  <2>2. at' \in [step : {"sync"}, on : Names]
    BY DEF CreateIntent, Step
  <2> QED
    BY <1>6, <1>7, <2>1, <2>2, TouchKeepsDisks DEF SnapInv, SnapTypeOK
<1>9. \A g \in gits : ~g.child /\ g.on \in outlived
  BY <1>7 DEF SnapInv, Waited
<1>10. Waited'
  BY <1>7, <1>9 DEF Waited
<1>11. Stages'
  <2>1. Reached(s, "sync")
    BY <1>5 DEF Reached
  <2> QED
    BY <1>6, <1>7, <1>9, <2>1 DEF Stages
<1>12. Leftovers'
  <2>1. ASSUME NEW m \in Names \ (outlived \cup failed), m # n, disk'[m].intent
        PROVE  Stuck(m)'
    <3>1. disk'[m] = disk[m]
      BY <1>6, <2>1 DEF Touches
    <3> QED
      BY <1>7, <2>1, <3>1 DEF SnapInv, Leftovers, Stuck
  <2> QED
    BY <1>7, <2>1 DEF SnapInv, Leftovers
<1>13. Listed' /\ Named'
  BY <1>3, <1>7 DEF Listed, Named
<1> QED
  BY <1>3, <1>6, <1>7, <1>8, <1>10, <1>11, <1>12, <1>13, TouchKeepsDisks DEF SnapInv

(* ... lets gates spoil it ...                                             *)
LEMMA SpoilKeeps ==
  ASSUME SnapInv, NEW n \in Names, Spoil(n)
  PROVE  SnapInv'
<1>1. disk \in [Names -> Snapshot] /\ disk[n] \in Snapshot /\ Rests
  BY DEF SnapInv, SnapTypeOK, Rests
<1>2. at.on = n /\ at.step = "live" /\ (n \notin outlived => Reached(disk[n], "live"))
  BY Here DEF Spoil
<1>3. PICK s \in Snapshot : s = [disk[n] EXCEPT !.dir = "used"]
  BY <1>1 DEF Snapshot
<1>4. s.intent = disk[n].intent /\ s.hooks = disk[n].hooks /\ s.reg = disk[n].reg /\ s.dir = "used"
  BY <1>1, <1>3 DEF Snapshot
<1>5. n \notin outlived => Sound(s)
  BY <1>2, <1>4 DEF Sound, Reached, Opening
<1>6. Touches(n) /\ disk'[n] = s
  BY <1>1, <1>3, <1>5, WriteTouches DEF Spoil
<1>7. n \notin outlived => Reached(s, "live")
  BY <1>2, <1>4 DEF Reached
<1>8. "live" \in Opening \cup Closing /\ at' = [step |-> "live", on |-> n]
  BY DEF Opening, Spoil, At
<1> QED
  BY <1>1, <1>2, <1>6, <1>7, <1>8, EngineStep DEF Spoil, Quiet, Rest, Rests, Opening

(* ... and takes it away.                                                  *)
LEMMA CloseKeeps ==
  ASSUME SnapInv, NEW n \in Names, NEW then \in {"work", "fail"}, Close(n, then)
  PROVE  SnapInv'
<1>1. at.on = n /\ at.step = "live"
  BY Here DEF Close
<1>2. faults \in Nat
  BY DEF SnapInv, SnapTypeOK
<1> QED
  BY <1>1, <1>2, ToRemoval DEF Close

-----------------------------------------------------------------------------
(* The attempt.  Who may be asked to judge, and what becomes of it.        *)
Judges == Implementers \cup {b.primary : b \in Plans} \cup {b.alternative : b \in Plans}
                       \cup {b.second : b \in Plans}

Witness == [healthy : BOOLEAN, gates : Nat, gated : Names \cup {0}, judged : Names \cup {0},
            approved : SUBSET Judges, blind : {FALSE}, billed : Nat]
Call == [invocation : {1, 2}, session : BOOLEAN, clock : 0..PassClock, cost : Nat]
Job == [by : Implementers, plan : Plans, gates : Nat, passes : Seq(Judges)]

ReviewKinds == {"RateLimited", "Timeout", "ReviewUnavailable", "NeedsHuman",
                "ReviewInputOpaque", "ReviewInputTooLarge"}

(* What a failure may be: one of the worker's, or one a review ends in.    *)
Blamed(f) ==
  /\ f \in AttemptFailure \cup {NoFailure}
  /\ f.origin = "Reviewer" => f.kind \in ReviewKinds

AttemptTypes ==
  /\ phase \in {"ready", "agent", "gates", "reviews", "done"}
  /\ phase # "ready" => job \in Job
  /\ call \in Call /\ witness \in Witness /\ Blamed(failure)
  /\ records \in Seq(ReviewRecord)

(* An attempt is under way only while an engine works, and one whose agent *)
(* runs has no snapshot.                                                   *)
Placed ==
  /\ phase # "ready" => engine = "working"
  /\ phase = "agent" => at = Idle
  /\ phase \in {"ready", "agent", "gates"} => records = <<>>
  /\ phase \in {"ready", "agent"} => failure = NoFailure

(* What has been asked of the passes, and what is left of them.            *)
Heard ==
  LET p == PassesFor(job.plan, job.by)
  IN  /\ Len(records) <= Len(p)
      /\ \A i \in 1..Len(records) : records[i].by = p[i]
      /\ failure = NoFailure =>
           /\ Len(records) + Len(job.passes) = Len(p)
           /\ \A i \in 1..Len(job.passes) : job.passes[i] = p[Len(records) + i]
           /\ \A i \in 1..Len(records) : p[i] \in witness.approved
      /\ phase = "reviews" /\ failure # NoFailure => job.passes = <<>>
      /\ phase = "done" /\ failure = NoFailure => job.passes = <<>>

(* What the worker and the gates have done.                                *)
Proven ==
  /\ failure = NoFailure => witness.gates = job.gates
  /\ failure = NoFailure /\ phase \in {"gates", "reviews", "done"} => witness.healthy
  /\ failure = NoFailure /\ phase \in {"reviews", "done"} => job.gates = 0
  /\ failure # NoFailure /\ phase = "gates" => job.gates = 0

(* Where it was done.                                                      *)
Apart ==
  /\ witness.gated \in used \cup {0}
  /\ witness.judged # 0 => phase \in {"reviews", "done"} /\ witness.judged # witness.gated
  /\ phase = "reviews" /\ at.step \in Opening => at.on # witness.gated

(* The bill: the units the records add up to, and what is not in one yet.  *)
Units == UNION {{i} \X (1..records[i].cost) : i \in DOMAIN records}
Billed ==
  /\ IsFiniteSet(Units)
  /\ witness.billed = call.cost + Cardinality(Units)

AttemptInv ==
  /\ AttemptTypes /\ Placed /\ Apart /\ Billed /\ BlameIsRight
  /\ phase # "ready" => Heard /\ Proven

IInv == SnapInv /\ AttemptInv

-----------------------------------------------------------------------------
(* The passes of a plan: no judge twice, and the author is one only where  *)
(* there is no other or another looks as well.                             *)
LEMMA PassesAre ==
  ASSUME NEW plan \in Plans, NEW by \in Implementers
  PROVE  LET p == PassesFor(plan, by)
         IN  /\ p \in Seq(Judges) /\ Len(p) \in 0..2
             /\ \A i \in 1..Len(p) : /\ p[i].agent \in Adapter
                                     /\ p[i] = by => plan.alternative = NoBinding
                                                     \/ plan.second # NoBinding
                                     /\ \A j \in 1..Len(p) : p[i] = p[j] => i = j
<1> DEFINE p == PassesFor(plan, by)
           first == IF plan.alternative # NoBinding /\ plan.primary = by
                    THEN plan.alternative ELSE plan.primary
<1>0. /\ plan.primary \in Judges /\ plan.alternative \in Judges /\ plan.second \in Judges
      /\ \A b \in {plan.primary, plan.alternative, plan.second} : b = NoBinding \/ b.agent \in Adapter
      /\ plan.alternative # NoBinding => plan.alternative # plan.primary
      /\ plan.second # NoBinding => plan.second # plan.primary
  BY OtherFamilies DEF Judges
<1>1. CASE plan.primary = NoBinding
  <2>1. p = <<>>
    BY <1>1 DEF PassesFor
  <2> QED
    BY <2>1, EmptySeq
<1>2. CASE plan.primary # NoBinding /\ plan.second # NoBinding
  <2>1. p = <<plan.primary, plan.second>>
    BY <1>2 DEF PassesFor
  <2> QED
    BY <1>0, <1>2, <2>1
<1>3. CASE plan.primary # NoBinding /\ plan.second = NoBinding
  <2>1. p = <<first>> /\ first \in Judges
    BY <1>0, <1>3 DEF PassesFor
  <2>2. first.agent \in Adapter /\ (first = by => plan.alternative = NoBinding)
    BY <1>0, <1>3
  <2> QED
    BY <2>1, <2>2
<1> QED
  BY <1>1, <1>2, <1>3

(* A run is healthy exactly when its outcome is a completed one.           *)
LEMMA RunsAre ==
  ASSUME NEW a \in Adapter, NEW run \in Runs[a]
  PROVE  /\ run.healthy \in BOOLEAN /\ run.outcome.status \in OutcomeStatus
         /\ run.healthy <=> run.outcome.status = "Completed"
         /\ run.outcome.priced \in BOOLEAN /\ run.outcome.session \in BOOLEAN
<1>1. PICK p \in Process : run = [healthy |-> ~p.limited /\ ~p.timed_out /\ ~Failed(a, p),
                                  late |-> p.timed_out, outcome |-> ParseOutput(a, p)]
  BY DEF Runs
<1>2. /\ p.limited \in BOOLEAN /\ p.timed_out \in BOOLEAN /\ p.session \in BOOLEAN
      /\ Failed(a, p) \in BOOLEAN /\ p.zero \in BOOLEAN
  BY DEF Process, Failed
<1>3. Carries(a, p) \in BOOLEAN
  BY DEF Carries
<1> DEFINE session == Carries(a, p) /\ p.session
           priced == a = "claude-code" /\ p.body # "none"
<1>4. \E status, detail :
        /\ status \in OutcomeStatus
        /\ ParseOutput(a, p) = Returned(status, detail, session, priced)
        /\ status = "Completed" <=> ~p.limited /\ ~p.timed_out /\ ~Failed(a, p)
  BY <1>2 DEF ParseOutput, OutcomeStatus
<1>5. PICK status, detail :
        /\ status \in OutcomeStatus
        /\ ParseOutput(a, p) = Returned(status, detail, session, priced)
        /\ status = "Completed" <=> ~p.limited /\ ~p.timed_out /\ ~Failed(a, p)
  BY <1>4
<1>6. run.outcome.status = status /\ run.outcome.priced = priced /\ run.outcome.session = session
      /\ run.healthy = (~p.limited /\ ~p.timed_out /\ ~Failed(a, p))
  BY <1>1, <1>5 DEF Returned
<1> QED
  BY <1>2, <1>3, <1>5, <1>6

(* What a worker's outcome is held to be.                                  *)
LEMMA OutcomeIs ==
  ASSUME NEW outcome, NEW edits, outcome.status \in OutcomeStatus
  PROVE  LET f == EvaluateOutcome(outcome, edits)
         IN  /\ f \in AttemptFailure \cup {NoFailure} /\ f.origin # "Reviewer"
             /\ f = NoFailure => outcome.status = "Completed"
             /\ f.kind \in OutcomeStatus => outcome.status # "Completed"
             /\ f.kind = "NeedsHuman" => outcome.status = "Completed"
BY DEF EvaluateOutcome, By, NoFailure, OutcomeStatus, AttemptFailure, FailureKind, FailureOrigin

(* The first failure of four.                                              *)
LEMMA FirstOfFour ==
  ASSUME NEW a, NEW b, NEW c, NEW d
  PROVE  LET f == FirstOf(<<a, b, c, d>>)
         IN  /\ f \in {NoFailure, a, b, c, d}
             /\ f = NoFailure => a = NoFailure
<1> DEFINE s == <<a, b, c, d>>
           failing == {i \in DOMAIN s : s[i] # NoFailure}
<1>1. DOMAIN s = {1, 2, 3, 4} /\ s[1] = a /\ s[2] = b /\ s[3] = c /\ s[4] = d
  OBVIOUS
<1>2. CASE failing = {}
  BY <1>1, <1>2 DEF FirstOf
<1>3. CASE failing # {}
  <2>1. \E i \in failing : \A j \in failing : i <= j
    BY <1>1, <1>3
  <2>2. PICK i \in failing : FirstOf(s) = s[i]
    BY <1>3, <2>1 DEF FirstOf
  <2> QED
    BY <1>1, <2>2
<1> QED
  BY <1>2, <1>3

(* One record more is its cost more.                                       *)
LEMMA BillGrows ==
  ASSUME records \in Seq(ReviewRecord), IsFiniteSet(Units),
         NEW r \in ReviewRecord, records' = Append(records, r)
  PROVE  IsFiniteSet(Units)' /\ Cardinality(Units') = Cardinality(Units) + r.cost
<1>1. PICK n \in Nat : n = Len(records) /\ DOMAIN records = 1..n
  BY LenProperties
<1>2. /\ DOMAIN records' = 1..n + 1 /\ records'[n + 1] = r
      /\ \A i \in 1..n : records'[i] = records[i]
  BY <1>1, AppendProperties, LenProperties
<1>3. r.cost \in Nat
  BY DEF ReviewRecord
<1> DEFINE more == {n + 1} \X (1..r.cost)
<1>4. Units' = Units \cup more
  <2>1. \A u : u \in Units' <=> \E i \in 1..n + 1 : u \in {i} \X (1..records'[i].cost)
    BY <1>2 DEF Units
  <2>2. \A u : u \in Units <=> \E i \in 1..n : u \in {i} \X (1..records[i].cost)
    BY <1>1 DEF Units
  <2>3. 1..n + 1 = (1..n) \cup {n + 1}
    BY <1>1
  <2>4. \A u : u \in Units' <=> u \in Units \/ u \in more
    BY <1>2, <2>1, <2>2, <2>3
  <2> QED
    BY <2>4
<1>5. Units \cap more = {}
  BY <1>1 DEF Units
<1>6. IsFiniteSet(1..r.cost) /\ Cardinality(1..r.cost) = r.cost
  <2>1. PICK c \in Nat : c = r.cost
    BY <1>3
  <2>2. IsFiniteSet(1..c) /\ Cardinality(1..c) = c
    BY FS_Interval
  <2> QED
    BY <2>1, <2>2
<1>7. IsFiniteSet({n + 1}) /\ Cardinality({n + 1}) = 1
  BY FS_Singleton
<1>8. IsFiniteSet(more) /\ Cardinality(more) = r.cost
  <2>1. IsFiniteSet(more) /\ Cardinality(more) = Cardinality({n + 1}) * Cardinality(1..r.cost)
    BY <1>6, <1>7, FS_Product
  <2> QED
    BY <1>3, <1>6, <1>7, <2>1
<1>9. IsFiniteSet({}) /\ Cardinality({}) = 0
  BY FS_EmptySet
<1>10. IsFiniteSet(Units \cup more)
       /\ Cardinality(Units \cup more) = Cardinality(Units) + Cardinality(more) - Cardinality({})
  BY <1>5, <1>8, FS_Union
<1>11. Cardinality(Units) \in Nat
  BY FS_CardinalityType
<1> QED
  BY <1>3, <1>4, <1>8, <1>9, <1>10, <1>11

-----------------------------------------------------------------------------
(* What the engine forgets it forgets whole.                               *)
LEMMA LostKeeps ==
  ASSUME Lost, SnapInv'
  PROVE  IInv'
<1>1. /\ phase' = "ready" /\ failure' = NoFailure /\ records' = <<>>
      /\ call' = NewCall /\ witness' = Unseen
  BY DEF Lost
<1>2. records' \in Seq(ReviewRecord) /\ Len(records') = 0 /\ DOMAIN records' = {}
  BY <1>1, EmptySeq
<1>3. AttemptTypes'
  BY <1>1, <1>2, PipelineBounds
     DEF AttemptTypes, NewCall, Call, Unseen, Witness, Blamed, NoFailure
<1>4. Placed' /\ Apart'
  BY <1>1 DEF Placed, Apart, Unseen
<1>5. Units' = {}
  BY <1>2 DEF Units
<1>6. Billed'
  BY <1>1, <1>5, FS_EmptySet DEF Billed, Unseen, NewCall
<1>7. BlameIsRight'
  BY <1>1, <1>2 DEF BlameIsRight, NoFailure, OutcomeStatus, By
<1> QED
  BY <1>1, <1>3, <1>4, <1>6, <1>7 DEF IInv, AttemptInv

(* What happens to the snapshots leaves the attempt as it is, as long as   *)
(* its engine works: no snapshot is opened but the one that was.           *)
LEMMA FrameKeeps ==
  ASSUME IInv, SnapInv', UNCHANGED attemptVars,
         engine = "working" => engine' = "working",
         used \subseteq used',
         phase = "agent" => at' = at,
         at'.step \in Opening => (at.step \in Opening /\ at'.on = at.on) \/ at'.on \notin used
  PROVE  IInv'
<1>1. UNCHANGED <<phase, job, call, failure, records, witness>>
  BY DEF attemptVars
<1>2. AttemptTypes'
  BY <1>1 DEF IInv, AttemptInv, AttemptTypes
<1>3. Placed'
  BY <1>1 DEF IInv, AttemptInv, Placed
<1>4. Apart'
  <2>1. witness.gated # 0 => witness.gated \in used
    BY DEF IInv, AttemptInv, Apart
  <2>2. phase' = "reviews" /\ at'.step \in Opening => at'.on # witness.gated
    <3>1. CASE at.step \in Opening /\ at'.on = at.on
      BY <1>1, <3>1 DEF IInv, AttemptInv, Apart
    <3>2. CASE at'.step \in Opening /\ at'.on \notin used
      <4>1. at'.on \in Names
        BY DEF SnapInv, SnapTypeOK
      <4>2. at'.on # 0
        BY <4>1, SnapshotBounds DEF Names
      <4> QED
        BY <1>1, <2>1, <3>2, <4>2
    <3> QED
      BY <3>1, <3>2
  <2> QED
    BY <1>1, <2>2 DEF IInv, AttemptInv, Apart
<1>5. Billed'
  BY <1>1 DEF IInv, AttemptInv, Billed, Units
<1>6. BlameIsRight'
  BY <1>1 DEF IInv, AttemptInv, BlameIsRight
<1>7. phase' # "ready" => Heard' /\ Proven'
  BY <1>1 DEF IInv, AttemptInv, Heard, Proven
<1> QED
  BY <1>2, <1>3, <1>4, <1>5, <1>6, <1>7 DEF IInv, AttemptInv

(* What moves the engine on, beneath an attempt.                           *)
Moves ==
  /\ used' = used
  /\ engine = "working" => engine' \in {"working", "down"}
  /\ engine = "working" /\ at = Idle => at' = Idle
  /\ at'.step \in Opening => at.step \in Opening /\ at'.on = at.on

LEMMA BeneathMoves ==
  ASSUME SnapInv, SnapSteps \/ ResumeRun \/ Killed \/ PowerLoss \/ \E n \in Names : Spoil(n)
  PROVE  SnapInv' /\ Moves
<1>1. ASSUME NEW n \in Names, OpenSteps(n)
      PROVE  SnapInv' /\ Moves
  <2>1. SnapInv'
    BY <1>1, OpeningKeeps
  <2>2. at.on = n /\ at.step \in Opening /\ at # Idle
    BY <1>1 DEF OpenSteps, SyncIntent, SyncIntentFails, MakePath, MakeHooks, MakeFails, AddWorktree, Open,
                Verified, VerifyRefuses, At, Opening, Idle
  <2>3. /\ used' = used /\ engine' \in {engine, "down"}
        /\ at' = Idle \/ \E step \in {"mkdir", "mkhooks", "add", "adding", "live", "remove"} : Step(step, n)
    BY <1>1 DEF OpenSteps, SyncIntent, SyncIntentFails, MakePath, MakeHooks, MakeFails, AddWorktree, Open,
                VerifyRefuses, Quiet, Rest, Down
  <2> QED
    BY <2>1, <2>2, <2>3 DEF Moves, Step, Opening, Idle
<1>2. ASSUME NEW n \in Names, CloseSteps(n)
      PROVE  SnapInv' /\ Moves
  <2>1. SnapInv'
    BY <1>2, ClosingKeeps
  <2>2. at # Idle
    BY <1>2 DEF CloseSteps, RemoveWorktree, CleanupFails, StillRegistered, Confirm, Unregistered, DeleteDirs,
                UnlinkIntent, SyncUnlink, At, Idle
  <2>3. /\ used' = used /\ engine' \in {engine, "down"}
        /\ at' = Idle \/ \E step \in {"removing", "delete", "unlink", "unsync"} : Step(step, n)
    BY <1>2 DEF CloseSteps, RemoveWorktree, CleanupFails, StillRegistered, GiveUp, Confirm, DeleteDirs,
                UnlinkIntent, SyncUnlink, Quiet, Rest, Down
  <2> QED
    BY <2>1, <2>2, <2>3 DEF Moves, Step, Opening, Idle
<1>3. ASSUME NEW g \in gits,
             Register(g) \/ Populate(g) \/ Checkout(g) \/ Unlock(g) \/ AddFails(g)
      PROVE  SnapInv' /\ Moves
  <2>1. SnapInv'
    BY <1>3, AddingKeeps
  <2>2. g.child => at.on = g.on /\ at # Idle /\ (g.does \in AddWork => at.step = "adding")
    BY DEF SnapInv, Waited, Idle
  <2>3. /\ used' = used /\ engine' = engine /\ g.does \in AddWork
        /\ at' = at \/ (g.child /\ \E step \in {"verify", "remove"} : Step(step, g.on))
    BY <1>3 DEF Register, Populate, Checkout, Unlock, AddFails, GitOnly, GitStays, Exits, AddWork
  <2> QED
    BY <2>1, <2>2, <2>3 DEF Moves, Step, Opening
<1>4. ASSUME NEW g \in gits,
             RemoveRefused(g) \/ RemoveStarts(g) \/ RemoveTree(g) \/ RemoveFails(g) \/ Forget(g)
      PROVE  SnapInv' /\ Moves
  <2>1. SnapInv'
    BY <1>4, RemovingKeeps
  <2>2. g.child => at # Idle
    BY DEF SnapInv, Waited, Idle
  <2>3. /\ used' = used /\ engine' = engine
        /\ at' = at \/ (g.child /\ Step("list", g.on))
    BY <1>4 DEF RemoveRefused, RemoveStarts, RemoveTree, RemoveFails, Forget, GitOnly, GitStays, Exits
  <2> QED
    BY <2>1, <2>2, <2>3 DEF Moves, Step, Opening
<1>5. CASE Reclaim
  <2>1. SnapInv'
    BY <1>5, ReclaimKeeps
  <2>2. /\ used' = used /\ engine = "resuming"
        /\ at' \in {at, Idle} \/ \E n \in Names : Step("remove", n)
    BY <1>5 DEF Reclaim, ReclaimNext, ReclaimDone, ReclaimFails, Down, Rest
  <2> QED
    BY <2>1, <2>2 DEF Moves, Step, Opening, Idle
<1>6. CASE ResumeRun
  <2>1. SnapInv'
    BY <1>6, ResumeKeeps
  <2>2. used' = used /\ engine = "down" /\ at' = at
    BY <1>6 DEF ResumeRun
  <2> QED
    BY <2>1, <2>2 DEF Moves
<1>7. CASE Killed \/ PowerLoss
  <2>1. SnapInv'
    BY <1>7, KilledKeeps, PowerKeeps
  <2>2. used' = used /\ engine' = "down" /\ at' = Idle
    BY <1>7 DEF Killed, PowerLoss, Down
  <2> QED
    BY <2>1, <2>2 DEF Moves, Opening, Idle
<1>8. ASSUME NEW n \in Names, Spoil(n)
      PROVE  SnapInv' /\ Moves
  <2>1. SnapInv'
    BY <1>8, SpoilKeeps
  <2>2. used' = used /\ engine' = engine /\ at' = at
    BY <1>8 DEF Spoil, Quiet, Rest
  <2> QED
    BY <2>1, <2>2 DEF Moves
<1> QED
  BY <1>1, <1>2, <1>3, <1>4, <1>5, <1>6, <1>7, <1>8 DEF SnapSteps, GitSteps

LEMMA BeneathKeeps ==
  ASSUME IInv, Beneath
  PROVE  IInv'
<1>1. SnapInv' /\ Moves
  BY BeneathMoves DEF IInv, Beneath
<1>2. CASE engine' = "down"
  BY <1>1, <1>2, LostKeeps DEF Beneath
<1>3. CASE engine' # "down"
  <2>1. phase = "agent" => engine = "working" /\ at = Idle
    BY DEF IInv, AttemptInv, Placed
  <2>2. phase = "agent" => at' = at
    BY <1>1, <2>1 DEF Moves
  <2>3. (engine = "working" => engine' = "working") /\ UNCHANGED attemptVars
    BY <1>1, <1>3 DEF Moves, Beneath
  <2> QED
    BY <1>1, <2>2, <2>3, FrameKeeps DEF Moves
<1> QED
  BY <1>2, <1>3

-----------------------------------------------------------------------------
(* What is known of an attempt under way.                                  *)
LEMMA UnderWay ==
  ASSUME IInv, phase # "ready"
  PROVE  /\ SnapInv /\ AttemptTypes /\ Placed /\ Apart /\ Billed /\ BlameIsRight /\ Heard /\ Proven
         /\ job \in Job /\ call \in Call /\ witness \in Witness /\ records \in Seq(ReviewRecord)
         /\ Len(records) \in Nat /\ DOMAIN records = 1..Len(records)
         /\ job.passes \in Seq(Judges) /\ Len(job.passes) \in Nat
         /\ engine = "working" /\ engine # "down"
<1>1. SnapInv /\ AttemptTypes /\ Placed /\ Apart /\ Billed /\ BlameIsRight /\ Heard /\ Proven
  BY DEF IInv, AttemptInv
<1>2. job \in Job /\ call \in Call /\ witness \in Witness /\ records \in Seq(ReviewRecord)
  BY <1>1 DEF AttemptTypes
<1>3. job.passes \in Seq(Judges)
  BY <1>2 DEF Job
<1>4. engine = "working" /\ engine # "down"
  BY <1>1 DEF Placed
<1> QED
  BY <1>1, <1>2, <1>3, <1>4, LenProperties

LEMMA SnapSame ==
  ASSUME SnapInv, UNCHANGED snapVars
  PROVE  SnapInv'
BY DEF snapVars, SnapInv, SnapTypeOK, Disks, Waited, Stages, Listed, Leftovers, Named, Stuck

(* An attempt starts.                                                      *)
LEMMA StartKeeps ==
  ASSUME IInv, NEW plan \in Plans, NEW by \in Implementers, NEW gates \in GateCounts,
         StartAttempt(plan, by, gates)
  PROVE  IInv'
<1>1. SnapInv' /\ engine' = "working" /\ at' = Idle /\ UNCHANGED <<used>>
  BY SnapSame DEF StartAttempt, IInv, Resting, snapVars
<1>2. /\ phase' = "agent" /\ call' = NewCall /\ failure' = NoFailure /\ records' = <<>>
      /\ witness' = [Unseen EXCEPT !.gates = gates]
      /\ job' = [by |-> by, plan |-> plan, gates |-> gates, passes |-> PassesFor(plan, by)]
  BY DEF StartAttempt
<1>3. PassesFor(plan, by) \in Seq(Judges) /\ Len(PassesFor(plan, by)) \in Nat
  BY PassesAre
<1>4. job' \in Job /\ job'.by = by /\ job'.plan = plan /\ job'.passes = PassesFor(plan, by)
      /\ job'.gates = gates
  BY <1>2, <1>3, PipelineBounds DEF Job
<1>5. /\ witness' \in Witness /\ witness'.gates = gates /\ witness'.gated = 0 /\ witness'.judged = 0
      /\ witness'.billed = 0
  <2>1. witness' = [healthy |-> FALSE, gates |-> gates, gated |-> 0, judged |-> 0,
                    approved |-> {}, blind |-> FALSE, billed |-> 0]
    BY <1>2 DEF Unseen
  <2>2. gates \in Nat /\ 0 \in Names \cup {0} /\ {} \in SUBSET Judges
    BY PipelineBounds
  <2> QED
    BY <2>1, <2>2 DEF Witness
<1>6. records' \in Seq(ReviewRecord) /\ Len(records') = 0 /\ DOMAIN records' = {}
  BY <1>2, EmptySeq
<1>7. AttemptTypes'
  BY <1>2, <1>4, <1>5, <1>6, PipelineBounds DEF AttemptTypes, NewCall, Call, Blamed, NoFailure
<1>8. Placed' /\ Apart'
  BY <1>1, <1>2, <1>5 DEF Placed, Apart
<1>9. Units' = {}
  BY <1>6 DEF Units
<1>10. Billed'
  BY <1>2, <1>5, <1>9, FS_EmptySet DEF Billed, NewCall
<1>11. BlameIsRight'
  BY <1>2, <1>6 DEF BlameIsRight, NoFailure, OutcomeStatus, By
<1>12. Heard'
  BY <1>2, <1>3, <1>4, <1>6 DEF Heard
<1>13. Proven'
  BY <1>2, <1>4, <1>5 DEF Proven
<1> QED
  BY <1>1, <1>7, <1>8, <1>10, <1>11, <1>12, <1>13 DEF IInv, AttemptInv

(* The agent comes back.                                                   *)
LEMMA AgentKeeps ==
  ASSUME IInv, phase = "agent", NEW run \in Runs[job.by.agent], NEW edits \in Edits,
         NEW proven \in BOOLEAN, NEW hidden \in BOOLEAN, AgentRuns(run, edits, proven, hidden)
  PROVE  IInv'
<1>0. /\ SnapInv /\ AttemptTypes /\ Placed /\ Apart /\ Billed /\ BlameIsRight /\ Heard /\ Proven
      /\ job \in Job /\ call \in Call /\ witness \in Witness /\ records \in Seq(ReviewRecord)
      /\ engine = "working"
  BY UnderWay
<1>1. SnapInv' /\ UNCHANGED <<engine, at, used, job, call, records>>
  BY <1>0, SnapSame DEF AgentRuns, snapVars
<1>2. at = Idle /\ records = <<>> /\ failure = NoFailure /\ at.step = "idle"
  BY <1>0 DEF Placed, Idle
<1>3. job.by.agent \in Adapter
  BY <1>0, OtherFamilies DEF Job
<1>4. run.healthy \in BOOLEAN /\ run.outcome.status \in OutcomeStatus
      /\ (run.healthy <=> run.outcome.status = "Completed")
  BY <1>3, RunsAre
<1> DEFINE worker == EvaluateOutcome(run.outcome, edits)
           large == StaticProblem(edits, job.passes # <<>>)
           tests == IF proven THEN NoFailure ELSE By("TestProvenance", "Worker")
           shown == IF hidden THEN By("ReviewInputOpaque", "Reviewer") ELSE NoFailure
<1>5. /\ failure' = FirstOf(<<worker, large, tests, shown>>)
      /\ phase' = NextPhase(failure', job.gates, job.passes)
      /\ witness' = [witness EXCEPT !.healthy = run.healthy]
  BY DEF AgentRuns
<1>6. /\ worker \in AttemptFailure \cup {NoFailure} /\ worker.origin # "Reviewer"
      /\ worker = NoFailure => run.healthy
      /\ worker.kind \in OutcomeStatus => ~run.healthy
      /\ worker.kind = "NeedsHuman" => run.healthy
  BY <1>4, OutcomeIs
<1>7. /\ large \in {NoFailure, By("ReviewInputOpaque", "Reviewer"), By("ReviewInputTooLarge", "Reviewer")}
      /\ tests \in {NoFailure, By("TestProvenance", "Worker")}
      /\ shown \in {NoFailure, By("ReviewInputOpaque", "Reviewer")}
  BY DEF StaticProblem
<1>8. /\ failure' \in {NoFailure, worker, large, tests, shown}
      /\ failure' = NoFailure => worker = NoFailure
  <2> HIDE DEF worker, large, tests, shown
  <2> QED
    BY <1>5, FirstOfFour
<1>9. failure' = worker \/ failure' \in {NoFailure, By("ReviewInputOpaque", "Reviewer"),
                                         By("ReviewInputTooLarge", "Reviewer"), By("TestProvenance", "Worker")}
  BY <1>7, <1>8
<1>10. /\ Blamed(failure')
       /\ failure'.kind \in OutcomeStatus => failure' = worker
       /\ failure'.kind = "NeedsHuman" => failure' = worker
       /\ failure'.origin = "Reviewer" => ~IsOutage(failure')
  <2> HIDE DEF worker
  <2>1. CASE failure' = worker
    BY <1>6, <2>1 DEF Blamed
  <2>2. CASE failure' \in {NoFailure, By("ReviewInputOpaque", "Reviewer"),
                           By("ReviewInputTooLarge", "Reviewer"), By("TestProvenance", "Worker")}
    BY <2>2 DEF Blamed, By, NoFailure, AttemptFailure, FailureKind, FailureOrigin, ReviewKinds,
                OutcomeStatus, IsOutage
  <2> QED
    BY <1>9, <2>1, <2>2
<1>11. /\ witness' \in Witness /\ witness'.healthy = run.healthy
       /\ witness'.gates = witness.gates /\ witness'.gated = witness.gated
       /\ witness'.judged = witness.judged /\ witness'.billed = witness.billed
       /\ witness'.approved = witness.approved
  BY <1>0, <1>4, <1>5 DEF Witness
<1>12. /\ phase' \in {"gates", "reviews", "done"}
       /\ phase' \in {"gates", "reviews"} => failure' = NoFailure
       /\ phase' = "reviews" => job.gates = 0
       /\ phase' = "done" /\ failure' = NoFailure => job.gates = 0 /\ job.passes = <<>>
  BY <1>0, <1>5 DEF NextPhase, Job
<1>13. AttemptTypes'
  BY <1>0, <1>1, <1>10, <1>11, <1>12 DEF AttemptTypes
<1>14. Placed'
  BY <1>0, <1>1, <1>2, <1>12 DEF Placed
<1>15. Apart'
  BY <1>0, <1>1, <1>2, <1>11 DEF Apart, Opening
<1>16. Billed'
  BY <1>0, <1>1, <1>11 DEF Billed, Units
<1>17. BlameIsRight'
  <2>1. DOMAIN records' = {}
    BY <1>1, <1>2
  <2> QED
    BY <1>6, <1>10, <1>11, <2>1 DEF BlameIsRight, By
<1>18. Heard'
  BY <1>0, <1>1, <1>2, <1>11, <1>12 DEF Heard
<1>19. Proven'
  BY <1>0, <1>1, <1>2, <1>6, <1>8, <1>11, <1>12 DEF Proven
<1> QED
  BY <1>1, <1>13, <1>14, <1>15, <1>16, <1>17, <1>18, <1>19 DEF IInv, AttemptInv

(* An operation of the engine's own fails while the agent runs.            *)
LEMMA ErrorKeeps ==
  ASSUME IInv, AttemptErrs
  PROVE  IInv'
<1>1. SnapInv /\ at = Idle /\ engine = "working" /\ at.step = "idle" /\ 1 \in Names
  BY SnapshotBounds DEF AttemptErrs, IInv, AttemptInv, Placed, Idle, Names
<1>2. Touches(1)
  BY <1>1, SameTouches DEF AttemptErrs
<1>3. refused = {} /\ refused' = refused /\ failed' = failed /\ Rests'
  BY <1>1 DEF AttemptErrs, SnapInv, Leftovers, SnapTypeOK, Rests, Rest, Fault
<1>4. Down /\ UNCHANGED <<gits, used, outlived>>
  BY DEF AttemptErrs, Rest
<1>5. SnapInv'
  BY <1>1, <1>2, <1>3, <1>4, EngineFails
<1> QED
  BY <1>5, LostKeeps DEF AttemptErrs

(* A snapshot is opened, under a name nobody has had.                      *)
LEMMA OpenKeeps ==
  ASSUME IInv, NEW n \in Names, OpenSnapshot(n)
  PROVE  IInv'
<1>1. SnapInv' /\ n \notin used /\ used' = used \cup {n} /\ at'.step = "sync" /\ at'.on = n
  BY CreateKeeps DEF IInv, OpenSnapshot
<1>2. UNCHANGED attemptVars /\ engine' = engine /\ phase # "agent"
  BY DEF OpenSnapshot, CreateIntent
<1> QED
  BY <1>1, <1>2, FrameKeeps

(* One gate more has passed.                                               *)
LEMMA GateKeeps ==
  ASSUME IInv, NEW n \in Names, GatePasses(n)
  PROVE  IInv'
<1>0. /\ SnapInv /\ AttemptTypes /\ Placed /\ Apart /\ Billed /\ BlameIsRight /\ Heard /\ Proven
      /\ job \in Job /\ witness \in Witness
  BY UnderWay DEF GatePasses
<1>1. SnapInv' /\ UNCHANGED <<engine, at, used, phase, call, failure, records>>
  BY <1>0, SnapSame DEF GatePasses, snapVars
<1>2. phase = "gates" /\ at.on = n /\ at.step = "live" /\ n \in used
  BY <1>0 DEF GatePasses, At, SnapInv, Named, Opening
<1>3. failure = NoFailure /\ job.gates > 0 /\ witness.gates = job.gates /\ job.gates \in Nat
  BY <1>0, <1>2 DEF GatePasses, Proven, Job
<1>4. PICK k \in Nat : k = job.gates - 1
  BY <1>3
<1>5. /\ job' \in Job /\ job'.gates = k /\ job'.by = job.by /\ job'.plan = job.plan
      /\ job'.passes = job.passes
  <2>1. job' = [job EXCEPT !.gates = k]
    BY <1>4 DEF GatePasses
  <2> QED
    BY <1>0, <2>1 DEF Job
<1>6. /\ witness' \in Witness /\ witness'.gates = k /\ witness'.gated = n
      /\ witness'.healthy = witness.healthy /\ witness'.judged = witness.judged
      /\ witness'.billed = witness.billed /\ witness'.approved = witness.approved
  <2>1. witness' = [witness EXCEPT !.gates = k, !.gated = n]
    BY <1>3, <1>4 DEF GatePasses
  <2> QED
    BY <1>0, <2>1 DEF Witness
<1>7. AttemptTypes'
  BY <1>0, <1>1, <1>5, <1>6 DEF AttemptTypes
<1>8. Placed' /\ Apart'
  BY <1>0, <1>1, <1>2, <1>6 DEF Placed, Apart
<1>9. Billed' /\ BlameIsRight'
  BY <1>0, <1>1, <1>6 DEF Billed, Units, BlameIsRight
<1>10. Heard'
  BY <1>0, <1>1, <1>5, <1>6 DEF Heard
<1>11. Proven'
  <2>1. /\ phase' = "gates" /\ failure' = NoFailure /\ witness'.gates = job'.gates
        /\ witness'.healthy
    BY <1>0, <1>1, <1>2, <1>3, <1>5, <1>6 DEF Proven
  <2> QED
    BY <2>1 DEF Proven
<1> QED
  BY <1>1, <1>7, <1>8, <1>9, <1>10, <1>11 DEF IInv, AttemptInv

(* A gate says no.                                                         *)
LEMMA GateFailsKeeps ==
  ASSUME IInv, NEW n \in Names, GateFails(n)
  PROVE  IInv'
<1>0. /\ SnapInv /\ AttemptTypes /\ Placed /\ Apart /\ Billed /\ BlameIsRight /\ Heard /\ Proven
      /\ job \in Job
  BY UnderWay DEF GateFails
<1>1. SnapInv' /\ UNCHANGED <<engine, at, used, phase, call, records, witness>> /\ phase = "gates"
  BY <1>0, SnapSame DEF GateFails, snapVars
<1>2. /\ job' \in Job /\ job'.gates = 0 /\ job'.by = job.by /\ job'.plan = job.plan
  BY <1>0 DEF GateFails, Job
<1>3. failure' = By("GateFailed", "Worker") /\ failure' # NoFailure
  BY DEF GateFails, By, NoFailure
<1>4. records = <<>> /\ DOMAIN records = {}
  BY <1>0, <1>1 DEF Placed
<1>5. AttemptTypes'
  BY <1>0, <1>1, <1>2, <1>3
     DEF AttemptTypes, Blamed, By, AttemptFailure, FailureKind, FailureOrigin
<1>6. Placed' /\ Apart'
  BY <1>0, <1>1 DEF Placed, Apart
<1>7. Billed'
  BY <1>0, <1>1 DEF Billed, Units
<1>8. BlameIsRight'
  BY <1>1, <1>3, <1>4 DEF BlameIsRight, By, OutcomeStatus
<1>9. Heard' /\ Proven'
  BY <1>0, <1>1, <1>2, <1>3 DEF Heard, Proven
<1> QED
  BY <1>1, <1>5, <1>6, <1>7, <1>8, <1>9 DEF IInv, AttemptInv

(* A gate does not run: the attempt is dropped with its snapshot.          *)
LEMMA GateErrsKeeps ==
  ASSUME IInv, NEW n \in Names, GateErrs(n)
  PROVE  IInv'
<1>1. SnapInv /\ at.on = n /\ at.step = "live" /\ faults' \in Nat
  BY DEF GateErrs, IInv, At, SnapInv, SnapTypeOK, Fault
<1>2. SnapInv'
  BY <1>1, ToRemoval DEF GateErrs
<1> QED
  BY <1>2, LostKeeps DEF GateErrs

(* The gates are through.                                                  *)
LEMMA CloseGatesKeeps ==
  ASSUME IInv, NEW n \in Names, CloseGates(n)
  PROVE  IInv'
<1>0. /\ SnapInv /\ AttemptTypes /\ Placed /\ Apart /\ Billed /\ BlameIsRight /\ Heard /\ Proven
      /\ engine = "working"
  BY UnderWay DEF CloseGates
<1>1. SnapInv'
  BY <1>0, CloseKeeps DEF CloseGates
<1>2. UNCHANGED <<engine, used, job, call, failure, records, witness>> /\ at'.step = "remove"
  BY DEF CloseGates, Close, Step
<1>3. /\ phase = "gates" /\ job.gates = 0 /\ phase' \in {"reviews", "done"}
      /\ phase' = "reviews" => failure = NoFailure
      /\ phase' = "done" /\ failure = NoFailure => job.passes = <<>>
  BY DEF CloseGates, NextPhase
<1>4. AttemptTypes'
  BY <1>0, <1>2, <1>3 DEF AttemptTypes
<1>5. Placed' /\ Apart'
  BY <1>0, <1>2, <1>3 DEF Placed, Apart, Opening
<1>6. Billed' /\ BlameIsRight'
  BY <1>0, <1>2 DEF Billed, Units, BlameIsRight
<1>7. Heard'
  BY <1>0, <1>2, <1>3 DEF Heard
<1>8. Proven'
  BY <1>0, <1>2, <1>3 DEF Proven
<1> QED
  BY <1>1, <1>4, <1>5, <1>6, <1>7, <1>8 DEF IInv, AttemptInv

(* The reviewers are through.                                              *)
LEMMA CloseReviewsKeeps ==
  ASSUME IInv, NEW n \in Names, CloseReviews(n)
  PROVE  IInv'
<1>0. /\ SnapInv /\ AttemptTypes /\ Placed /\ Apart /\ Billed /\ BlameIsRight /\ Heard /\ Proven
      /\ engine = "working"
  BY UnderWay DEF CloseReviews
<1>1. SnapInv'
  BY <1>0, CloseKeeps DEF CloseReviews
<1>2. UNCHANGED <<engine, used, job, call, failure, records, witness>> /\ at'.step = "remove"
  BY DEF CloseReviews, Close, Step
<1>3. phase = "reviews" /\ phase' = "done" /\ job.passes = <<>>
  BY DEF CloseReviews
<1>4. AttemptTypes'
  BY <1>0, <1>2, <1>3 DEF AttemptTypes
<1>5. Placed' /\ Apart'
  BY <1>0, <1>2, <1>3 DEF Placed, Apart
<1>6. Billed' /\ BlameIsRight'
  BY <1>0, <1>2 DEF Billed, Units, BlameIsRight
<1>7. Heard' /\ Proven'
  BY <1>0, <1>2, <1>3 DEF Heard, Proven
<1> QED
  BY <1>1, <1>4, <1>5, <1>6, <1>7 DEF IInv, AttemptInv

-----------------------------------------------------------------------------
(* The judge in hand is the next of the plan's, and nobody before it has   *)
(* failed to answer.                                                       *)
LEMMA JudgeIs ==
  ASSUME IInv, phase = "reviews", job.passes # <<>>
  PROVE  LET p == PassesFor(job.plan, job.by)
         IN  /\ failure = NoFailure /\ Judge \in Judges /\ Judge.agent \in Adapter
             /\ Len(records) < Len(p) /\ Judge = p[Len(records) + 1]
             /\ \A i \in 1..Len(records) : records[i].outcome # "Unavailable"
<1>0. /\ Heard /\ BlameIsRight /\ job \in Job /\ Len(records) \in Nat
      /\ DOMAIN records = 1..Len(records)
      /\ job.passes \in Seq(Judges) /\ Len(job.passes) \in Nat
  BY UnderWay
<1>1. failure = NoFailure
  BY <1>0 DEF Heard
<1>2. Len(job.passes) > 0 /\ Judge = job.passes[1] /\ Judge \in Judges
  BY <1>0, EmptySeq, HeadTailProperties DEF Judge
<1> DEFINE p == PassesFor(job.plan, job.by)
<1>3. /\ p \in Seq(Judges) /\ Len(p) \in Nat
      /\ \A i \in 1..Len(p) : p[i].agent \in Adapter
  BY <1>0, PassesAre DEF Job
<1>4. /\ Len(records) + Len(job.passes) = Len(p)
      /\ \A i \in 1..Len(job.passes) : job.passes[i] = p[Len(records) + i]
  BY <1>0, <1>1 DEF Heard
<1> HIDE DEF p
<1>5. Len(records) < Len(p) /\ Judge = p[Len(records) + 1] /\ Len(records) + 1 \in 1..Len(p)
  BY <1>0, <1>2, <1>3, <1>4
<1>6. Judge.agent \in Adapter
  BY <1>3, <1>5
<1>7. \A i \in 1..Len(records) : records[i].outcome # "Unavailable"
  BY <1>0, <1>1 DEF BlameIsRight, NoFailure
<1> QED
  BY <1>1, <1>2, <1>5, <1>6, <1>7 DEF p

(* What a pass comes to: nothing is wrong exactly after a plain pass, and  *)
(* an outage is the reviewer's exactly where there was no judgement.       *)
LEMMA ReviewIs ==
  ASSUME NEW result, NEW verdict, result \in {Judged(verdict), Unavailable(verdict)}
  PROVE  LET f == ReviewFailure(result)
         IN  /\ Blamed(f) /\ ~(f.kind \in OutcomeStatus /\ f.origin = "Worker")
             /\ f # By("NeedsHuman", "Worker")
             /\ f = NoFailure => result = Judged("pass")
             /\ result.is = "Unavailable" <=> (f.origin = "Reviewer" /\ IsOutage(f))
             /\ result.is = "Unavailable" => f # NoFailure
BY DEF ReviewFailure, Judged, Unavailable, By, NoFailure, Blamed, IsOutage, OutcomeStatus, ReviewKinds,
       AttemptFailure, FailureKind, FailureOrigin

(* A pass goes into the ledger at what it cost, under its judge's name.    *)
LEMMA PassEnds ==
  ASSUME IInv, phase = "reviews", NEW n \in Names, At("live", n), job.passes # <<>>,
         NEW result, \E verdict : result \in {Judged(verdict), Unavailable(verdict)},
         NEW cost \in Nat, EndPass(n, result, cost),
         SnapInv', UNCHANGED <<phase, engine, at, used>>,
         witness' \in Witness, witness'.healthy = witness.healthy,
         witness'.gates = witness.gates, witness'.gated = witness.gated,
         witness'.judged \in {witness.judged, n},
         witness'.billed + call.cost = witness.billed + cost,
         witness.approved \subseteq witness'.approved,
         result = Judged("pass") => Judge \in witness'.approved
  PROVE  IInv'
<1>0. /\ SnapInv /\ AttemptTypes /\ Placed /\ Apart /\ Billed /\ BlameIsRight /\ Heard /\ Proven
      /\ job \in Job /\ call \in Call /\ witness \in Witness /\ records \in Seq(ReviewRecord)
      /\ Len(records) \in Nat /\ DOMAIN records = 1..Len(records)
      /\ job.passes \in Seq(Judges) /\ Len(job.passes) \in Nat
      /\ engine = "working" /\ engine # "down"
  BY UnderWay
<1> DEFINE p == PassesFor(job.plan, job.by)
           f == ReviewFailure(result)
           outcome == CASE result.is = "Unavailable" -> "Unavailable"
                        [] result.is = "Judged" /\ f = NoFailure -> "Passed"
                        [] OTHER -> "Failed"
<1>1. /\ failure = NoFailure /\ Judge \in Judges
      /\ Len(records) < Len(p) /\ Judge = p[Len(records) + 1]
      /\ \A i \in 1..Len(records) : records[i].outcome # "Unavailable"
  BY JudgeIs
<1>2. p \in Seq(Judges) /\ Len(p) \in Nat
  BY <1>0, PassesAre DEF Job
<1>3. /\ Blamed(f) /\ ~(f.kind \in OutcomeStatus /\ f.origin = "Worker")
      /\ f # By("NeedsHuman", "Worker")
      /\ f = NoFailure => result = Judged("pass")
      /\ result.is = "Unavailable" <=> (f.origin = "Reviewer" /\ IsOutage(f))
      /\ result.is = "Unavailable" => f # NoFailure
  BY ReviewIs
<1>4. /\ outcome \in {"Unavailable", "Passed", "Failed"}
      /\ outcome = "Unavailable" <=> result.is = "Unavailable"
  OBVIOUS
<1>5. /\ failure' = f /\ call' = NewCall
      /\ records' = Append(records, [by |-> Judge, cost |-> cost, outcome |-> outcome])
      /\ job' = [job EXCEPT !.passes = IF f = NoFailure THEN Tail(@) ELSE <<>>]
  BY DEF EndPass
<1> HIDE DEF p, f, outcome
<1>6. PICK r \in ReviewRecord : /\ r = [by |-> Judge, cost |-> cost, outcome |-> outcome]
                                /\ r.by = Judge /\ r.cost = cost /\ r.outcome = outcome
  <2>1. ReviewRecord = [by : Judges, outcome : {"Unavailable", "Passed", "Failed"}, cost : Nat]
    BY DEF ReviewRecord, Judges
  <2>2. PICK r \in [by : Judges, outcome : {"Unavailable", "Passed", "Failed"}, cost : Nat] :
          r = [by |-> Judge, cost |-> cost, outcome |-> outcome]
    BY <1>1, <1>4
  <2> QED
    BY <2>1, <2>2
<1>7. records' = Append(records, r)
  BY <1>5, <1>6
<1>8. /\ records' \in Seq(ReviewRecord) /\ Len(records') = Len(records) + 1
      /\ DOMAIN records' = 1..Len(records) + 1
      /\ records'[Len(records) + 1] = r
      /\ \A i \in 1..Len(records) : records'[i] = records[i]
  BY <1>0, <1>7, AppendProperties, LenProperties
<1>9. /\ job' \in Job /\ job'.plan = job.plan /\ job'.by = job.by /\ job'.gates = job.gates
      /\ job'.passes = IF f = NoFailure THEN Tail(job.passes) ELSE <<>>
  <2>1. Tail(job.passes) \in Seq(Judges) /\ <<>> \in Seq(Judges)
    BY <1>0, HeadTailProperties, EmptySeq
  <2>2. PICK rest \in Seq(Judges) : rest = IF f = NoFailure THEN Tail(job.passes) ELSE <<>>
    BY <2>1
  <2>3. job' = [job EXCEPT !.passes = rest]
    BY <1>5, <2>2
  <2> QED
    BY <1>0, <2>2, <2>3 DEF Job
<1>10. AttemptTypes'
  BY <1>0, <1>3, <1>5, <1>8, <1>9, PipelineBounds DEF AttemptTypes, NewCall, Call
<1>11. Placed'
  BY <1>0 DEF Placed
<1>12. Apart'
  <2>1. at.step \in Opening /\ at.on = n /\ n # witness.gated
    BY <1>0 DEF Apart, At, Opening
  <2> QED
    BY <1>0, <2>1 DEF Apart
<1>13. Billed'
  <2>1. IsFiniteSet(Units) /\ witness.billed = call.cost + Cardinality(Units)
    BY <1>0 DEF Billed
  <2>2. IsFiniteSet(Units)' /\ Cardinality(Units') = Cardinality(Units) + cost
    BY <1>0, <1>6, <1>7, <2>1, BillGrows
  <2>3. call'.cost = 0
    BY <1>5 DEF NewCall
  <2>4. /\ Cardinality(Units) \in Nat /\ call.cost \in Nat /\ witness.billed \in Nat
        /\ witness'.billed \in Nat
    BY <1>0, <2>1, FS_CardinalityType DEF Call, Witness
  <2>5. witness'.billed = Cardinality(Units) + cost
    BY <2>1, <2>4
  <2>6. Cardinality(Units)' = Cardinality(Units')
    OBVIOUS
  <2> QED
    BY <2>2, <2>3, <2>4, <2>5 DEF Billed
<1>14. BlameIsRight'
  <2>1. (\E i \in DOMAIN records' : records'[i].outcome = "Unavailable") <=> outcome = "Unavailable"
    <3>1. 1..Len(records) + 1 = (1..Len(records)) \cup {Len(records) + 1}
      BY <1>0
    <3> QED
      BY <1>1, <1>6, <1>8, <3>1
  <2>2. failure' = f
    BY <1>5
  <2> QED
    BY <1>3, <1>4, <2>1, <2>2 DEF BlameIsRight
<1>15. Heard'
  <2>1. PassesFor(job.plan, job.by)' = p
    BY <1>9 DEF p
  <2>2. /\ Len(records) + Len(job.passes) = Len(p)
        /\ \A i \in 1..Len(job.passes) : job.passes[i] = p[Len(records) + i]
        /\ \A i \in 1..Len(records) : p[i] \in witness.approved
        /\ \A i \in 1..Len(records) : records[i].by = p[i]
    BY <1>0, <1>1 DEF Heard, p
  <2>3. \A i \in 1..Len(records) + 1 : records'[i].by = p[i]
    BY <1>0, <1>1, <1>6, <1>8, <2>2
  <2>4. ASSUME f = NoFailure
        PROVE  /\ Len(records') + Len(job'.passes) = Len(p)
               /\ \A i \in 1..Len(job'.passes) : job'.passes[i] = p[Len(records') + i]
               /\ \A i \in 1..Len(records') : p[i] \in witness'.approved
    <3>1. /\ Len(job'.passes) = Len(job.passes) - 1
          /\ \A i \in 1..Len(job'.passes) : job'.passes[i] = job.passes[i + 1]
      BY <1>0, <1>9, <2>4, HeadTailProperties
    <3>2. \A i \in 1..Len(job'.passes) : job'.passes[i] = p[Len(records') + i]
      BY <1>0, <1>8, <2>2, <3>1
    <3>3. p[Len(records) + 1] \in witness'.approved
      BY <1>1, <1>3, <2>4
    <3>4. \A i \in 1..Len(records') : p[i] \in witness'.approved
      <4>1. 1..Len(records) + 1 = (1..Len(records)) \cup {Len(records) + 1}
        BY <1>0
      <4>2. \A i \in 1..Len(records) : p[i] \in witness'.approved
        BY <2>2
      <4>3. \A i \in (1..Len(records)) \cup {Len(records) + 1} : p[i] \in witness'.approved
        BY <3>3, <4>2
      <4>4. 1..Len(records') = 1..Len(records) + 1
        BY <1>8
      <4> QED
        BY <4>1, <4>3, <4>4
    <3>5. Len(records') + Len(job'.passes) = Len(p)
      <4>1. PICK k, l \in Nat : k = Len(records) /\ l = Len(job.passes)
        BY <1>0
      <4>2. Len(records') = k + 1 /\ Len(job'.passes) = l - 1 /\ Len(p) = k + l
        BY <1>8, <2>2, <3>1, <4>1
      <4> QED
        BY <4>2
    <3> QED
      BY <3>2, <3>4, <3>5
  <2>5. f # NoFailure => job'.passes = <<>>
    BY <1>9
  <2>6. Len(records') <= Len(p)
    BY <1>0, <1>1, <1>2, <1>8
  <2> QED
    BY <1>5, <1>8, <2>1, <2>3, <2>4, <2>5, <2>6 DEF Heard
<1>16. Proven'
  <2>1. /\ failure = NoFailure => witness.gates = job.gates /\ witness.healthy /\ job.gates = 0
    BY <1>0 DEF Proven
  <2> QED
    BY <1>1, <1>9, <2>1 DEF Proven
<1> QED
  BY <1>10, <1>11, <1>12, <1>13, <1>14, <1>15, <1>16 DEF IInv, AttemptInv

(* A reviewer is asked: the pass ends, or its one question is put again.   *)
LEMMA InvokeKeeps ==
  ASSUME IInv, NEW n \in Names, job.passes # <<>>, NEW run \in Runs[Judge.agent],
         NEW left \in 0..PassClock, InvokeReviewer(n, run, left)
  PROVE  IInv'
<1>0. /\ SnapInv /\ AttemptTypes /\ Placed /\ Apart /\ Billed /\ BlameIsRight /\ Heard /\ Proven
      /\ job \in Job /\ call \in Call /\ witness \in Witness /\ phase = "reviews"
      /\ At("live", n)
  BY UnderWay DEF InvokeReviewer
<1>1. Judge \in Judges /\ Judge.agent \in Adapter /\ failure = NoFailure
  BY <1>0, JudgeIs
<1>2. run.outcome.priced \in BOOLEAN /\ run.outcome.session \in BOOLEAN
  BY <1>1, RunsAre
<1>3. SnapInv' /\ UNCHANGED <<engine, at, used, phase>>
  BY <1>0, SnapSame DEF InvokeReviewer, snapVars
<1> DEFINE price == IF run.outcome.priced THEN 1 ELSE 0
           cost == AddCost(call, run.outcome.priced)
           judged == HasVerdict(run.outcome)
<1>4. /\ price \in {0, 1} /\ cost = call.cost + price /\ cost \in Nat
      /\ call.cost \in Nat /\ witness.billed \in Nat /\ call.session \in BOOLEAN
  BY <1>0 DEF AddCost, Call, Witness
<1>5. PICK b \in Nat : b = witness.billed + price
  BY <1>4
<1>6. PICK approved \in SUBSET Judges :
        /\ approved = IF run.outcome.detail = "pass" THEN witness.approved \cup {Judge}
                                                     ELSE witness.approved
        /\ witness.approved \subseteq approved
        /\ run.outcome.detail = "pass" => Judge \in approved
  <2>1. witness.approved \in SUBSET Judges
    BY <1>0 DEF Witness
  <2>2. witness.approved \cup {Judge} \in SUBSET Judges
    BY <1>1, <2>1
  <2>3. CASE run.outcome.detail = "pass"
    BY <2>2, <2>3
  <2>4. CASE run.outcome.detail # "pass"
    BY <2>1, <2>4
  <2> QED
    BY <2>3, <2>4
<1>7. (witness.blind \/ (judged /\ ~(FullPrompt(call) \/ call.session))) = FALSE
  BY <1>0, <1>4 DEF FullPrompt, Witness
<1>8. witness' = [witness EXCEPT !.judged = n, !.billed = b, !.blind = FALSE, !.approved = approved]
  <2> HIDE DEF judged
  <2>1. witness' = [witness EXCEPT !.judged = n, !.billed = @ + price,
                      !.blind = @ \/ (judged /\ ~(FullPrompt(call) \/ call.session)),
                      !.approved = IF run.outcome.detail = "pass" THEN @ \cup {Judge} ELSE @]
    BY DEF InvokeReviewer, judged
  <2>2. witness' = [witness EXCEPT !.judged = n, !.billed = witness.billed + price,
                      !.blind = witness.blind \/ (judged /\ ~(FullPrompt(call) \/ call.session)),
                      !.approved = IF run.outcome.detail = "pass" THEN witness.approved \cup {Judge}
                                                                  ELSE witness.approved]
    BY <1>0, <2>1 DEF Witness
  <2> QED
    BY <1>5, <1>6, <1>7, <2>2
<1>9. /\ witness' \in Witness /\ witness'.healthy = witness.healthy
      /\ witness'.gates = witness.gates /\ witness'.gated = witness.gated
      /\ witness'.judged = n /\ witness'.billed = b /\ witness'.approved = approved
  BY <1>0, <1>8 DEF Witness
<1>10. witness'.billed + call.cost = witness.billed + cost
  BY <1>4, <1>5, <1>9
<1>11. CASE \E result : EndPass(n, result, cost)
              /\ result = CASE judged -> Judged(run.outcome.detail)
                            [] ~judged /\ run.outcome.status # "Completed" ->
                                 Unavailable(run.outcome.status)
                            [] OTHER -> Judged("unparseable")
  <2>1. PICK result : EndPass(n, result, cost)
              /\ result = CASE judged -> Judged(run.outcome.detail)
                            [] ~judged /\ run.outcome.status # "Completed" ->
                                 Unavailable(run.outcome.status)
                            [] OTHER -> Judged("unparseable")
    BY <1>11
  <2>2. \E verdict : result \in {Judged(verdict), Unavailable(verdict)}
    BY <2>1
  <2>4. result = Judged("pass") => Judge \in witness'.approved
    BY <1>6, <1>9, <2>1 DEF Judged, Unavailable
  <2> HIDE DEF cost, judged
  <2>5. witness'.judged \in {witness.judged, n} /\ witness.approved \subseteq witness'.approved
    BY <1>6, <1>9
  <2>6. EndPass(n, result, cost)
    BY <2>1
  <2>7. PICK c \in Nat : c = cost
    BY <1>4
  <2>8. EndPass(n, result, c) /\ witness'.billed + call.cost = witness.billed + c
    BY <1>10, <2>6, <2>7
  <2>9. At("live", n) /\ phase = "reviews" /\ SnapInv' /\ UNCHANGED <<phase, engine, at, used>>
    BY <1>0, <1>3
  <2>10. /\ witness' \in Witness /\ witness'.healthy = witness.healthy
         /\ witness'.gates = witness.gates /\ witness'.gated = witness.gated
    BY <1>9
  <2> QED
    BY <2>2, <2>4, <2>5, <2>8, <2>9, <2>10, PassEnds
<1>12. CASE /\ call' = [invocation |-> 2, session |-> run.outcome.session,
                        clock |-> left, cost |-> cost]
            /\ UNCHANGED <<job, failure, records>>
  <2>1. call' \in Call /\ call'.cost = cost
    BY <1>2, <1>4, <1>12 DEF Call
  <2>2. AttemptTypes'
    BY <1>0, <1>3, <1>9, <1>12, <2>1 DEF AttemptTypes
  <2>3. Placed'
    BY <1>0, <1>3, <1>12 DEF Placed
  <2>4. Apart'
    <3>1. at.step \in Opening /\ at.on = n /\ n # witness.gated
      BY <1>0 DEF Apart, At, Opening
    <3> QED
      BY <1>0, <1>3, <1>9, <3>1 DEF Apart
  <2>5. Billed'
    <3>1. Units' = Units /\ IsFiniteSet(Units) /\ witness.billed = call.cost + Cardinality(Units)
      BY <1>0, <1>12 DEF Billed, Units
    <3>2. Cardinality(Units) \in Nat
      BY <3>1, FS_CardinalityType
    <3>3. witness'.billed = cost + Cardinality(Units)
      BY <1>4, <1>5, <1>9, <3>1, <3>2
    <3>4. IsFiniteSet(Units)' /\ Cardinality(Units)' = Cardinality(Units)
      BY <3>1
    <3> QED
      BY <2>1, <3>3, <3>4 DEF Billed
  <2>6. BlameIsRight'
    BY <1>0, <1>9, <1>12 DEF BlameIsRight
  <2>7. Heard'
    <3>1. \A i \in 1..Len(records) : PassesFor(job.plan, job.by)[i] \in witness'.approved
      BY <1>0, <1>1, <1>6, <1>9 DEF Heard
    <3> QED
      BY <1>0, <1>3, <1>12, <3>1 DEF Heard
  <2>8. Proven'
    BY <1>0, <1>3, <1>9, <1>12 DEF Proven
  <2> QED
    BY <1>3, <2>2, <2>3, <2>4, <2>5, <2>6, <2>7, <2>8 DEF IInv, AttemptInv
<1> QED
  BY <1>11, <1>12 DEF InvokeReviewer

(* A pass without time is a judge that timed out.                          *)
LEMMA RunsOutKeeps ==
  ASSUME IInv, NEW n \in Names, PassRunsOut(n)
  PROVE  IInv'
<1>0. /\ SnapInv /\ call \in Call /\ witness \in Witness /\ phase = "reviews"
      /\ At("live", n) /\ job.passes # <<>> /\ EndPass(n, Unavailable("Timeout"), call.cost)
  BY UnderWay DEF PassRunsOut
<1>1. SnapInv' /\ UNCHANGED <<engine, at, used, phase, witness>>
  BY <1>0, SnapSame DEF PassRunsOut, snapVars
<1>2. call.cost \in Nat
  BY <1>0 DEF Call
<1>3. Unavailable("Timeout") # Judged("pass")
  BY DEF Unavailable, Judged
<1>4. Unavailable("Timeout") \in {Judged("Timeout"), Unavailable("Timeout")}
  OBVIOUS
<1>5. /\ witness' \in Witness /\ witness'.healthy = witness.healthy
      /\ witness'.gates = witness.gates /\ witness'.gated = witness.gated
      /\ witness'.judged \in {witness.judged, n}
      /\ witness'.billed + call.cost = witness.billed + call.cost
      /\ witness.approved \subseteq witness'.approved
  BY <1>0, <1>1
<1> QED
  BY <1>0, <1>1, <1>2, <1>3, <1>4, <1>5, PassEnds

(* A pass that could not be run, or not written down, is an outage too.    *)
LEMMA PassErrsKeeps ==
  ASSUME IInv, NEW n \in Names, NEW priced \in BOOLEAN, PassErrs(n, priced)
  PROVE  IInv'
<1> DEFINE price == IF priced THEN 1 ELSE 0
           cost == AddCost(call, priced)
<1>0. /\ SnapInv /\ call \in Call /\ witness \in Witness /\ phase = "reviews"
      /\ At("live", n) /\ job.passes # <<>> /\ EndPass(n, Unavailable("AgentError"), cost)
  BY UnderWay DEF PassErrs
<1>1. UNCHANGED <<disk, maybe, engine, at, after, gits, used, outlived, refused, failed, stops, phase>>
  BY DEF PassErrs, Rest
<1>2. SnapInv'
  BY <1>0, <1>1 DEF PassErrs, Fault, SnapInv, SnapTypeOK, Disks, Waited, Stages, Listed, Leftovers, Named, Stuck
<1>3. /\ price \in {0, 1} /\ cost = call.cost + price /\ cost \in Nat
      /\ call.cost \in Nat /\ witness.billed \in Nat
  BY <1>0 DEF AddCost, Call, Witness
<1>4. PICK b \in Nat : b = witness.billed + price
  BY <1>3
<1>5. witness' = [witness EXCEPT !.billed = b]
  BY <1>0, <1>4 DEF PassErrs, Witness
<1>6. /\ witness' \in Witness /\ witness'.healthy = witness.healthy
      /\ witness'.gates = witness.gates /\ witness'.gated = witness.gated
      /\ witness'.judged \in {witness.judged, n} /\ witness'.billed = b
      /\ witness.approved \subseteq witness'.approved
  BY <1>0, <1>5 DEF Witness
<1>7. witness'.billed + call.cost = witness.billed + cost
  BY <1>3, <1>4, <1>6
<1>8. Unavailable("AgentError") # Judged("pass")
  BY DEF Unavailable, Judged
<1>9. Unavailable("AgentError") \in {Judged("AgentError"), Unavailable("AgentError")}
  OBVIOUS
<1> HIDE DEF cost
<1> QED
  BY <1>0, <1>1, <1>2, <1>3, <1>6, <1>7, <1>8, <1>9, PassEnds

(* A settled attempt makes room for the next.                              *)
LEMMA SettledKeeps ==
  ASSUME IInv, Settled
  PROVE  IInv'
BY LostKeeps, SnapSame DEF Settled, IInv

-----------------------------------------------------------------------------
(* Nothing is on disk and nothing under way at first.                      *)
LEMMA IInvInit == Init => IInv
<1> SUFFICES ASSUME Init PROVE IInv
  OBVIOUS
<1>1. /\ disk = [n \in Names |-> Nothing] /\ maybe = {disk} /\ engine = "working" /\ at = Idle
      /\ after = "work" /\ gits = {} /\ used = {} /\ outlived = {}
      /\ refused = {} /\ failed = {} /\ stops = 0 /\ faults = 0
  BY DEF Init, SnapInit
<1>2. Nothing \in Snapshot /\ Nothing.intent = FALSE /\ Nothing.reg = "none"
  BY DEF Nothing, Snapshot
<1>3. disk \in [Names -> Snapshot] /\ \A n \in Names : disk[n] = Nothing
  BY <1>1, <1>2
<1>4. at.step = "idle" /\ at.on = 1 /\ 1 \in Names /\ at = [step |-> "idle", on |-> 1]
  BY <1>1, SnapshotBounds DEF Idle, Names
<1>5. SnapTypeOK
  BY <1>1, <1>3, <1>4 DEF SnapTypeOK
<1>6. Disks
  BY <1>1, <1>2, <1>3 DEF Disks, Sound
<1>7. Waited /\ Stages
  BY <1>1, <1>4 DEF Waited, Stages, Reached, Opening
<1>8. Listed /\ Leftovers
  BY <1>1, <1>2, <1>3, <1>4 DEF Listed, Leftovers
<1>9. Named
  <2>1. used = 1..0 /\ 0 \in 0..MaxSnapshots
    BY <1>1, SnapshotBounds
  <2> QED
    BY <1>4, <2>1 DEF Named, Opening
<1>10. SnapInv
  BY <1>5, <1>6, <1>7, <1>8, <1>9 DEF SnapInv
<1>11. /\ phase = "ready" /\ failure = NoFailure /\ records = <<>>
       /\ call = NewCall /\ witness = Unseen
  BY DEF Init
<1>12. records \in Seq(ReviewRecord) /\ DOMAIN records = {}
  BY <1>11, EmptySeq
<1>13. AttemptTypes
  BY <1>11, <1>12, PipelineBounds
     DEF AttemptTypes, NewCall, Call, Unseen, Witness, Blamed, NoFailure
<1>14. Placed /\ Apart
  BY <1>11 DEF Placed, Apart, Unseen
<1>15. Units = {}
  BY <1>12 DEF Units
<1>16. Billed
  BY <1>11, <1>15, FS_EmptySet DEF Billed, Unseen, NewCall
<1>17. BlameIsRight
  BY <1>11, <1>12 DEF BlameIsRight, NoFailure, OutcomeStatus, By
<1> QED
  BY <1>10, <1>11, <1>13, <1>14, <1>16, <1>17 DEF IInv, AttemptInv

(* ... and every step keeps it.                                            *)
LEMMA IInvNext == IInv /\ [Next]_vars => IInv'
<1> SUFFICES ASSUME IInv, [Next]_vars PROVE IInv'
  OBVIOUS
<1>1. CASE UNCHANGED vars
  BY <1>1, SnapSame, FrameKeeps DEF vars, snapVars, IInv
<1>2. CASE Beneath
  BY <1>2, BeneathKeeps
<1>3. CASE Working
  <2>1. ASSUME NEW plan \in Plans, NEW b \in Implementers, NEW gates \in GateCounts,
               StartAttempt(plan, b, gates)
        PROVE  IInv'
    BY <2>1, StartKeeps
  <2>2. ASSUME phase = "agent", NEW run \in Runs[job.by.agent], NEW edits \in Edits,
               NEW proven \in BOOLEAN, NEW hidden \in BOOLEAN,
               AgentRuns(run, edits, proven, hidden)
        PROVE  IInv'
    BY <2>2, AgentKeeps
  <2> QED
    BY <1>3, <2>1, <2>2, ErrorKeeps, SettledKeeps DEF Working
<1>4. CASE Verifying
  <2>1. PICK n \in Names :
          \/ OpenSnapshot(n)
          \/ GatePasses(n) \/ GateFails(n) \/ GateErrs(n) \/ CloseGates(n)
          \/ (job.passes # <<>> /\ \E run \in Runs[Judge.agent], left \in 0..PassClock :
                InvokeReviewer(n, run, left))
          \/ PassRunsOut(n) \/ CloseReviews(n)
          \/ \E priced \in BOOLEAN : PassErrs(n, priced)
    BY <1>4 DEF Verifying
  <2>2. ASSUME job.passes # <<>>, NEW run \in Runs[Judge.agent], NEW left \in 0..PassClock,
               InvokeReviewer(n, run, left)
        PROVE  IInv'
    BY <2>2, InvokeKeeps
  <2>3. ASSUME NEW priced \in BOOLEAN, PassErrs(n, priced)
        PROVE  IInv'
    BY <2>3, PassErrsKeeps
  <2> QED
    BY <2>1, <2>2, <2>3, OpenKeeps, GateKeeps, GateFailsKeeps, GateErrsKeeps, CloseGatesKeeps,
       RunsOutKeeps, CloseReviewsKeeps
<1> QED
  BY <1>1, <1>2, <1>3, <1>4 DEF Next

LEMMA IInvAlways == Spec => []IInv
BY IInvInit, IInvNext, PTL DEF Spec

-----------------------------------------------------------------------------
(* What git has registered the store knows of, whatever a power loss makes *)
(* of the disk; a resume refuses only over what git was cut off in, and no *)
(* work starts over anything else (workspace.rs, cleanup and reclaim).     *)
THEOREM SnapshotsAccountedForAlways == Spec => []SnapshotsAccountedFor
<1>1. SnapInv => NothingOrphaned
  BY DEF SnapInv, Disks, Sound, NothingOrphaned
<1>2. SnapInv => RefusedOnlyIfStuck
  BY DEF SnapInv, SnapTypeOK, Leftovers, RefusedOnlyIfStuck
<1>3. SnapInv => CleanBeforeWork
  BY DEF SnapInv, Leftovers, CleanBeforeWork, Resting, Idle
<1>4. IInv => SnapshotsAccountedFor
  BY <1>1, <1>2, <1>3 DEF IInv, SnapshotsAccountedFor
<1> QED
  BY <1>4, IInvAlways, PTL

(* A passing attempt is one whose process ended well, that every gate and  *)
(* every judge of its plan has passed, in trees of their own and having    *)
(* read it (run_attempt; verify_gates_and_review).                         *)
THEOREM JudgedAsPromisedAlways == Spec => []JudgedAsPromised
<1> SUFFICES ASSUME IInv PROVE JudgedAsPromised
  BY IInvAlways, PTL
<1>0. /\ SnapInv /\ AttemptTypes /\ Placed /\ Apart
      /\ phase # "ready" => Heard /\ Proven
  BY DEF IInv, AttemptInv
<1>1. records \in Seq(ReviewRecord) /\ Len(records) \in Nat /\ DOMAIN records = 1..Len(records)
  BY <1>0, LenProperties DEF AttemptTypes
<1>2. TypeOK
  <2>1. \A i \in DOMAIN records : records[i] \in ReviewRecord
    BY <1>1, ElementOfSeq
  <2> QED
    BY <1>0, <2>1 DEF TypeOK, SnapInv, AttemptTypes, Call, Blamed, ReviewKinds
<1> DEFINE p == PassesFor(job.plan, job.by)
<1>3. ASSUME phase # "ready"
      PROVE  /\ p \in Seq(Judges) /\ Len(p) \in Nat /\ DOMAIN p = 1..Len(p)
             /\ \A i \in 1..Len(p) : /\ p[i] = job.by => job.plan.alternative = NoBinding
                                                        \/ job.plan.second # NoBinding
                                     /\ \A j \in 1..Len(p) : p[i] = p[j] => i = j
             /\ Len(records) <= Len(p) /\ \A i \in 1..Len(records) : records[i].by = p[i]
  <2>1. job \in Job
    BY <1>0, <1>3 DEF AttemptTypes
  <2>2. job.plan \in Plans /\ job.by \in Implementers
    BY <2>1 DEF Job
  <2>3. p \in Seq(Judges) /\ Len(p) \in Nat
    BY <2>2, PassesAre
  <2>4. DOMAIN p = 1..Len(p)
    BY <2>3, LenProperties
  <2>5. \A i \in 1..Len(p) : /\ p[i] = job.by => job.plan.alternative = NoBinding
                                                 \/ job.plan.second # NoBinding
                             /\ \A j \in 1..Len(p) : p[i] = p[j] => i = j
    BY <2>2, PassesAre
  <2>6. Len(records) <= Len(p) /\ \A i \in 1..Len(records) : records[i].by = p[i]
    BY <1>0, <1>3 DEF Heard
  <2> QED
    BY <2>3, <2>4, <2>5, <2>6
<1>4. PassMeansVerified
  <2> SUFFICES ASSUME phase = "done", failure = NoFailure
               PROVE  /\ witness.healthy /\ witness.gates = 0
                      /\ \A b \in {p[i] : i \in DOMAIN p} : b \in witness.approved
    BY DEF PassMeansVerified
  <2>1. witness.healthy /\ witness.gates = 0
    BY <1>0 DEF Proven
  <2>2. /\ job.passes = <<>> /\ Len(records) + Len(job.passes) = Len(p)
        /\ \A i \in 1..Len(records) : p[i] \in witness.approved
    BY <1>0 DEF Heard
  <2>3. Len(p) = Len(records)
    BY <1>1, <2>2, EmptySeq
  <2> HIDE DEF p
  <2> QED
    BY <1>3, <2>1, <2>2, <2>3
<1>5. LiveIsIntact
  BY <1>0 DEF SnapInv, Stages, Reached, LiveIsIntact, At, Opening
<1>6. JudgesGetTheirOwnTree
  BY <1>0 DEF Apart, JudgesGetTheirOwnTree
<1>7. SecondLook
  <2>1. CASE phase = "ready"
    <3>1. DOMAIN records = {}
      BY <1>0, <2>1 DEF Placed
    <3> QED
      BY <3>1 DEF SecondLook
  <2>2. CASE phase # "ready"
    <3> HIDE DEF p
    <3>1. \A i \in 1..Len(records) : i \in 1..Len(p) /\ records[i].by = p[i]
      BY <1>1, <1>3, <2>2
    <3>2. \A i \in 1..Len(records) :
            /\ records[i].by = job.by => job.plan.alternative = NoBinding
                                         \/ job.plan.second # NoBinding
            /\ \A j \in 1..Len(records) : records[i].by = records[j].by => i = j
      BY <1>3, <2>2, <3>1
    <3> QED
      BY <1>1, <3>2 DEF SecondLook
  <2> QED
    BY <2>1, <2>2
<1>8. NoBlindVerdict
  BY <1>0 DEF AttemptTypes, Witness, NoBlindVerdict
<1> QED
  BY <1>2, <1>4, <1>5, <1>6, <1>7, <1>8 DEF JudgedAsPromised

(* Whose failure it was is what happened, and what the judges charged is   *)
(* what the records add up to, whichever way an attempt or a pass ends     *)
(* (evaluate_outcome, review_failure, run_review).                         *)
THEOREM BlameAndBillAlways == Spec => []BlameAndBill
<1>1. IInv => BlameAndBill
  BY DEF IInv, AttemptInv, Billed, Units, BlameAndBill, ReviewSpendRecorded
<1> QED
  BY <1>1, IInvAlways, PTL
=============================================================================
