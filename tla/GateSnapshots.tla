---------------------------- MODULE GateSnapshots ----------------------------
(***************************************************************************)
(* The worktrees gates and reviewers run in: src/src/workspace.rs from     *)
(* gate_snapshot_for_candidate_in_store down to cleanup_gate_workspace,    *)
(* and the reclaim that opens every resume.                                *)
(*                                                                         *)
(* A snapshot is four things on disk: an intent file, a private directory, *)
(* a hooks directory and git's own registration.  git is a child process   *)
(* with steps of its own; it can be killed between any two, and it can     *)
(* outlive an engine that is killed alone.  A power loss brings back any   *)
(* state the disk had since the last directory sync (the file system is    *)
(* taken to keep the order of its own operations, and no more).            *)
(***************************************************************************)
EXTENDS Naturals, FiniteSets

CONSTANTS
  MaxSnapshots,  \* bound: snapshots, each under a name never used before
  MaxStops,      \* bound: engines that die
  MaxFaults      \* bound: operations that fail

ASSUME SnapshotBounds ==
  MaxSnapshots \in Nat \ {0} /\ MaxStops \in Nat /\ MaxFaults \in Nat

Names == 1..MaxSnapshots

VARIABLES
  disk,          \* what is there of each snapshot
  maybe,         \* every disk a power loss could leave
  engine,        \* "down", "resuming" or "working"
  at,            \* what the engine does next, and on which snapshot
  after,         \* what follows the cleanup under way
  gits,          \* running git processes
  used,          \* names given out
  outlived,      \* snapshots whose git went on after its engine was killed
  refused,       \* the last resume could not reclaim this
  failed,        \* the last cleanup of these met an operation that failed
  stops, faults

snapVars == <<disk, maybe, engine, at, after, gits, used, outlived, refused,
              failed, stops, faults>>

(* dir: nothing, empty, some of the tree, exactly the tree, or what gates  *)
(* made of it.  reg: git's entry is locked while `worktree add` runs.      *)
Snapshot == [intent: BOOLEAN, hooks: BOOLEAN,
             dir: {"none", "empty", "part", "tree", "used"},
             reg: {"none", "locked", "done"}]
Nothing == [intent |-> FALSE, hooks |-> FALSE, dir |-> "none", reg |-> "none"]

At(step, n) == at = [step |-> step, on |-> n]
Idle == [step |-> "idle", on |-> 1]
Resting == at = Idle

SnapInit ==
  /\ disk = [n \in Names |-> Nothing] /\ maybe = {disk}
  /\ engine = "working" /\ at = Idle
  /\ after = "work" /\ gits = {} /\ used = {} /\ outlived = {}
  /\ refused = {} /\ failed = {} /\ stops = 0 /\ faults = 0

Git == [does: {"register", "populate", "checkout", "unlock",
               "remove", "clear", "forget"}, on: Names, child: BOOLEAN]

SnapTypeOK ==
  /\ disk \in [Names -> Snapshot]
  /\ maybe \subseteq [Names -> Snapshot]
  /\ engine \in {"down", "resuming", "working"}
  /\ at \in [step: {"idle", "sync", "mkdir", "mkhooks", "add", "adding",
                    "verify", "live", "remove", "removing", "list", "delete",
                    "unlink", "unsync"}, on: Names]
  /\ after \in {"work", "resume", "fail"}
  /\ gits \subseteq Git
  /\ used \subseteq Names /\ outlived \subseteq Names /\ refused \subseteq Names
  /\ failed \subseteq Names
  /\ stops \in Nat /\ faults \in Nat
-----------------------------------------------------------------------------
(* A change of the disk that nothing has synced yet.                       *)
Write(n, snapshot) ==
  /\ disk' = [disk EXCEPT ![n] = snapshot]
  /\ maybe' = maybe \union {disk'}
Synced == maybe' = {disk} /\ UNCHANGED disk

Step(step, n) == at' = [step |-> step, on |-> n]
Fault == faults < MaxFaults /\ faults' = faults + 1

Down == engine' = "down" /\ at' = Idle

Rest == UNCHANGED <<after, gits, used, outlived, refused, failed, stops>>
Quiet == Rest /\ UNCHANGED <<engine, faults>>

(* create_snapshot_intent: created, then synced with its directory.        *)
CreateIntent(n) ==
  /\ engine = "working" /\ Resting /\ n = Cardinality(used) + 1
  /\ Write(n, [Nothing EXCEPT !.intent = TRUE])
  /\ used' = used \union {n}
  /\ Step("sync", n)
  /\ UNCHANGED <<engine, after, gits, outlived, refused, failed, stops, faults>>

SyncIntent(n) == At("sync", n) /\ Synced /\ Step("mkdir", n) /\ Quiet

(* The error path leaves the intent for a resume to find.                  *)
SyncIntentFails(n) ==
  /\ At("sync", n) /\ Fault /\ Down
  /\ UNCHANGED <<disk, maybe>> /\ Rest

MakePath(n) ==
  /\ At("mkdir", n)
  /\ Write(n, [disk[n] EXCEPT !.dir = "empty"])
  /\ Step("mkhooks", n) /\ Quiet

MakeHooks(n) ==
  /\ At("mkhooks", n)
  /\ Write(n, [disk[n] EXCEPT !.hooks = TRUE])
  /\ Step("add", n) /\ Quiet

(* Neither directory exists twice; failing to make one undoes the rest, as *)
(* far as that does not fail in turn.                                      *)
MakeFails(n) ==
  /\ At("mkdir", n) \/ At("mkhooks", n)
  /\ Fault /\ Down
  /\ Write(n, Nothing) \/ UNCHANGED <<disk, maybe>>
  /\ Rest

AddWorktree(n) ==
  /\ At("add", n)
  /\ gits' = gits \union {[does |-> "register", on |-> n, child |-> TRUE]}
  /\ Step("adding", n)
  /\ UNCHANGED <<disk, maybe, engine, after, used, outlived, refused, failed,
                 stops, faults>>

(* Fault: what git checked out is taken as it comes.                       *)
Verify_Unchecked(n) == At("verify", n) /\ disk[n].dir # "none"

(* verify_gate_worktree: status of the new worktree shows nothing at all.  *)
Verified(n) == At("verify", n) /\ disk[n].dir = "tree"

Open(n) ==
  /\ Verified(n) /\ Step("live", n)
  /\ UNCHANGED <<disk, maybe>> /\ Quiet

VerifyRefuses(n) ==
  /\ At("verify", n) /\ ~Verified(n)
  /\ Step("remove", n) /\ after' = "fail"
  /\ UNCHANGED <<disk, maybe, engine, gits, used, outlived, refused, failed,
                 stops, faults>>

(* Gates build in it, write to it, break it.                               *)
Spoil(n) ==
  /\ At("live", n) /\ disk[n].dir = "tree"
  /\ Write(n, [disk[n] EXCEPT !.dir = "used"])
  /\ UNCHANGED at /\ Quiet

(* GateWorkspace is dropped, at the end of its block or on the way out of  *)
(* a failing call.                                                         *)
Close(n, then) ==
  /\ At("live", n) /\ Step("remove", n) /\ after' = then
  /\ UNCHANGED <<disk, maybe, engine, gits, used, outlived, refused, failed,
                 stops, faults>>
-----------------------------------------------------------------------------
(* cleanup_gate_workspace, from Drop and from reclaim_gate_workspaces.  An *)
(* error ends it there: Drop ignores the error, reclaim hands it on and    *)
(* the resume ends with it.                                                *)
GiveUp(n) ==
  /\ IF after = "work" THEN at' = Idle /\ UNCHANGED engine
                       ELSE Down
  /\ refused' = IF after = "resume" THEN refused \union {n} ELSE refused
  /\ UNCHANGED <<disk, maybe, after, used, outlived, stops>>

RemoveWorktree(n) ==
  /\ At("remove", n)
  /\ gits' = gits \union {[does |-> "remove", on |-> n, child |-> TRUE]}
  /\ Step("removing", n)
  /\ failed' = failed \ {n}
  /\ UNCHANGED <<disk, maybe, engine, after, used, outlived, refused, stops,
                 faults>>

(* git cannot be spawned, or fails to list its worktrees; the intent       *)
(* cannot be removed, or its directory not be synced.                      *)
CleanupFails(n) ==
  /\ \E step \in {"remove", "list", "unlink", "unsync"} : At(step, n)
  /\ Fault /\ GiveUp(n)
  /\ failed' = failed \union {n}
  /\ UNCHANGED gits

(* Fault: the directories and the intent go although git still lists the   *)
(* worktree.                                                               *)
Unregistered_Assumed(n) == At("list", n)

(* worktree_is_registered.                                                 *)
Unregistered(n) == At("list", n) /\ disk[n].reg = "none"

StillRegistered(n) ==
  /\ At("list", n) /\ disk[n].reg # "none"
  /\ GiveUp(n) /\ UNCHANGED <<gits, failed, faults>>

Confirm(n) ==
  /\ Unregistered(n) /\ Step("delete", n)
  /\ UNCHANGED <<disk, maybe>> /\ Quiet

(* remove_dir_all of both, and what cannot be deleted stays behind.        *)
DeleteDirs(n) ==
  /\ At("delete", n)
  /\ \/ Write(n, [disk[n] EXCEPT !.dir = "none", !.hooks = FALSE])
        /\ UNCHANGED faults
     \/ Fault /\ UNCHANGED <<disk, maybe>>
  /\ Step("unlink", n) /\ Rest /\ UNCHANGED engine

UnlinkIntent(n) ==
  /\ At("unlink", n)
  /\ Write(n, [disk[n] EXCEPT !.intent = FALSE])
  /\ Step("unsync", n) /\ Quiet

SyncUnlink(n) ==
  /\ At("unsync", n)
  /\ Synced
  /\ IF after = "fail" THEN Down
     ELSE at' = Idle /\ UNCHANGED engine
  /\ Rest /\ UNCHANGED faults

(* reclaim_gate_workspaces: every intent in the store, in any order.       *)
ReclaimNext(n) ==
  /\ engine = "resuming" /\ Resting /\ disk[n].intent
  /\ Step("remove", n) /\ after' = "resume"
  /\ UNCHANGED <<disk, maybe, engine, gits, used, outlived, refused, failed,
                 stops, faults>>

(* Fault: the resume goes on after the first one.                          *)
ReclaimDone_AfterFirst ==
  /\ engine = "resuming" /\ Resting
  /\ engine' = "working"
  /\ UNCHANGED <<disk, maybe, at, faults>> /\ Rest

ReclaimDone ==
  /\ engine = "resuming" /\ Resting /\ \A n \in Names : ~disk[n].intent
  /\ engine' = "working"
  /\ UNCHANGED <<disk, maybe, at, faults>> /\ Rest

(* The store of the intents cannot be read.                                *)
ReclaimFails ==
  /\ engine = "resuming" /\ Resting /\ Fault /\ Down
  /\ UNCHANGED <<disk, maybe>> /\ Rest

ResumeRun ==
  /\ engine = "down"
  /\ engine' = "resuming" /\ refused' = {}
  /\ UNCHANGED <<disk, maybe, at, after, gits, used, outlived, failed, stops,
                 faults>>
-----------------------------------------------------------------------------
(* The steps of git.  Each takes the process g away and puts back what is  *)
(* left of it.                                                             *)
Goes(g, does) == gits' = (gits \ {g}) \union {[g EXCEPT !.does = does]}
GitStays == UNCHANGED <<engine, after, used, outlived, refused, stops>>
GitOnly == GitStays /\ UNCHANGED failed

(* An engine that waits for g goes on; nobody waits for an orphan.         *)
Exits(g, step) ==
  /\ gits' = gits \ {g}
  /\ IF g.child THEN Step(step, g.on) ELSE UNCHANGED at

Register(g) ==
  /\ g.does = "register"
  /\ Write(g.on, [disk[g.on] EXCEPT !.reg = "locked"])
  /\ Goes(g, "populate") /\ GitOnly /\ UNCHANGED <<at, faults>>

Populate(g) ==
  /\ g.does = "populate"
  /\ Write(g.on, [disk[g.on] EXCEPT !.dir = "part"])
  /\ Goes(g, "checkout") /\ GitOnly /\ UNCHANGED <<at, faults>>

(* A filter or an attribute can leave something else than the tree.        *)
Checkout(g) ==
  /\ g.does = "checkout"
  /\ \/ Write(g.on, [disk[g.on] EXCEPT !.dir = "tree"]) /\ UNCHANGED faults
     \/ Fault /\ UNCHANGED <<disk, maybe>>
  /\ Goes(g, "unlock") /\ GitOnly /\ UNCHANGED at

Unlock(g) ==
  /\ g.does = "unlock"
  /\ Write(g.on, [disk[g.on] EXCEPT !.reg = "done"])
  /\ Exits(g, "verify") /\ GitOnly /\ UNCHANGED faults

(* A failing `worktree add` takes away what it made.                       *)
AddFails(g) ==
  /\ g.does \in {"register", "populate", "checkout"} /\ g.child
  /\ Fault
  /\ Write(g.on, [disk[g.on] EXCEPT !.reg = "none", !.dir = "none"])
  /\ gits' = gits \ {g} /\ Step("remove", g.on) /\ after' = "fail"
  /\ UNCHANGED <<engine, used, outlived, refused, failed, stops>>

(* Fault: without --force git keeps a worktree that has changes.           *)
Removable_IfClean(n) == disk[n].reg = "done" /\ disk[n].dir \in {"none", "tree"}

(* One --force is enough for a dirty tree, not for a locked one; a tree    *)
(* that lost its .git file does not validate either.                       *)
Removable(n) == disk[n].reg = "done" /\ disk[n].dir # "empty"

RemoveRefused(g) ==
  /\ g.does = "remove" /\ (~Removable(g.on) \/ disk[g.on].dir = "part")
  /\ Exits(g, "list") /\ GitOnly
  /\ UNCHANGED <<disk, maybe, faults>>

RemoveStarts(g) ==
  /\ g.does = "remove" /\ Removable(g.on)
  /\ Write(g.on, [disk[g.on] EXCEPT !.dir = IF @ = "none" THEN @ ELSE "part"])
  /\ Goes(g, "clear") /\ GitOnly /\ UNCHANGED <<at, faults>>

(* Files that cannot be deleted do not keep git from forgetting the tree.  *)
RemoveTree(g) ==
  /\ g.does = "clear"
  /\ \/ Write(g.on, [disk[g.on] EXCEPT !.dir = "none"]) /\ UNCHANGED faults
     \/ Fault /\ UNCHANGED <<disk, maybe>>
  /\ Goes(g, "forget") /\ GitOnly /\ UNCHANGED at

(* A remove that dies of something else, at whatever point.                *)
RemoveFails(g) ==
  /\ g.does \in {"remove", "clear", "forget"} /\ Fault
  /\ Exits(g, "list") /\ GitStays
  /\ failed' = IF g.child THEN failed \union {g.on} ELSE failed
  /\ UNCHANGED <<disk, maybe>>

Forget(g) ==
  /\ g.does = "forget"
  /\ Write(g.on, [disk[g.on] EXCEPT !.reg = "none"])
  /\ Exits(g, "list") /\ GitOnly /\ UNCHANGED faults
-----------------------------------------------------------------------------
Orphaned(g) == [g EXCEPT !.child = FALSE]

(* The engine is killed: its git dies with it, or is left running.         *)
Killed ==
  /\ engine # "down" /\ stops < MaxStops
  /\ stops' = stops + 1 /\ Down
  /\ \/ gits' = {g \in gits : ~g.child} /\ UNCHANGED outlived
     \/ /\ gits' = {Orphaned(g) : g \in gits}
        /\ outlived' = outlived \union {g.on : g \in gits}
  /\ UNCHANGED <<disk, maybe, after, used, refused, failed, faults>>

PowerLoss ==
  /\ stops < MaxStops
  /\ stops' = stops + 1 /\ Down /\ gits' = {}
  /\ disk' \in maybe /\ maybe' = {disk'}
  /\ refused' = {}
  /\ UNCHANGED <<after, used, outlived, failed, faults>>

OpenSteps(n) ==
  \/ SyncIntent(n) \/ SyncIntentFails(n) \/ MakePath(n) \/ MakeHooks(n)
  \/ MakeFails(n) \/ AddWorktree(n) \/ Open(n) \/ VerifyRefuses(n)

CloseSteps(n) ==
  \/ RemoveWorktree(n) \/ CleanupFails(n) \/ StillRegistered(n) \/ Confirm(n)
  \/ DeleteDirs(n) \/ UnlinkIntent(n) \/ SyncUnlink(n)

GitSteps ==
  \E g \in gits :
    \/ Register(g) \/ Populate(g) \/ Checkout(g) \/ Unlock(g) \/ AddFails(g)
    \/ RemoveRefused(g) \/ RemoveStarts(g) \/ RemoveTree(g) \/ RemoveFails(g)
    \/ Forget(g)

Reclaim == (\E n \in Names : ReclaimNext(n)) \/ ReclaimDone \/ ReclaimFails

SnapSteps ==
  (\E n \in Names : OpenSteps(n) \/ CloseSteps(n)) \/ GitSteps \/ Reclaim
-----------------------------------------------------------------------------
(* Nothing is left behind that a resume could not find: whatever git has   *)
(* registered has an intent, on the disk as it is and on any disk a power  *)
(* loss could bring back.  Only a git that outlived its engine can break   *)
(* this, by registering after the reclaim looked (workspace.rs: "The       *)
(* intent is synced before Git registers the worktree").                   *)
NothingOrphaned ==
  \A d \in maybe \union {disk} : \A n \in Names \ outlived :
    d[n].reg # "none" => d[n].intent

(* Gates and reviewers see the captured tree and nothing else, in a        *)
(* worktree git knows, until they change it themselves.                    *)
LiveIsIntact ==
  \A n \in Names : At("live", n) /\ n \notin outlived =>
    disk[n].intent /\ disk[n].hooks /\ disk[n].reg = "done"
    /\ disk[n].dir \in {"tree", "used"}

(* What git will not remove: an entry locked by an add that was cut off,   *)
(* or a tree some of which a cut-off remove already took.                  *)
Stuck(n) == disk[n].reg = "locked" \/ (disk[n].reg = "done" /\ disk[n].dir = "part")

(* A resume is refused over a leftover only when git was once cut off in   *)
(* it, or when its own cleanup met an operation that failed.               *)
RefusedOnlyIfStuck ==
  \A n \in refused : Stuck(n) \/ n \in outlived \/ n \in failed

(* No work starts over leftovers: an engine past its resume has at most    *)
(* the snapshot in hand, and what its own Drop could not take away, git or *)
(* an operation of the cleanup having failed.                              *)
CleanBeforeWork ==
  engine = "working" /\ Resting =>
    \A n \in Names : disk[n].intent => Stuck(n) \/ n \in outlived \/ n \in failed

(* DESIGN.md:402 says "resume reclaims every such registration before it   *)
(* switches branches or dispatches another worker".                        *)
ResumeReclaimsEvery ==
  \A n \in Names : (engine = "down" /\ disk[n].intent) ~> ~disk[n].intent

(* Snapshots are never lost track of: what git has registered has an       *)
(* intent, a resume takes it away before any work, and it is left, or a    *)
(* resume refused over it, only where git was cut off or the cleanup       *)
(* itself failed.                                                          *)
SnapshotsAccountedFor == NothingOrphaned /\ RefusedOnlyIfStuck /\ CleanBeforeWork
=============================================================================
