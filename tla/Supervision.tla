----------------------------- MODULE Supervision -----------------------------
(* One agent process under supervision on Unix, as agent/proc.rs runs it: a  *)
(* caller thread that launches and waits, the signal monitor thread beside   *)
(* it, the cleanup reaper in a process of its own, the agent with its group, *)
(* and a kernel that kills, reaps and may give a free group id to a stranger.*)
(*                                                                           *)
(* A SIGKILL first dooms its target, which runs no more of its own code, and *)
(* takes effect later.  A group id is free when no process and no zombie     *)
(* carries it any longer.                                                    *)
EXTENDS Naturals, FiniteSets

CONSTANTS
  Callers,      \* threads of the conductor that supervise an agent
  MaxFaults,    \* bound: SIGKILLs of the conductor and of reapers
  ReaperFault   \* when a reaper may be killed: "never", "early", "always"

ASSUME FaultsAreKnown ==
  MaxFaults \in Nat /\ ReaperFault \in {"never", "early", "always"}

VARIABLES
  conductor,   \* "alive" or "gone"
  pending,     \* PENDING_TERMINATION is set
  monitor,     \* where the signal monitor is
  state,       \* State: spawning, groups, terminating, and the signal leases
  call,        \* each caller: where it is and what it will return
  request,     \* the frame in a reaper's command pipe
  reply,       \* the byte in its acknowledgement pipe
  reaper,      \* each cleanup reaper
  leader,      \* the agent's direct process
  own,         \* ghost: the leader ended by itself
  kin,         \* a descendant of it
  anchor,      \* the stopped process that pins the group for the reaper
  pressed,     \* what the caller will see: timeout passed, output over limit
  stranger,    \* an unrelated group has the agent's number
  hit,         \* ghost: a signal of ours reached that group
  faults

threads == <<pending, monitor, state, call>>
pipes == <<request, reply, reaper>>
family == <<leader, own, kin, anchor, stranger, hit>>
vars == <<conductor, threads, pipes, family, pressed, faults>>

Init ==
  /\ conductor = "alive" /\ pending = FALSE /\ monitor = "watch" /\ faults = 0
  /\ state = [spawning |-> 0, groups |-> {}, leased |-> {}, terminating |-> FALSE]
  /\ call = [c \in Callers |-> [at |-> "idle", outcome |-> "none"]]
  /\ request = [c \in Callers |-> "none"] /\ reply = [c \in Callers |-> "none"]
  /\ reaper = [c \in Callers |-> "none"]
  /\ leader = [c \in Callers |-> "none"] /\ own = [c \in Callers |-> FALSE]
  /\ kin = [c \in Callers |-> "none"] /\ anchor = [c \in Callers |-> "none"]
  /\ pressed = [c \in Callers |-> {}]
  /\ stranger = [c \in Callers |-> FALSE] /\ hit = [c \in Callers |-> FALSE]

Set(f, c, value) == f' = [f EXCEPT ![c] = value]
Goto(c, place) == call' = [call EXCEPT ![c].at = place]
Return(c, outcome) == call' = [call EXCEPT ![c] = [at |-> "done", outcome |-> outcome]]
ReaperGone(c) == reaper[c] \in {"gone", "killed"}
ReaperAlive(c) == reaper[c] \notin {"none", "gone", "killed"}

\* Someone still carries the group's number.
Pinned(c) ==
  \/ leader[c] \in {"forked", "asking", "running", "doomed", "refused", "zombie"}
  \/ kin[c] \in {"running", "doomed"}
  \/ anchor[c] \in {"stopped", "doomed", "zombie"}

\* kill(-pgid, SIGKILL) to the groups of the callers in cs.
Doom(f, cs, live) == [c \in Callers |-> IF c \in cs /\ f[c] \in live THEN "doomed" ELSE f[c]]
KillGroups(cs) ==
  /\ leader' = Doom(leader, cs, {"forked", "asking", "running"})
  /\ kin' = Doom(kin, cs, {"running"})
  /\ anchor' = Doom(anchor, cs, {"stopped"})
  /\ hit' = [c \in Callers |-> hit[c] \/ (c \in cs /\ stranger[c])]
  /\ UNCHANGED <<own, stranger>>

(* ------------------------------ launching -------------------------------- *)

\* Supervisor::begin: one launch at a time, none once termination is pending.
ClaimLaunch(c) ==
  /\ call[c].at = "idle"
  /\ IF state.terminating \/ pending
       THEN Return(c, "error") /\ UNCHANGED state
       ELSE /\ state.spawning = 0
            /\ state' = [state EXCEPT !.spawning = 1]
            /\ Goto(c, "claimed")
  /\ UNCHANGED <<conductor, pending, monitor, pipes, family, pressed, faults>>

ReleaseLaunch_Fault == UNCHANGED state
ReleaseLaunch == state' = [state EXCEPT !.spawning = 0]

\* spawn_reaper: READY arrives, or the launch is given back -- and where the
\* reaper's answer to a cancel is missing too, termination is armed.
SpawnReaper(c) ==
  /\ call[c].at = "claimed"
  /\ \/ Set(reaper, c, "ready") /\ Goto(c, "reaper") /\ UNCHANGED state
     \/ ReleaseLaunch /\ Return(c, "error") /\ UNCHANGED reaper
  /\ pending' \in {pending, pending \/ call'[c].at = "done"}
  /\ UNCHANGED <<conductor, monitor, request, reply, family, pressed, faults>>

Fork(c) ==
  /\ call[c].at = "reaper"
  /\ Set(leader, c, "forked") /\ Goto(c, "spawning")
  /\ UNCHANGED <<conductor, pending, monitor, state, pipes, own, kin, anchor, stranger, hit,
                 pressed, faults>>

AfterFork_Fault == "running"

\* What the forked child does before it may exec: its own group, then a frame
\* to the reaper and a wait for the answer.
AfterFork == "asking"

PreExec(c) ==
  /\ leader[c] = "forked"
  /\ Set(leader, c, AfterFork)
  /\ Set(request, c, "register")
  /\ UNCHANGED <<conductor, threads, reply, reaper, own, kin, anchor, stranger, hit, pressed,
                 faults>>

\* exec on OK -- which may itself fail -- and no agent without it: a refusal or
\* a reaper that is gone ends the child.
Exec(c) ==
  /\ leader[c] = "asking"
  /\ \/ reply[c] = "ok" /\ leader' \in {[leader EXCEPT ![c] = s] : s \in {"running", "refused"}}
     \/ reply[c] = "fail" /\ Set(leader, c, "refused")
     \/ reply[c] = "none" /\ ReaperGone(c) /\ Set(leader, c, "refused")
  /\ Set(reply, c, "none")
  /\ UNCHANGED <<conductor, threads, request, reaper, own, kin, anchor, stranger, hit, pressed,
                 faults>>

\* Command::spawn returns: with the child, or -- it reaps that one itself --
\* without.  The two are told apart by whether exec happened.
Spawned(c) ==
  /\ call[c].at = "spawning"
  /\ \/ leader[c] = "running" /\ Goto(c, "spawned") /\ UNCHANGED leader
     \/ leader[c] = "refused" /\ Goto(c, "failed") /\ Set(leader, c, "reaped")
     \/ leader[c] = "zombie" /\ Goto(c, "spawned") /\ UNCHANGED leader
  /\ UNCHANGED <<conductor, pending, monitor, state, pipes, own, kin, anchor, stranger, hit,
                 pressed, faults>>

\* Supervisor::register: the launch is over and the monitor knows the group.
Register(c) ==
  /\ call[c].at = "spawned"
  /\ state' = [state EXCEPT !.spawning = 0, !.groups = @ \cup {c}]
  /\ Goto(c, "waiting")
  /\ UNCHANGED <<conductor, pending, monitor, pipes, family, pressed, faults>>

\* Drop of a Supervisor whose spawn failed: CANCEL.
Cancel(c) ==
  /\ call[c].at = "failed"
  /\ Set(request, c, "cancel") /\ Goto(c, "cancelling")
  /\ UNCHANGED <<conductor, pending, monitor, state, reply, reaper, family, pressed, faults>>

\* Without an OK -- the reaper is gone, or two seconds brought none and it is
\* left to itself -- the parent cannot know what was registered: it goes down.
Cancelled(c) ==
  /\ call[c].at = "cancelling"
  /\ \/ ReaperGone(c) /\ pending' = (pending \/ reply[c] # "ok")
     \/ pending' = TRUE
  /\ ReleaseLaunch /\ Return(c, "error")
  /\ UNCHANGED <<conductor, monitor, pipes, family, pressed, faults>>

(* ------------------------------- waiting --------------------------------- *)

Verdict_Fault(c) ==
  IF "late" \in pressed[c] THEN "exit" ELSE IF leader[c] = "zombie" THEN "exit"
  ELSE IF "flood" \in pressed[c] THEN "limited" ELSE "none"

\* The poll of run_with_timeout_and_limit, in its order: an exit that can be
\* seen wins over a limit, and a limit over the clock.
Verdict(c) ==
  IF leader[c] = "zombie" THEN "exit"
  ELSE IF "flood" \in pressed[c] THEN "limited"
  ELSE IF "late" \in pressed[c] THEN "timeout" ELSE "none"

\* However it ends -- a failing waitid included -- the reaper is asked to clean
\* up while the leader is still unreaped.
Poll(c) ==
  /\ call[c].at = "waiting"
  /\ \E outcome \in {Verdict(c), "error"} \ {"none"} :
       call' = [call EXCEPT ![c] = [at |-> "finish", outcome |-> outcome]]
  /\ Set(request, c, "cleanup")
  /\ UNCHANGED <<conductor, pending, monitor, state, reply, reaper, family, pressed, faults>>

\* Supervisor::finish: the answer, and the reaper's exit after it.
Finished(c) ==
  /\ call[c].at = "finish" /\ ReaperGone(c)
  /\ IF reply[c] = "ok" THEN Goto(c, "unpin") /\ UNCHANGED pending
                        ELSE Goto(c, "unsettled") /\ pending' = TRUE
  /\ UNCHANGED <<conductor, monitor, state, pipes, family, pressed, faults>>

MayForget_Fault(c) == TRUE

\* remove_unpinned_group: not while the monitor is about to signal it.
MayForget(c) == c \notin state.leased

Forget(c) ==
  /\ call[c].at = "unpin" /\ MayForget(c)
  /\ state' = [state EXCEPT !.groups = @ \ {c}]
  /\ Goto(c, "reap")
  /\ UNCHANGED <<conductor, pending, monitor, pipes, family, pressed, faults>>

\* child.kill and child.wait: the group's number may be free after this.  A
\* finish that failed takes the same two calls and returns its error.
Reap(c) ==
  /\ call[c].at \in {"reap", "unsettled"}
  /\ \/ leader[c] \in {"running", "doomed"} /\ Set(leader, c, "zombie") /\ UNCHANGED call
     \/ /\ leader[c] = "zombie" /\ Set(leader, c, "reaped")
        /\ IF call[c].at = "reap" THEN Goto(c, "drain") ELSE Return(c, "error")
  /\ UNCHANGED <<conductor, pending, monitor, state, pipes, own, kin, anchor, stranger, hit,
                 pressed, faults>>

DrainOver_Fault(c) == kin[c] # "escaped"

\* Drain::collect and the stdin thread: the end of the pipes or of the grace,
\* whichever is first.
DrainOver(c) == TRUE

\* A limit exceeded is reported even if the drains only showed it now.
Drain(c) ==
  /\ call[c].at = "drain" /\ DrainOver(c)
  /\ Return(c, IF call[c].outcome = "exit" /\ "flood" \in pressed[c] THEN "limited"
               ELSE call[c].outcome)
  /\ UNCHANGED <<conductor, pending, monitor, state, pipes, family, pressed, faults>>

Caller(c) ==
  /\ conductor = "alive"
  /\ \/ ClaimLaunch(c) \/ SpawnReaper(c) \/ Fork(c) \/ Spawned(c) \/ Register(c)
     \/ Cancel(c) \/ Cancelled(c) \/ Poll(c) \/ Finished(c) \/ Forget(c) \/ Reap(c) \/ Drain(c)

(* ------------------------------- the monitor ----------------------------- *)

\* groups_when_registered: waits out a launch, and pins what it is to signal.
Snapshot ==
  /\ monitor = "watch" /\ pending /\ state.spawning = 0
  /\ state' = [state EXCEPT !.terminating = TRUE, !.leased = state.groups]
  /\ monitor' = "kill"
  /\ UNCHANGED <<conductor, pending, call, pipes, family, pressed, faults>>

KillAll ==
  /\ monitor = "kill"
  /\ KillGroups(state.leased)
  /\ monitor' = "raise"
  /\ UNCHANGED <<conductor, pending, state, call, pipes, pressed, faults>>

\* The original signal, with its default effect.
Raise ==
  /\ monitor = "raise" /\ conductor' = "gone"
  /\ UNCHANGED <<threads, pipes, family, pressed, faults>>

Monitor == conductor = "alive" /\ (Snapshot \/ KillAll \/ Raise)

(* ------------------------------- the reaper ------------------------------ *)

Orphaned_Fault == FALSE

\* Reparenting is what tells a reaper that its conductor is gone.
Orphaned == conductor = "gone"

\* reaper_loop, in its order: the parent first, the frame second.
Leave(c) ==
  /\ reaper[c] = "ready" /\ Orphaned
  /\ Set(reaper, c, "gone")
  /\ UNCHANGED <<conductor, threads, request, reply, family, pressed, faults>>

\* The anchor joins the group before the answer is given.
Anchor(c) ==
  /\ reaper[c] = "ready" /\ ~Orphaned /\ request[c] = "register"
  /\ Set(request, c, "none")
  /\ \/ /\ leader[c] \in {"asking", "running"}
        /\ Set(reaper, c, "anchored") /\ Set(anchor, c, "stopped") /\ Set(reply, c, "ok")
     \/ Set(reply, c, "fail") /\ UNCHANGED <<reaper, anchor>>
  /\ UNCHANGED <<conductor, threads, leader, own, kin, stranger, hit, pressed, faults>>

\* CANCEL with nothing registered.
CancelNothing(c) ==
  /\ reaper[c] = "ready" /\ ~Orphaned /\ request[c] = "cancel"
  /\ Set(request, c, "none") /\ Set(reply, c, "ok") /\ Set(reaper, c, "gone")
  /\ UNCHANGED <<conductor, threads, family, pressed, faults>>

\* cleanup_reaper_group: kill, and kill again until a scan of the processes
\* shows nothing of the group but zombies.  A scan can also fail to tell.
Sweep(c) ==
  /\ \/ reaper[c] = "anchored" /\ (Orphaned \/ request[c] \in {"cleanup", "cancel"})
     \/ reaper[c] = "sweeping"
  /\ Set(reaper, c, "sweeping")
  /\ KillGroups({c})
  /\ UNCHANGED <<conductor, threads, request, reply, pressed, faults>>

OnlyZombies_Fault(c) == TRUE

\* group_has_non_zombie_members = Some(false)
OnlyZombies(c) ==
  /\ leader[c] \notin {"forked", "asking", "running", "doomed"}
  /\ kin[c] \notin {"running", "doomed"} /\ anchor[c] \notin {"stopped", "doomed"}

\* Only then is the anchor reaped, which may free the number.
Swept(c) ==
  /\ reaper[c] = "sweeping" /\ OnlyZombies(c)
  /\ Set(reaper, c, "swept") /\ Set(anchor, c, "gone")
  /\ UNCHANGED <<conductor, threads, request, reply, leader, own, kin, stranger, hit, pressed,
                 faults>>

Exit(c) ==
  /\ reaper[c] = "swept"
  /\ Set(reaper, c, "gone")
  /\ Set(reply, c, IF request[c] \in {"cleanup", "cancel"} THEN "ok" ELSE reply[c])
  /\ Set(request, c, "none")
  /\ UNCHANGED <<conductor, threads, family, pressed, faults>>

Reaper(c) == Leave(c) \/ Anchor(c) \/ CancelNothing(c) \/ Sweep(c) \/ Swept(c) \/ Exit(c)

(* --------------------------- agent and kernel ---------------------------- *)

\* A doomed process dies; nobody's zombies are reaped by init.
Die(c) ==
  /\ \/ leader[c] = "doomed" /\ Set(leader, c, "zombie") /\ UNCHANGED <<kin, anchor>>
     \/ kin[c] = "doomed" /\ Set(kin, c, "gone") /\ UNCHANGED <<leader, anchor>>
     \/ /\ anchor[c] = "doomed"
        /\ Set(anchor, c, IF reaper[c] = "killed" THEN "gone" ELSE "zombie")
        /\ UNCHANGED <<leader, kin>>
     \/ /\ leader[c] \in {"refused", "zombie"} /\ conductor = "gone" /\ Set(leader, c, "reaped")
        /\ UNCHANGED <<kin, anchor>>
  /\ UNCHANGED <<conductor, threads, pipes, own, stranger, hit, pressed, faults>>

\* The agent exits, starts a descendant, and a descendant ends or -- outside
\* what a host runner contains -- leaves the group and keeps the pipes.
Agent(c) ==
  /\ \/ leader[c] = "running" /\ Set(leader, c, "zombie") /\ Set(own, c, TRUE) /\ UNCHANGED kin
     \/ /\ leader[c] = "running" /\ kin[c] = "none" /\ Set(kin, c, "running")
        /\ UNCHANGED <<leader, own>>
     \/ /\ kin[c] = "running" /\ kin' \in {[kin EXCEPT ![c] = k] : k \in {"gone", "escaped"}}
        /\ UNCHANGED <<leader, own>>
  /\ UNCHANGED <<conductor, threads, pipes, anchor, stranger, hit, pressed, faults>>

Press(c) ==
  /\ call[c].at = "waiting"
  /\ \E what \in {"late", "flood"} \ pressed[c] :
       pressed' = [pressed EXCEPT ![c] = @ \cup {what}]
  /\ UNCHANGED <<conductor, threads, pipes, family, faults>>

\* A number nobody carries any longer is given to somebody else.
Reuse(c) ==
  /\ leader[c] = "reaped" /\ ~Pinned(c) /\ ~stranger[c]
  /\ Set(stranger, c, TRUE)
  /\ UNCHANGED <<conductor, threads, pipes, leader, own, kin, anchor, hit, pressed, faults>>

Terminate ==
  /\ conductor = "alive" /\ ~pending /\ pending' = TRUE
  /\ UNCHANGED <<conductor, monitor, state, call, pipes, family, pressed, faults>>

KillConductor ==
  /\ conductor = "alive" /\ faults < MaxFaults
  /\ conductor' = "gone" /\ faults' = faults + 1
  /\ UNCHANGED <<threads, pipes, family, pressed>>

KillReaper(c) ==
  /\ faults < MaxFaults /\ ReaperFault # "never"
  /\ \/ reaper[c] \in {"ready", "anchored"}
     \/ ReaperFault = "always" /\ ReaperAlive(c)
  /\ Set(reaper, c, "killed") /\ faults' = faults + 1
  /\ UNCHANGED <<conductor, threads, request, reply, family, pressed>>

Next ==
  \/ Monitor \/ Terminate \/ KillConductor
  \/ \E c \in Callers : Caller(c) \/ PreExec(c) \/ Exec(c) \/ Reaper(c) \/ Die(c) \/ Agent(c)
                          \/ Press(c) \/ Reuse(c) \/ KillReaper(c)

\* Threads and processes that can run do; a clock passes its deadline; the
\* scan of the processes sooner or later gives an answer.
Fairness ==
  /\ WF_vars(Monitor)
  /\ \A c \in Callers :
       /\ WF_vars(Caller(c)) /\ WF_vars(PreExec(c) \/ Exec(c)) /\ WF_vars(Die(c))
       /\ WF_vars(Press(c)) /\ SF_vars(Swept(c))
       /\ WF_vars(Leave(c) \/ Anchor(c) \/ CancelNothing(c) \/ Sweep(c) \/ Exit(c))

Spec == Init /\ [][Next]_vars /\ Fairness

(* ------------------------------- properties ------------------------------ *)

Launching == {"claimed", "reaper", "spawning", "spawned", "failed", "cancelling"}

\* The types, and the count of launches in flight: it is what the monitor waits
\* out, and a launch that is not counted down again would block it for ever.
TypeOK ==
  /\ conductor \in {"alive", "gone"} /\ pending \in BOOLEAN
  /\ monitor \in {"watch", "kill", "raise"}
  /\ state.spawning = Cardinality({c \in Callers : call[c].at \in Launching})
  /\ state.groups \subseteq Callers /\ state.leased \subseteq Callers
  /\ \A c \in Callers :
       /\ call[c].outcome \in {"none", "exit", "limited", "timeout", "error"}
       /\ request[c] \in {"none", "register", "cleanup", "cancel"}
       /\ reply[c] \in {"none", "ok", "fail"}
       /\ reaper[c] \in {"none", "ready", "anchored", "sweeping", "swept", "gone", "killed"}

AgentRuns(c) == leader[c] = "running" \/ kin[c] = "running"

\* No agent runs that nobody owns: at every instant, whoever was killed last,
\* either the conductor lives, with the run's lock, or the agent's reaper does,
\* with the cleanup lease.
NoUnownedAgent == \A c \in Callers : AgentRuns(c) => conductor = "alive" \/ ReaperAlive(c)

\* When the lease of a killed conductor is let go there is nothing left of the
\* agent's group that could still write to the worktree, not even a process
\* that has been sent its SIGKILL and has not died of it yet.
LeaseOutlivesGroup ==
  \A c \in Callers : conductor = "gone" /\ reaper[c] = "gone" =>
    leader[c] \notin {"running", "doomed"} /\ kin[c] \notin {"running", "doomed"}

\* No signal of ours ever reaches a group that merely got the agent's number.
NoStrangerHit == \A c \in Callers : ~hit[c]

\* When a call returns, whichever way, the agent's tree is settled: the direct
\* child reaped and no member of its group left running.
ReturnedMeansSettled ==
  \A c \in Callers : call[c].at = "done" /\ call[c].outcome # "error" =>
    leader[c] = "reaped" /\ kin[c] \notin {"running", "doomed"}

\* An exit status is that of an agent that ended by itself: a timeout that
\* races the exit never turns the supervisor's own SIGKILL into a verdict on
\* the agent.  Only a conductor that is being terminated can see the other.
ExitIsItsOwn ==
  \A c \in Callers : call[c].at = "done" /\ call[c].outcome = "exit" => own[c] \/ pending

\* Every call returns, or the conductor is gone: not a hung agent, not one that
\* never reads or floods its pipes, not an escaped descendant that keeps them
\* open, not a signal in between can hold the caller for ever.
EveryCallReturns ==
  \A c \in Callers : call[c].at # "idle" ~> call[c].at = "done" \/ conductor = "gone"

\* After a kill of the conductor the agent's group dies and the lease is let go
\* without anybody's help.
CrashCleansUp ==
  \A c \in Callers : conductor = "gone" ~> ~AgentRuns(c) /\ ~ReaperAlive(c)

\* While an agent's group has members somebody owns it, with the lock or the
\* lease to show for it; when it has none, its number is nobody's to signal.
GroupIsOwned == TypeOK /\ NoUnownedAgent /\ LeaseOutlivesGroup /\ NoStrangerHit

\* What a call returns is settled and true: the tree is gone, and an exit status
\* is the agent's own, however the deadline and the exit race.
VerdictIsSettled == ReturnedMeansSettled /\ ExitIsItsOwn

\* Supervision ends by itself, in the conductor by a return and after its death
\* by the reaper.
EverythingEnds == EveryCallReturns /\ CrashCleansUp
==============================================================================
