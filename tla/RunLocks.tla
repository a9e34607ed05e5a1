------------------------------ MODULE RunLocks -------------------------------
(* Who may drive a run: the worktree lease, the run's lock and the cleanup   *)
(* lease of rundir.rs, taken by threads of several processes, together with  *)
(* the liveness probe `is_running`.                                          *)
(*                                                                           *)
(* The OS lock of a file belongs to a process: it does not exclude another   *)
(* thread of it, and it goes when the process closes ANY descriptor of that  *)
(* file.  The claims of a process exclude its own threads from each other.   *)
(* The cleanup lease is of the other kind, held by an open file: exclusively *)
(* for an instant by whoever asks whether it is free, and shared by the      *)
(* reaper of every live agent, which outlives a conductor that is killed.    *)
EXTENDS Naturals, FiniteSets

CONSTANTS
  Conductors, Probers,  \* threads that drive runs, threads that ask is_running
  Process,              \* the processes
  ProcessOf,            \* the process of each thread
  Runs,                 \* the runs of the one worktree
  NoProcess,
  LocksCanFail,         \* whether a lock call may fail without an answer
  MaxKills              \* bound: processes killed

Threads == Conductors \cup Probers

ASSUME ThreadsHaveProcesses ==
  ProcessOf \in [Threads -> Process] /\ NoProcess \notin Process /\ MaxKills \in Nat

Worktree == "worktree"

\* The commands that ask (status, answer, export) drive no run of their own.
ASSUME AskersDriveNothing ==
  /\ Conductors \cap Probers = {}
  /\ \A t \in Conductors, u \in Probers : ProcessOf[t] # ProcessOf[u]

ASSUME FilesAndThreads == Worktree \notin Runs /\ IsFiniteSet(Threads)

Keys == Runs \cup {Worktree}

VARIABLES
  claims,   \* the keys each process claims for its threads
  owner,    \* the process that has the OS lock of each lock file
  probing,  \* the threads that have a run's cleanup lease exclusively
  orphans,  \* reapers of killed conductors still at work, per run
  thread,   \* each thread: where it is, on which run, and what is left to scan
  quiet,    \* ghost: the probed run was free at some instant of the probe
  kills

vars == <<claims, owner, probing, orphans, thread, quiet, kills>>

Idle == [at |-> "idle", run |-> Worktree, scan |-> {}, reaper |-> FALSE, said |-> "none"]

Init ==
  /\ claims = [p \in Process |-> {}]
  /\ owner = [k \in Keys |-> NoProcess]
  /\ probing = [r \in Runs |-> {}]
  /\ orphans = [r \in Runs |-> 0]
  /\ thread = [t \in Threads |-> Idle]
  /\ quiet = [t \in Threads |-> FALSE]
  /\ kills = 0

Goto(t, place) == thread' = [thread EXCEPT ![t].at = place]

Key(t, place) == IF place \in {"claim worktree", "lock worktree", "close worktree",
                               "unclaim worktree"} THEN Worktree ELSE thread[t].run

(* ------------------------------ the leases ------------------------------- *)

LeaseFree_Fault(r) ==
  orphans[r] = 0 /\ \A t \in Conductors : ~(thread[t].reaper /\ thread[t].run = r)

\* flock(LOCK_EX | LOCK_NB) on the cleanup lease: reapers and other askers
\* are in its way.
LeaseFree(r) ==
  /\ probing[r] = {} /\ orphans[r] = 0
  /\ \A t \in Conductors : ~(thread[t].reaper /\ thread[t].run = r)

TakeLease(t, r) == probing' = [probing EXCEPT ![r] = @ \cup {t}]
DropLease(t, r) == probing' = [probing EXCEPT ![r] = @ \ {t}]

(* -------------------------- acquiring and driving ------------------------ *)

\* run_harness and resume_harness take the worktree first, then the run.
Begin(t) ==
  /\ t \in Conductors /\ thread[t].at = "idle"
  /\ \E r \in Runs : thread' = [thread EXCEPT ![t] = [Idle EXCEPT !.at = "claim worktree",
                                                                  !.run = r]]
  /\ UNCHANGED <<claims, owner, probing, orphans, kills>>

Claimed_Fault(p, k) == FALSE
Claimed(p, k) == k \in claims[p]

\* The process's own claims answer before the OS is asked.
Claim(t) ==
  /\ thread[t].at \in {"claim worktree", "claim run"}
  /\ LET k == Key(t, thread[t].at)  p == ProcessOf[t] IN
       IF Claimed(p, k)
         THEN /\ Goto(t, IF k = Worktree THEN "idle" ELSE "close worktree")
              /\ UNCHANGED claims
         ELSE /\ claims' = [claims EXCEPT ![p] = @ \cup {k}]
              /\ Goto(t, IF k = Worktree THEN "lock worktree" ELSE "lock run")
  /\ UNCHANGED <<owner, probing, orphans, kills>>

\* imp::take.  Another process's lock refuses; one's own never does.
Lock(t) ==
  /\ thread[t].at \in {"lock worktree", "lock run"}
  /\ LET k == Key(t, thread[t].at)  p == ProcessOf[t] IN
       \/ /\ owner[k] \in {NoProcess, p}
          /\ owner' = [owner EXCEPT ![k] = p]
          /\ thread' = [thread EXCEPT ![t].at = IF k = Worktree THEN "scan" ELSE "take",
                                      ![t].scan = IF k = Worktree THEN Runs ELSE {}]
       \/ /\ owner[k] \notin {NoProcess, p} \/ LocksCanFail
          /\ Goto(t, IF k = Worktree THEN "unclaim worktree" ELSE "unclaim run")
          /\ UNCHANGED owner
  /\ UNCHANGED <<claims, probing, orphans, kills>>

\* What a scan still has to ask about, once the worktree lease is held.
Scan_Fault(t) == thread[t].scan \cap {r \in Runs : owner[r] # NoProcess}
Scan(t) == thread[t].scan

\* WorktreeLock::acquire_in: is any run's reaper still at work here?
ScanLease(t) ==
  /\ thread[t].at = "scan" /\ \A r \in Runs : t \notin probing[r]
  /\ IF Scan(t) = {}
       THEN Goto(t, "claim run") /\ UNCHANGED probing
       ELSE \E r \in Scan(t) :
              IF LeaseFree(r)
                THEN /\ TakeLease(t, r)
                     /\ thread' = [thread EXCEPT ![t].scan = @ \ {r}]
                ELSE Goto(t, "close worktree") /\ UNCHANGED probing
  /\ UNCHANGED <<claims, owner, orphans, kills>>

\* cleanup::take, under the run's lock.
TakeCleanup(t) ==
  /\ thread[t].at = "take" /\ t \notin probing[thread[t].run]
  /\ IF LeaseFree(thread[t].run)
       THEN TakeLease(t, thread[t].run) /\ Goto(t, "driving")
       ELSE Goto(t, "close run") /\ UNCHANGED probing
  /\ UNCHANGED <<claims, owner, orphans, kills>>

\* The lease is not retained: only its absence was wanted.
Unlease(t) ==
  /\ \E r \in Runs : t \in probing[r] /\ DropLease(t, r)
  /\ UNCHANGED <<claims, owner, orphans, thread, kills>>

Driving(t) == thread[t].at = "driving" /\ \A r \in Runs : t \notin probing[r]

\* spawn_reaper: the reaper of an agent takes the shared side before the agent
\* exists.  An asker in its way fails the launch, and with it the run.
StartAgent(t) ==
  /\ Driving(t) /\ ~thread[t].reaper
  /\ IF probing[thread[t].run] = {}
       THEN thread' = [thread EXCEPT ![t].reaper = TRUE]
       ELSE Goto(t, "close run")
  /\ UNCHANGED <<claims, owner, probing, orphans, kills>>

\* Supervisor::finish waits for the reaper.
AgentSettled(t) ==
  /\ thread[t].reaper
  /\ thread' = [thread EXCEPT ![t].reaper = FALSE]
  /\ UNCHANGED <<claims, owner, probing, orphans, kills>>

StopDriving(t) ==
  /\ Driving(t) /\ ~thread[t].reaper
  /\ Goto(t, "close run")
  /\ UNCHANGED <<claims, owner, probing, orphans, kills>>

\* Closing a descriptor gives away the process's lock on the file, whoever in
\* the process took it.
Closed(k, p) == [owner EXCEPT ![k] = IF @ = p THEN NoProcess ELSE @]

Gives_Fault(place) == IF place \in {"close run", "close worktree"} THEN "claim" ELSE "file"

\* release_claim_after_file: the file first, the claim after it.
Gives(place) == IF place \in {"close run", "close worktree"} THEN "file" ELSE "claim"

AfterGiving_Fault(place) ==
  CASE place = "close run" -> "close worktree"
    [] place = "unclaim run" -> "close worktree"
    [] place = "close worktree" -> "unclaim worktree"
    [] place = "unclaim worktree" -> "idle"

AfterGiving(place) ==
  CASE place = "close run" -> "unclaim run"
    [] place = "unclaim run" -> "close worktree"
    [] place = "close worktree" -> "unclaim worktree"
    [] place = "unclaim worktree" -> "idle"

Release(t) ==
  LET place == thread[t].at  k == Key(t, place)  p == ProcessOf[t] IN
  /\ place \in {"close run", "unclaim run", "close worktree", "unclaim worktree"}
  /\ IF Gives(place) = "file"
       THEN owner' = Closed(k, p) /\ UNCHANGED claims
       ELSE claims' = [claims EXCEPT ![p] = @ \ {k}] /\ UNCHANGED owner
  /\ Goto(t, AfterGiving(place))
  /\ UNCHANGED <<probing, orphans, kills>>

(* ----------------------------- the probe --------------------------------- *)

Say(t, answer) ==
  thread' = [thread EXCEPT ![t].at = "idle", ![t].said = answer]

\* is_running: the claims first ...
Ask(t) ==
  /\ t \in Probers /\ thread[t].at = "idle"
  /\ \E r \in Runs :
       thread' = [thread EXCEPT ![t] =
         IF r \in claims[ProcessOf[t]] THEN [Idle EXCEPT !.run = r, !.said = "running"]
                                       ELSE [Idle EXCEPT !.run = r, !.at = "query"]]
  /\ UNCHANGED <<claims, owner, probing, orphans, kills>>

\* ... then F_GETLK, which takes nothing and does not see the asker's own
\* process; an answer that cannot be had counts as running ...
Query(t) ==
  /\ thread[t].at = "query"
  /\ LET k == thread[t].run  p == ProcessOf[t] IN
       \/ /\ owner[k] \in {NoProcess, p}
          /\ Goto(t, "ask lease")
          /\ UNCHANGED owner
       \/ /\ owner[k] \notin {NoProcess, p} \/ LocksCanFail
          /\ Say(t, "running")
          /\ owner' = Closed(k, p)
  /\ UNCHANGED <<claims, probing, orphans, kills>>

AnswerFor_Fault(r) == "dead"
AnswerFor(r) == IF LeaseFree(r) THEN "dead" ELSE "running"

\* ... then the cleanup lease, by trying to have it ...
AskLease(t) ==
  /\ thread[t].at = "ask lease"
  /\ LET r == thread[t].run IN
       /\ IF LeaseFree(r) THEN TakeLease(t, r) ELSE UNCHANGED probing
       /\ thread' = [thread EXCEPT ![t].at = "close probe", ![t].said = AnswerFor(r)]
  /\ UNCHANGED <<claims, owner, orphans, kills>>

\* ... and last the descriptor of the lock file is closed.
CloseProbe(t) ==
  /\ thread[t].at = "close probe" /\ t \notin probing[thread[t].run]
  /\ owner' = Closed(thread[t].run, ProcessOf[t])
  /\ Goto(t, "idle")
  /\ UNCHANGED <<claims, probing, orphans, kills>>

(* ------------------------------- together -------------------------------- *)

\* A process is killed.  The OS releases its locks; the reapers of its agents
\* go on.  A reaper that had no agent yet leaves by itself.
Kill(p) ==
  LET mine == {t \in Threads : ProcessOf[t] = p} IN
  /\ kills < MaxKills /\ \E t \in mine : thread[t].at # "idle"
  /\ kills' = kills + 1
  /\ claims' = [claims EXCEPT ![p] = {}]
  /\ owner' = [k \in Keys |-> IF owner[k] = p THEN NoProcess ELSE owner[k]]
  /\ probing' = [r \in Runs |-> probing[r] \ mine]
  /\ orphans' = [r \in Runs |->
       orphans[r] + Cardinality({t \in mine : thread[t].reaper /\ thread[t].run = r})]
  /\ thread' = [t \in Threads |-> IF t \in mine THEN Idle ELSE thread[t]]

\* A crash reaper has seen its whole group dead.
OrphanDone ==
  /\ \E r \in Runs : orphans[r] > 0 /\ orphans' = [orphans EXCEPT ![r] = @ - 1]
  /\ UNCHANGED <<claims, owner, probing, thread, kills>>

\* Nobody drives r, and no agent of it is left.
FreeIn(r, left, threads) ==
  left[r] = 0 /\ \A t \in Conductors : ~(threads[t].at = "driving" /\ threads[t].run = r)

\* Has the run a probe asks about been free at some instant since it began?
Watch ==
  quiet' = [t \in Threads |->
    IF t \notin Probers \/ thread'[t].run \notin Runs THEN FALSE
    ELSE IF thread[t] = thread'[t] /\ thread[t].at = "idle" THEN quiet[t]
    ELSE \/ quiet[t] /\ thread[t].at # "idle"
         \/ FreeIn(thread'[t].run, orphans', thread')]

Next ==
  /\ \/ \E t \in Threads :
          \/ Begin(t) \/ Claim(t) \/ Lock(t) \/ ScanLease(t) \/ TakeCleanup(t) \/ Unlease(t)
          \/ StartAgent(t) \/ AgentSettled(t) \/ StopDriving(t) \/ Release(t)
          \/ Ask(t) \/ Query(t) \/ AskLease(t) \/ CloseProbe(t)
     \/ \E p \in Process : Kill(p)
     \/ OrphanDone
  /\ Watch

Spec == Init /\ [][Next]_vars

(* ------------------------------- properties ------------------------------ *)

\* The types; the exclusive side of a cleanup lease has one holder at most.
TypeOK ==
  /\ claims \in [Process -> SUBSET Keys] /\ owner \in [Keys -> Process \cup {NoProcess}]
  /\ probing \in [Runs -> SUBSET Threads] /\ \A r \in Runs : Cardinality(probing[r]) <= 1
  /\ orphans \in [Runs -> Nat]
  /\ \A t \in Threads : thread[t].said \in {"none", "running", "dead"}
  /\ quiet \in [Threads -> BOOLEAN] /\ kills \in 0..MaxKills

\* Two engines never drive one worktree, and so never one run: not two
\* processes, which the OS lock separates, and not two threads of one process,
\* which it does not.
OneDriver ==
  \A t, u \in Conductors : thread[t].at = "driving" /\ thread[u].at = "driving" => t = u

\* Whoever drives has the OS locks as long as it drives: no other thread of its
\* process, releasing or giving up a lock of its own, closes a descriptor that
\* takes them away behind its back.
LocksNotStripped ==
  \A t \in Conductors : thread[t].at = "driving" =>
    owner[Worktree] = ProcessOf[t] /\ owner[thread[t].run] = ProcessOf[t]

\* A conductor that was killed hands its worktree on only when the last of its
\* agents is gone: nobody drives any run of the worktree while a crash reaper
\* of any of them is at work.
AgentsDoNotOverlap ==
  \A t \in Conductors : thread[t].at = "driving" => \A r \in Runs : orphans[r] = 0

\* A probe that says "dead" is right: between its question and its answer there
\* was an instant at which nobody drove the run and no agent of it was left.
DeadWasDead == \A t \in Probers : thread[t].said = "dead" => quiet[t]

\* Nothing is left to clear by hand: when nobody is in the middle of anything,
\* no claim and no lock is held, whatever was refused, given up or killed.
NothingStale ==
  (\A t \in Threads : thread[t].at = "idle") =>
    /\ \A p \in Process : claims[p] = {}
    /\ \A k \in Keys : owner[k] = NoProcess

\* status.rs (422) says of the probe that "the lock now answers exactly": a probe that
\* says "running" for the cleanup lease met a conductor or a reaper, not merely
\* another probe, which has the lease for the instant it takes to ask.
RunningWasRunning ==
  [][\A t \in Probers :
       thread[t].at = "ask lease" /\ thread'[t].said = "running" =>
         owner[thread[t].run] # NoProcess \/ orphans[thread[t].run] > 0]_vars

\* The locks follow the driver: while one drives it is alone and has them, and
\* when nobody does nothing is held, whatever was refused, failed or killed.
LocksFollowTheDriver == TypeOK /\ OneDriver /\ LocksNotStripped /\ NothingStale
==============================================================================
