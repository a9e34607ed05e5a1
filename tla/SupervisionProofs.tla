------------------------- MODULE SupervisionProofs -------------------------
(***************************************************************************)
(* Who owns an agent's process group, and when a call may say that it is   *)
(* over: for any number of callers that supervise agents beside one signal *)
(* monitor, and any number of SIGKILLs of the conductor and of reapers.    *)
(* What the code promises only for a single SIGKILL, or only for a reaper  *)
(* that is not killed while it sweeps, is stated under that hypothesis.    *)
(***************************************************************************)
EXTENDS Supervision, FiniteSetTheorems, TLAPS

(* --------------------------- the invariant ----------------------------- *)

Places ==
  Launching \union {"idle", "waiting", "finish", "unpin", "unsettled", "reap", "drain", "done"}

States == [spawning : {0, 1}, groups : SUBSET Callers, leased : SUBSET Callers,
           terminating : BOOLEAN]
Calls == [Callers -> [at : Places, outcome : {"none", "exit", "limited", "timeout", "error"}]]

(* The types of everything, where TypeOK gives only those that matter to a *)
(* reader.                                                                 *)
Types ==
  /\ conductor \in {"alive", "gone"} /\ pending \in BOOLEAN
  /\ monitor \in {"watch", "kill", "raise"} /\ faults \in Nat
  /\ state \in States /\ call \in Calls
  /\ request \in [Callers -> {"none", "register", "cleanup", "cancel"}]
  /\ reply \in [Callers -> {"none", "ok", "fail"}]
  /\ reaper \in [Callers -> {"none", "ready", "anchored", "sweeping", "swept", "gone",
                             "killed"}]
  /\ leader \in [Callers -> {"none", "forked", "asking", "running", "doomed", "refused",
                             "zombie", "reaped"}]
  /\ own \in [Callers -> BOOLEAN] /\ stranger \in [Callers -> BOOLEAN]
  /\ hit \in [Callers -> BOOLEAN]
  /\ kin \in [Callers -> {"none", "running", "doomed", "gone", "escaped"}]
  /\ anchor \in [Callers -> {"none", "stopped", "doomed", "zombie", "gone"}]
  /\ pressed \in [Callers -> SUBSET {"late", "flood"}]

(* The launches that are counted: none, or exactly one.                    *)
Counted ==
  \/ state.spawning = 0 /\ \A c \in Callers : call[c].at \notin Launching
  \/ /\ state.spawning = 1
     /\ \E c \in Callers :
          /\ call[c].at \in Launching
          /\ \A d \in Callers : call[d].at \in Launching => d = c

(* Once the monitor has taken its snapshot it never watches again, nothing *)
(* is launched, and it signals only groups that are still registered.      *)
MonitorIsLast ==
  /\ monitor # "watch" => pending /\ state.spawning = 0
  /\ monitor = "kill" => state.leased \subseteq state.groups

(* No anchor, no agent; and a reaper that has swept leaves neither behind. *)
(* An anchor that is in place stays until the reaper has swept or died.    *)
Anchored(c) ==
  /\ anchor[c] = "none" =>
       /\ leader[c] \in {"none", "forked", "asking", "refused", "reaped"}
       /\ kin[c] = "none"
       /\ reply[c] = "ok" => leader[c] = "reaped"
       /\ c \notin state.groups /\ c \notin state.leased
  /\ leader[c] \in {"none", "forked"} => anchor[c] = "none"
  /\ reaper[c] = "none" => leader[c] = "none" /\ request[c] = "none" /\ reply[c] = "none"
  /\ reaper[c] \in {"none", "ready"} => anchor[c] = "none"
  /\ reaper[c] \in {"anchored", "sweeping"} => anchor[c] \in {"stopped", "doomed", "zombie"}
  /\ reaper[c] = "swept" => anchor[c] # "none"
  /\ reaper[c] \in {"swept", "gone"} /\ anchor[c] # "none" =>
       /\ leader[c] \in {"refused", "zombie", "reaped"}
       /\ kin[c] \notin {"running", "doomed"}
       /\ anchor[c] = "gone"

(* A number given away was free, and stays free of the agent's family.     *)
Free(c) ==
  stranger[c] =>
    /\ leader[c] = "reaped" /\ kin[c] \notin {"running", "doomed"}
    /\ anchor[c] \notin {"stopped", "doomed", "zombie"}

(* What a caller that is on its way back, or back, may rely on.            *)
Returned(c) ==
  /\ call[c].outcome = "exit" => own[c] \/ pending
  /\ call[c].at = "done" /\ call[c].outcome # "error" =>
       leader[c] = "reaped" /\ reaper[c] = "gone" /\ anchor[c] # "none"

(* What the monitor's snapshot is worth: it has every agent there is.      *)
Seized(c) ==
  /\ monitor # "watch" => leader[c] \notin {"forked", "asking"}
  /\ monitor = "kill" /\ AgentRuns(c) => c \in state.leased
  /\ monitor = "raise" => ~AgentRuns(c)

(* While the conductor lives: what each place of the caller's means for    *)
(* the pipes, the reaper and the agent.                                    *)
BeforeSpawn(c) ==
  /\ call[c].at \in {"idle", "claimed"} => reaper[c] = "none" /\ anchor[c] = "none"
  /\ call[c].at = "reaper" =>
       /\ reaper[c] \in {"ready", "killed"} /\ anchor[c] = "none" /\ leader[c] = "none"
       /\ request[c] = "none" /\ reply[c] = "none"

Spawning(c) ==
  call[c].at = "spawning" =>
    /\ leader[c] \in {"forked", "asking", "running", "refused", "zombie"}
    /\ reaper[c] \in {"ready", "anchored", "killed"}
    /\ request[c] \in {"none", "register"}
    /\ request[c] = "register" => reply[c] = "none"
    /\ request[c] = "register" /\ reaper[c] # "killed" =>
         leader[c] = "asking" /\ reaper[c] = "ready"
    /\ leader[c] = "forked" =>
         request[c] = "none" /\ reply[c] = "none" /\ reaper[c] \in {"ready", "killed"}
    /\ leader[c] # "asking" => reply[c] = "none"
    /\ leader[c] \in {"running", "zombie"} =>
         request[c] = "none" /\ reaper[c] \in {"anchored", "killed"}
    /\ leader[c] = "zombie" => own[c]
    /\ leader[c] \in {"forked", "asking", "refused"} => kin[c] = "none"

SpawnFailed(c) ==
  /\ call[c].at \in {"failed", "cancelling"} => leader[c] = "reaped" /\ kin[c] = "none"
  /\ call[c].at = "failed" =>
       /\ reaper[c] \in {"ready", "anchored", "killed"} /\ reply[c] = "none"
       /\ request[c] = "none" \/ (request[c] = "register" /\ reaper[c] = "killed")
  /\ call[c].at = "cancelling" =>
       request[c] = "cancel" \/ (request[c] = "none" /\ ReaperGone(c))

Supervised(c) ==
  /\ call[c].at \in {"spawned", "waiting"} =>
       /\ leader[c] \in {"running", "doomed", "zombie"}
       /\ leader[c] # "running" => own[c] \/ pending
       /\ request[c] = "none" /\ reply[c] = "none" /\ reaper[c] \in {"anchored", "killed"}
  /\ call[c].at \in {"waiting", "finish", "unpin", "unsettled"} => c \in state.groups
  /\ call[c].at = "finish" =>
       /\ leader[c] \in {"running", "doomed", "zombie"}
       /\ reaper[c] \in {"anchored", "sweeping", "swept", "gone", "killed"}
       /\ reaper[c] = "gone" => request[c] = "none" /\ reply[c] = "ok"
       /\ reaper[c] # "gone" => request[c] = "cleanup" /\ reply[c] = "none"

Settling(c) ==
  /\ call[c].at = "unsettled" =>
       leader[c] \in {"running", "doomed", "zombie"} /\ reaper[c] = "killed"
  /\ call[c].at \in {"unpin", "reap"} => leader[c] = "zombie"
  /\ call[c].at = "drain" => leader[c] = "reaped"
  /\ call[c].at \in {"unpin", "reap", "drain"} => reaper[c] = "gone" /\ anchor[c] # "none"
  /\ call[c].at = "done" =>
       /\ leader[c] \in {"none", "reaped"}
       /\ c \in state.groups => reaper[c] = "killed"
       /\ c \notin state.groups => kin[c] \notin {"running", "doomed"}

(* Only a call under way has a reaper that sweeps, and only one that was   *)
(* registered has a group the monitor knows.                               *)
InFlight(c) ==
  /\ reaper[c] \in {"sweeping", "swept"} => call[c].at \in {"finish", "cancelling", "done"}
  /\ request[c] = "cleanup" =>
       call[c].at = "finish" \/ (call[c].at \in {"unsettled", "done"} /\ reaper[c] = "killed")
  /\ request[c] = "cancel" => call[c].at \in {"cancelling", "done"} /\ leader[c] = "reaped"
  /\ c \in state.groups => call[c].at \in {"waiting", "finish", "unpin", "unsettled", "done"}

Table(c) ==
  BeforeSpawn(c) /\ Spawning(c) /\ SpawnFailed(c) /\ Supervised(c) /\ Settling(c) /\ InFlight(c)

(* A kill has its cause, and as long as none was a SIGKILL from outside    *)
(* the conductor is gone only with every agent dead.                       *)
Blamed(c) ==
  /\ faults = 0 => reaper[c] # "killed"
  /\ faults = 0 /\ conductor = "gone" => monitor = "raise"
  /\ ReaperFault = "never" => reaper[c] # "killed"

(* What one SIGKILL, or any number of the conductor, leaves to the reaper. *)
OneKill == MaxFaults <= 1 \/ ReaperFault = "never"

Owned(c) ==
  OneKill /\ conductor = "gone" /\ anchor[c] # "none"
    /\ (leader[c] \in {"asking", "running"} \/ kin[c] = "running") => ReaperAlive(c)

(* A reaper killed before it sweeps leaves the number pinned.              *)
PinsKept(c) ==
  ReaperFault # "always" =>
    /\ monitor # "raise" /\ reaper[c] \in {"anchored", "killed"} /\ anchor[c] # "none" =>
         anchor[c] = "stopped"
    /\ ~hit[c]

PerCall(c) ==
  /\ Anchored(c) /\ Free(c) /\ Returned(c) /\ Seized(c)
  /\ conductor = "alive" => Table(c)
  /\ Blamed(c) /\ Owned(c) /\ PinsKept(c)

IInv == Types /\ Counted /\ MonitorIsLast /\ \A c \in Callers : PerCall(c)
-----------------------------------------------------------------------------
(* Consequences of the invariant.                                          *)

(* The count of launches in flight is a cardinality.                       *)
LEMMA CountedIsCardinality ==
  ASSUME Types, Counted
  PROVE  state.spawning = Cardinality({c \in Callers : call[c].at \in Launching})
<1> DEFINE L == {c \in Callers : call[c].at \in Launching}
<1>1. CASE state.spawning = 0 /\ \A c \in Callers : call[c].at \notin Launching
  <2>1. L = {}
    BY <1>1
  <2> QED
    BY <1>1, <2>1, FS_EmptySet
<1>2. CASE /\ state.spawning = 1
           /\ \E c \in Callers :
                /\ call[c].at \in Launching
                /\ \A d \in Callers : call[d].at \in Launching => d = c
  <2>1. PICK c \in Callers : /\ call[c].at \in Launching
                             /\ \A d \in Callers : call[d].at \in Launching => d = c
    BY <1>2
  <2>2. L = {c}
    BY <2>1
  <2> QED
    BY <1>2, <2>2, FS_Singleton
<1> QED
  BY <1>1, <1>2 DEF Counted

(* The types, the lease and the verdicts, whatever is killed.              *)
LEMMA IInvGivesTypes == IInv => TypeOK
  BY CountedIsCardinality DEF IInv, TypeOK, Types, States, Calls

LEMMA IInvGivesLease == IInv => LeaseOutlivesGroup
  BY DEF IInv, LeaseOutlivesGroup, PerCall, Anchored

LEMMA IInvGivesVerdict == IInv => VerdictIsSettled
  BY DEF IInv, VerdictIsSettled, ReturnedMeansSettled, ExitIsItsOwn, PerCall,
     Returned, Anchored

(* With one SIGKILL at most, or none of a reaper, every agent has an owner.*)
LEMMA IInvGivesOwner == IInv /\ OneKill => NoUnownedAgent
<1> SUFFICES ASSUME IInv, OneKill, NEW c \in Callers, AgentRuns(c)
             PROVE  conductor = "alive" \/ ReaperAlive(c)
  BY DEF NoUnownedAgent
<1>1. Anchored(c) /\ Owned(c) /\ conductor \in {"alive", "gone"}
  BY DEF IInv, PerCall, Types
<1> QED
  BY <1>1 DEF Anchored, Owned, AgentRuns

(* With no reaper killed while it sweeps, no stranger is hit.              *)
LEMMA IInvGivesNoHit == IInv /\ ReaperFault # "always" => NoStrangerHit
  BY DEF IInv, PerCall, PinsKept, NoStrangerHit

(* Nothing has been launched.                                              *)
LEMMA IInvInit == Init => IInv
<1> SUFFICES ASSUME Init PROVE IInv
  OBVIOUS
<1> USE DEF Init
<1>1. Types
  BY DEF Types, States, Calls, Places
<1>2. Counted
  BY DEF Counted, Launching
<1>3. MonitorIsLast
  BY DEF MonitorIsLast
<1>4. ASSUME NEW c \in Callers PROVE PerCall(c)
  <2>1. Anchored(c) /\ Free(c) /\ Returned(c) /\ Seized(c)
    BY DEF Anchored, Free, Returned, Seized, AgentRuns
  <2>2. Table(c)
    BY DEF Table, BeforeSpawn, Spawning, SpawnFailed, Supervised, Settling,
       InFlight
  <2>3. Blamed(c) /\ Owned(c) /\ PinsKept(c)
    BY DEF Blamed, Owned, PinsKept
  <2> QED
    BY <2>1, <2>2, <2>3 DEF PerCall
<1> QED
  BY <1>1, <1>2, <1>3, <1>4 DEF IInv
-----------------------------------------------------------------------------
(* The steps.                                                              *)

(* A call is not disturbed by a step of another one that leaves the        *)
(* conductor, the monitor and its own registration alone.                  *)
LEMMA OthersKeep ==
  ASSUME NEW d \in Callers, PerCall(d),
         conductor' = conductor, monitor' = monitor, faults' = faults, pending => pending',
         d \in state'.groups <=> d \in state.groups, state'.leased = state.leased,
         call'[d] = call[d], request'[d] = request[d], reply'[d] = reply[d],
         reaper'[d] = reaper[d], leader'[d] = leader[d], own'[d] <=> own[d], kin'[d] = kin[d],
         anchor'[d] = anchor[d], stranger'[d] <=> stranger[d], hit'[d] <=> hit[d]
  PROVE  PerCall(d)'
<1>1. Anchored(d)' /\ Free(d)'
  BY DEF PerCall, Anchored, Free
<1>2. Returned(d)' /\ Seized(d)'
  BY DEF PerCall, Returned, Seized, AgentRuns
<1>3. Blamed(d)' /\ Owned(d)' /\ PinsKept(d)'
  BY DEF PerCall, Blamed, Owned, PinsKept, ReaperAlive
<1>4. ASSUME conductor' = "alive" PROVE Table(d)'
  <2>1. Table(d)
    BY <1>4 DEF PerCall
  <2>2. BeforeSpawn(d)' /\ Spawning(d)' /\ SpawnFailed(d)'
    BY <2>1 DEF Table, BeforeSpawn, Spawning, SpawnFailed, ReaperGone
  <2>3. Supervised(d)' /\ Settling(d)' /\ InFlight(d)'
    BY <2>1 DEF Table, Supervised, Settling, InFlight, ReaperGone
  <2> QED
    BY <2>2, <2>3 DEF Table
<1> QED
  BY <1>1, <1>2, <1>3, <1>4 DEF PerCall

(* The count, where no call enters or leaves the launch.                   *)
LEMMA CountKept ==
  ASSUME Counted, state'.spawning = state.spawning,
         \A d \in Callers : call'[d].at \in Launching <=> call[d].at \in Launching
  PROVE  Counted'
  BY DEF Counted

(* The count, where the one launch is over.                                *)
LEMMA CountOver ==
  ASSUME Counted, state'.spawning = 0, NEW c \in Callers, call[c].at \in Launching,
         call'[c].at \notin Launching, \A d \in Callers : d # c => call'[d] = call[d]
  PROVE  Counted'
  BY DEF Counted



(* A step that moves a call, and leaves pipes and processes alone.         *)
LEMMA MovesKeep ==
  ASSUME NEW c \in Callers, PerCall(c), Returned(c)', Table(c)',
         conductor' = conductor, monitor' = monitor, faults' = faults,
         c \in state'.groups => c \in state.groups \/ anchor[c] # "none",
         state'.leased = state.leased,
         request'[c] = request[c], reply'[c] = reply[c],
         reaper'[c] = reaper[c], leader'[c] = leader[c], kin'[c] = kin[c],
         anchor'[c] = anchor[c], stranger'[c] = stranger[c], hit'[c] = hit[c]
  PROVE  PerCall(c)'
<1>1. Anchored(c)' /\ Free(c)' /\ Seized(c)'
  BY DEF PerCall, Anchored, Free, Seized, AgentRuns
<1>2. Blamed(c)' /\ Owned(c)' /\ PinsKept(c)'
  BY DEF PerCall, Blamed, Owned, PinsKept, ReaperAlive
<1> QED
  BY <1>1, <1>2 DEF PerCall

(* begin: one launch at a time, none once termination is pending.          *)
LEMMA ClaimLaunchKeeps ==
  ASSUME IInv, NEW c \in Callers, conductor = "alive", ClaimLaunch(c)
  PROVE  IInv'
<1> USE DEF ClaimLaunch, Return, Goto, pipes, family
<1>1. CASE state.terminating \/ pending
  <2>1. /\ call[c].at = "idle" /\ UNCHANGED <<state, conductor, pending, monitor,
                                              pipes, family, faults, pressed>>
        /\ call' = [call EXCEPT ![c] = [at |-> "done", outcome |-> "error"]]
    BY <1>1
  <2>2. Types'
    <3>1. call' \in Calls
      BY <2>1 DEF IInv, Types, Calls, Places, Launching
    <3>2. state' \in States
      BY <2>1 DEF IInv, Types, States
    <3> QED
      BY <2>1, <3>1, <3>2 DEF IInv, Types
  <2>3. Counted'
    BY <2>1, CountKept DEF IInv, Types, States, Calls, Launching
  <2>4. MonitorIsLast'
    BY <2>1 DEF IInv, Types, States, MonitorIsLast
  <2>5. PerCall(c)'
    <3>1. /\ PerCall(c)
          /\ call'[c] = [at |-> "done", outcome |-> "error"]
      BY <2>1 DEF IInv, Types, States, Calls, PerCall
    <3>2. Returned(c)'
      BY <2>1, <3>1 DEF PerCall, Returned, Launching, ReaperGone, Anchored
    <3>3. Table(c)'
      BY <2>1, <3>1 DEF PerCall, Table, BeforeSpawn, Spawning, SpawnFailed,
         Supervised, Settling, InFlight, Launching, ReaperGone, Anchored
    <3> QED
      BY <2>1, <3>1, <3>2, <3>3, MovesKeep
  <2>6. ASSUME NEW d \in Callers, d # c PROVE PerCall(d)'
    BY <2>1, <2>6, OthersKeep DEF IInv, Types, States, Calls
  <2> QED
    BY <2>2, <2>3, <2>4, <2>5, <2>6 DEF IInv
<1>2. CASE ~(state.terminating \/ pending)
  <2>1. /\ call[c].at = "idle" /\ UNCHANGED <<conductor, pending, monitor, pipes,
                                              family, faults, pressed>>
        /\ ~pending
        /\ call' = [call EXCEPT ![c].at = "claimed"]
        /\ state.spawning = 0 /\ state' = [state EXCEPT !.spawning = 1]
    BY <1>2
  <2>2. Types'
    <3>1. call' \in Calls
      BY <2>1 DEF IInv, Types, Calls, Places, Launching
    <3>2. state' \in States
      BY <2>1 DEF IInv, Types, States
    <3> QED
      BY <2>1, <3>1, <3>2 DEF IInv, Types
  <2>3. Counted'
    <3>1. /\ state'.spawning = 1 /\ call'[c].at = "claimed"
          /\ \A d \in Callers : d # c => call'[d] = call[d]
      BY <2>1 DEF IInv, Types, States, Calls
    <3> QED
      BY <2>1, <3>1 DEF IInv, Counted, Launching
  <2>4. MonitorIsLast'
    BY <2>1 DEF IInv, Types, States, MonitorIsLast
  <2>5. PerCall(c)'
    <3>1. /\ PerCall(c)
          /\ call'[c].at = "claimed" /\ call'[c].outcome = call[c].outcome
          /\ state'.groups = state.groups
      BY <2>1 DEF IInv, Types, States, Calls, PerCall
    <3>2. Returned(c)'
      BY <2>1, <3>1 DEF PerCall, Returned, Launching, ReaperGone, Anchored
    <3>3. Table(c)'
      BY <2>1, <3>1 DEF PerCall, Table, BeforeSpawn, Spawning, SpawnFailed,
         Supervised, Settling, InFlight, Launching, ReaperGone, Anchored
    <3> QED
      BY <2>1, <3>1, <3>2, <3>3, MovesKeep
  <2>6. ASSUME NEW d \in Callers, d # c PROVE PerCall(d)'
    BY <2>1, <2>6, OthersKeep DEF IInv, Types, States, Calls
  <2> QED
    BY <2>2, <2>3, <2>4, <2>5, <2>6 DEF IInv
<1> QED
  BY <1>1, <1>2

(* spawn_reaper: with a reaper, or the launch is given back.               *)
LEMMA SpawnReaperKeeps ==
  ASSUME IInv, NEW c \in Callers, conductor = "alive", SpawnReaper(c)
  PROVE  IInv'
<1> USE DEF SpawnReaper, ReleaseLaunch, Return, Set, Goto, pipes, family
<1>1. CASE Set(reaper, c, "ready") /\ Goto(c, "reaper") /\ UNCHANGED state
  <2>1. /\ call[c].at = "claimed" /\ UNCHANGED <<state, conductor, monitor, request,
                                                 reply, family, faults, pressed>>
        /\ reaper' = [reaper EXCEPT ![c] = "ready"]
        /\ call' = [call EXCEPT ![c].at = "reaper"]
        /\ pending' \in BOOLEAN /\ (pending => pending')
    BY <1>1 DEF IInv, Types
  <2>2. Types'
    <3>1. call' \in Calls
      BY <2>1 DEF IInv, Types, Calls, Places, Launching
    <3>2. state' \in States
      BY <2>1 DEF IInv, Types, States
    <3> QED
      BY <2>1, <3>1, <3>2 DEF IInv, Types
  <2>3. Counted'
    BY <2>1, CountKept DEF IInv, Types, States, Calls, Launching
  <2>4. MonitorIsLast'
    BY <2>1 DEF IInv, Types, States, MonitorIsLast
  <2>5. PerCall(c)'
    <3>1. /\ PerCall(c)
          /\ call'[c].at = "reaper" /\ call'[c].outcome = call[c].outcome /\ reaper'[c] = "ready"
      BY <2>1 DEF IInv, Types, States, Calls, PerCall
    <3>2. Anchored(c)' /\ Free(c)'
      BY <2>1, <3>1 DEF PerCall, Table, BeforeSpawn, Spawning, SpawnFailed,
         Supervised, Settling, InFlight, Anchored, Free, ReaperGone
    <3>3. Returned(c)' /\ Seized(c)'
      BY <2>1, <3>1 DEF PerCall, Table, BeforeSpawn, Spawning, SpawnFailed,
         Supervised, Settling, InFlight, Anchored, Returned, Seized, AgentRuns
    <3>4. conductor' = "alive" => Table(c)'
      BY <2>1, <3>1 DEF PerCall, Anchored, Returned, Table, BeforeSpawn,
         Spawning, SpawnFailed, Supervised, Settling, InFlight, Launching,
         ReaperGone
    <3>5. Blamed(c)' /\ PinsKept(c)'
      BY <2>1, <3>1 DEF PerCall, Anchored, Table, BeforeSpawn, Blamed, PinsKept
    <3>6. Owned(c)'
      BY <2>1, <3>1 DEF PerCall, Anchored, Owned, ReaperAlive
    <3> QED
      BY <3>2, <3>3, <3>4, <3>5, <3>6 DEF PerCall
  <2>6. ASSUME NEW d \in Callers, d # c PROVE PerCall(d)'
    BY <2>1, <2>6, OthersKeep DEF IInv, Types, States, Calls
  <2> QED
    BY <2>2, <2>3, <2>4, <2>5, <2>6 DEF IInv
<1>2. CASE ReleaseLaunch /\ Return(c, "error") /\ UNCHANGED reaper
  <2>1. /\ call[c].at = "claimed" /\ UNCHANGED <<conductor, monitor, pipes, family,
                                                 faults, pressed>>
        /\ state' = [state EXCEPT !.spawning = 0]
        /\ call' = [call EXCEPT ![c] = [at |-> "done", outcome |-> "error"]]
        /\ pending' \in BOOLEAN /\ (pending => pending')
    BY <1>2 DEF IInv, Types
  <2>2. Types'
    <3>1. call' \in Calls
      BY <2>1 DEF IInv, Types, Calls, Places, Launching
    <3>2. state' \in States
      BY <2>1 DEF IInv, Types, States
    <3> QED
      BY <2>1, <3>1, <3>2 DEF IInv, Types
  <2>3. Counted'
    BY <2>1, CountOver DEF IInv, Types, States, Calls, Launching
  <2>4. MonitorIsLast'
    BY <2>1 DEF IInv, Types, States, MonitorIsLast
  <2>5. PerCall(c)'
    <3>1. /\ PerCall(c)
          /\ call'[c] = [at |-> "done", outcome |-> "error"]
          /\ state'.groups = state.groups
      BY <2>1 DEF IInv, Types, States, Calls, PerCall
    <3>2. Returned(c)'
      BY <2>1, <3>1 DEF PerCall, Returned, Launching, ReaperGone, Anchored
    <3>3. Table(c)'
      BY <2>1, <3>1 DEF PerCall, Table, BeforeSpawn, Spawning, SpawnFailed,
         Supervised, Settling, InFlight, Launching, ReaperGone, Anchored
    <3> QED
      BY <2>1, <3>1, <3>2, <3>3, MovesKeep
  <2>6. ASSUME NEW d \in Callers, d # c PROVE PerCall(d)'
    BY <2>1, <2>6, OthersKeep DEF IInv, Types, States, Calls
  <2> QED
    BY <2>2, <2>3, <2>4, <2>5, <2>6 DEF IInv
<1> QED
  BY <1>1, <1>2

(* fork.                                                                   *)
LEMMA ForkKeeps ==
  ASSUME IInv, NEW c \in Callers, conductor = "alive", Fork(c)
  PROVE  IInv'
<1> USE DEF Fork, Set, Goto, pipes, family
<1>1. /\ call[c].at = "reaper" /\ UNCHANGED <<conductor, pending, monitor, state,
                                              pipes, own, kin, anchor, stranger,
                                              hit, pressed, faults>>
      /\ leader' = [leader EXCEPT ![c] = "forked"]
      /\ call' = [call EXCEPT ![c].at = "spawning"]
      /\ monitor = "watch"
  BY DEF IInv, Types, Counted, Launching, MonitorIsLast
<1>2. Types'
  <2>1. call' \in Calls
    BY <1>1 DEF IInv, Types, Calls, Places, Launching
  <2>2. state' \in States
    BY <1>1 DEF IInv, Types, States
  <2> QED
    BY <1>1, <2>1, <2>2 DEF IInv, Types
<1>3. Counted'
  BY <1>1, CountKept DEF IInv, Types, States, Calls, Launching
<1>4. MonitorIsLast'
  BY <1>1 DEF IInv, Types, States, MonitorIsLast
<1>5. PerCall(c)'
  <2>1. /\ PerCall(c)
        /\ call'[c].at = "spawning" /\ call'[c].outcome = call[c].outcome /\ leader'[c] = "forked"
    BY <1>1 DEF IInv, Types, States, Calls, PerCall
  <2>2. Anchored(c)' /\ Free(c)'
    BY <1>1, <2>1 DEF PerCall, Table, BeforeSpawn, Spawning, SpawnFailed,
       Supervised, Settling, InFlight, Anchored, Free, ReaperGone
  <2>3. Returned(c)' /\ Seized(c)'
    BY <1>1, <2>1 DEF PerCall, Table, BeforeSpawn, Spawning, SpawnFailed,
       Supervised, Settling, InFlight, Anchored, Returned, Seized, AgentRuns
  <2>4. conductor' = "alive" => Table(c)'
    BY <1>1, <2>1 DEF PerCall, Anchored, Returned, Table, BeforeSpawn, Spawning,
       SpawnFailed, Supervised, Settling, InFlight, Launching, ReaperGone
  <2>5. Blamed(c)' /\ PinsKept(c)'
    BY <1>1, <2>1 DEF PerCall, Anchored, Table, BeforeSpawn, Blamed, PinsKept
  <2>6. Owned(c)'
    BY <1>1, <2>1 DEF PerCall, Anchored, Owned, ReaperAlive
  <2> QED
    BY <2>2, <2>3, <2>4, <2>5, <2>6 DEF PerCall
<1>6. ASSUME NEW d \in Callers, d # c PROVE PerCall(d)'
  BY <1>1, <1>6, OthersKeep DEF IInv, Types, States, Calls
<1> QED
  BY <1>2, <1>3, <1>4, <1>5, <1>6 DEF IInv

(* spawn returns, with the child or without.                               *)
LEMMA SpawnedKeeps ==
  ASSUME IInv, NEW c \in Callers, conductor = "alive", Spawned(c)
  PROVE  IInv'
<1> USE DEF Spawned, Set, Goto, pipes, family
<1>1. CASE leader[c] \in {"running", "zombie"} /\ Goto(c, "spawned") /\ UNCHANGED leader
  <2>1. /\ call[c].at = "spawning" /\ UNCHANGED <<conductor, pending, monitor,
                                                  state, pipes, family, pressed,
                                                  faults>>
        /\ leader[c] \in {"running", "zombie"}
        /\ call' = [call EXCEPT ![c].at = "spawned"]
    BY <1>1
  <2>2. Types'
    <3>1. call' \in Calls
      BY <2>1 DEF IInv, Types, Calls, Places, Launching
    <3>2. state' \in States
      BY <2>1 DEF IInv, Types, States
    <3> QED
      BY <2>1, <3>1, <3>2 DEF IInv, Types
  <2>3. Counted'
    BY <2>1, CountKept DEF IInv, Types, States, Calls, Launching
  <2>4. MonitorIsLast'
    BY <2>1 DEF IInv, Types, States, MonitorIsLast
  <2>5. PerCall(c)'
    <3>1. /\ PerCall(c)
          /\ call'[c].at = "spawned" /\ call'[c].outcome = call[c].outcome
      BY <2>1 DEF IInv, Types, States, Calls, PerCall
    <3>2. Returned(c)'
      BY <2>1, <3>1 DEF PerCall, Returned, Launching, ReaperGone, Anchored
    <3>3. Table(c)'
      BY <2>1, <3>1 DEF PerCall, Table, BeforeSpawn, Spawning, SpawnFailed,
         Supervised, Settling, InFlight, Launching, ReaperGone, Anchored
    <3> QED
      BY <2>1, <3>1, <3>2, <3>3, MovesKeep
  <2>6. ASSUME NEW d \in Callers, d # c PROVE PerCall(d)'
    BY <2>1, <2>6, OthersKeep DEF IInv, Types, States, Calls
  <2> QED
    BY <2>2, <2>3, <2>4, <2>5, <2>6 DEF IInv
<1>2. CASE leader[c] = "refused" /\ Goto(c, "failed") /\ Set(leader, c, "reaped")
  <2>1. /\ call[c].at = "spawning" /\ UNCHANGED <<conductor, pending, monitor,
                                                  state, pipes, own, kin, anchor,
                                                  stranger, hit, pressed, faults>>
        /\ leader[c] = "refused" /\ leader' = [leader EXCEPT ![c] = "reaped"]
        /\ call' = [call EXCEPT ![c].at = "failed"]
    BY <1>2
  <2>2. Types'
    <3>1. call' \in Calls
      BY <2>1 DEF IInv, Types, Calls, Places, Launching
    <3>2. state' \in States
      BY <2>1 DEF IInv, Types, States
    <3> QED
      BY <2>1, <3>1, <3>2 DEF IInv, Types
  <2>3. Counted'
    BY <2>1, CountKept DEF IInv, Types, States, Calls, Launching
  <2>4. MonitorIsLast'
    BY <2>1 DEF IInv, Types, States, MonitorIsLast
  <2>5. PerCall(c)'
    <3>1. /\ PerCall(c)
          /\ call'[c].at = "failed" /\ call'[c].outcome = call[c].outcome /\ leader'[c] = "reaped"
      BY <2>1 DEF IInv, Types, States, Calls, PerCall
    <3>2. Anchored(c)' /\ Free(c)'
      BY <2>1, <3>1 DEF PerCall, Table, BeforeSpawn, Spawning, SpawnFailed,
         Supervised, Settling, InFlight, Anchored, Free, ReaperGone
    <3>3. Returned(c)' /\ Seized(c)'
      BY <2>1, <3>1 DEF PerCall, Table, BeforeSpawn, Spawning, SpawnFailed,
         Supervised, Settling, InFlight, Anchored, Returned, Seized, AgentRuns
    <3>4. conductor' = "alive" => Table(c)'
      BY <2>1, <3>1 DEF PerCall, Anchored, Returned, Table, BeforeSpawn,
         Spawning, SpawnFailed, Supervised, Settling, InFlight, Launching,
         ReaperGone
    <3>5. Blamed(c)' /\ PinsKept(c)'
      BY <2>1, <3>1 DEF PerCall, Anchored, Table, BeforeSpawn, Blamed, PinsKept
    <3>6. Owned(c)'
      BY <2>1, <3>1 DEF PerCall, Anchored, Owned, ReaperAlive
    <3> QED
      BY <3>2, <3>3, <3>4, <3>5, <3>6 DEF PerCall
  <2>6. ASSUME NEW d \in Callers, d # c PROVE PerCall(d)'
    BY <2>1, <2>6, OthersKeep DEF IInv, Types, States, Calls
  <2> QED
    BY <2>2, <2>3, <2>4, <2>5, <2>6 DEF IInv
<1> QED
  BY <1>1, <1>2

(* register: the launch is over and the monitor knows the group.           *)
LEMMA RegisterKeeps ==
  ASSUME IInv, NEW c \in Callers, conductor = "alive", Register(c)
  PROVE  IInv'
<1> USE DEF Register, Goto, pipes, family
<1>1. /\ call[c].at = "spawned" /\ UNCHANGED <<conductor, pending, monitor, pipes,
                                               family, pressed, faults>>
      /\ state' = [state EXCEPT !.spawning = 0, !.groups = @ \cup {c}]
      /\ call' = [call EXCEPT ![c].at = "waiting"]
      /\ monitor = "watch"
  BY DEF IInv, Types, Counted, Launching, MonitorIsLast
<1>2. Types'
  <2>1. call' \in Calls
    BY <1>1 DEF IInv, Types, Calls, Places, Launching
  <2>2. state' \in States
    <3>1. state.groups \union {c} \in SUBSET Callers
      BY DEF IInv, Types, States
    <3> QED
      BY <1>1, <3>1 DEF IInv, Types, States
  <2> QED
    BY <1>1, <2>1, <2>2 DEF IInv, Types
<1>3. Counted'
  BY <1>1, CountOver DEF IInv, Types, States, Calls, Launching
<1>4. MonitorIsLast'
  BY <1>1 DEF IInv, Types, States, MonitorIsLast
<1>5. PerCall(c)'
  <2>1. /\ PerCall(c)
        /\ call'[c].at = "waiting" /\ call'[c].outcome = call[c].outcome
        /\ state'.groups = state.groups \union {c} /\ anchor[c] # "none"
    BY <1>1 DEF IInv, Types, States, Calls, PerCall, Table, Supervised, Anchored
  <2>2. Returned(c)'
    BY <1>1, <2>1 DEF PerCall, Returned, Launching, ReaperGone, Anchored
  <2>3. Table(c)'
    BY <1>1, <2>1 DEF PerCall, Table, BeforeSpawn, Spawning, SpawnFailed,
       Supervised, Settling, InFlight, Launching, ReaperGone, Anchored
  <2> QED
    BY <1>1, <2>1, <2>2, <2>3, MovesKeep
<1>6. ASSUME NEW d \in Callers, d # c PROVE PerCall(d)'
  BY <1>1, <1>6, OthersKeep DEF IInv, Types, States, Calls
<1> QED
  BY <1>2, <1>3, <1>4, <1>5, <1>6 DEF IInv

(* Drop of a supervisor whose spawn failed.                                *)
LEMMA CancelKeeps ==
  ASSUME IInv, NEW c \in Callers, conductor = "alive", Cancel(c)
  PROVE  IInv'
<1> USE DEF Cancel, Set, Goto, pipes, family
<1>1. /\ call[c].at = "failed" /\ UNCHANGED <<conductor, pending, monitor, state,
                                              reply, reaper, family, pressed,
                                              faults>>
      /\ request' = [request EXCEPT ![c] = "cancel"]
      /\ call' = [call EXCEPT ![c].at = "cancelling"]
  OBVIOUS
<1>2. Types'
  <2>1. call' \in Calls
    BY <1>1 DEF IInv, Types, Calls, Places, Launching
  <2>2. state' \in States
    BY <1>1 DEF IInv, Types, States
  <2> QED
    BY <1>1, <2>1, <2>2 DEF IInv, Types
<1>3. Counted'
  BY <1>1, CountKept DEF IInv, Types, States, Calls, Launching
<1>4. MonitorIsLast'
  BY <1>1 DEF IInv, Types, States, MonitorIsLast
<1>5. PerCall(c)'
  <2>1. /\ PerCall(c)
        /\ call'[c].at = "cancelling" /\ call'[c].outcome = call[c].outcome /\ request'[c] = "cancel"
    BY <1>1 DEF IInv, Types, States, Calls, PerCall
  <2>2. Anchored(c)' /\ Free(c)'
    BY <1>1, <2>1 DEF PerCall, Table, BeforeSpawn, Spawning, SpawnFailed,
       Supervised, Settling, InFlight, Anchored, Free, ReaperGone
  <2>3. Returned(c)' /\ Seized(c)'
    BY <1>1, <2>1 DEF PerCall, Table, BeforeSpawn, Spawning, SpawnFailed,
       Supervised, Settling, InFlight, Anchored, Returned, Seized, AgentRuns
  <2>4. conductor' = "alive" => Table(c)'
    BY <1>1, <2>1 DEF PerCall, Anchored, Returned, Table, BeforeSpawn, Spawning,
       SpawnFailed, Supervised, Settling, InFlight, Launching, ReaperGone
  <2>5. Blamed(c)' /\ PinsKept(c)'
    BY <1>1, <2>1 DEF PerCall, Anchored, Table, BeforeSpawn, Blamed, PinsKept
  <2>6. Owned(c)'
    BY <1>1, <2>1 DEF PerCall, Anchored, Owned, ReaperAlive
  <2> QED
    BY <2>2, <2>3, <2>4, <2>5, <2>6 DEF PerCall
<1>6. ASSUME NEW d \in Callers, d # c PROVE PerCall(d)'
  BY <1>1, <1>6, OthersKeep DEF IInv, Types, States, Calls
<1> QED
  BY <1>2, <1>3, <1>4, <1>5, <1>6 DEF IInv

(* The answer to it, or none.                                              *)
LEMMA CancelledKeeps ==
  ASSUME IInv, NEW c \in Callers, conductor = "alive", Cancelled(c)
  PROVE  IInv'
<1> USE DEF Cancelled, ReleaseLaunch, Return, pipes, family
<1>1. /\ call[c].at = "cancelling" /\ UNCHANGED <<conductor, monitor, pipes, family,
                                                  pressed, faults>>
      /\ pending' \in BOOLEAN /\ (pending => pending')
      /\ state' = [state EXCEPT !.spawning = 0]
      /\ call' = [call EXCEPT ![c] = [at |-> "done", outcome |-> "error"]]
  BY DEF IInv, Types
<1>2. Types'
  <2>1. call' \in Calls
    BY <1>1 DEF IInv, Types, Calls, Places, Launching
  <2>2. state' \in States
    BY <1>1 DEF IInv, Types, States
  <2> QED
    BY <1>1, <2>1, <2>2 DEF IInv, Types
<1>3. Counted'
  BY <1>1, CountOver DEF IInv, Types, States, Calls, Launching
<1>4. MonitorIsLast'
  BY <1>1 DEF IInv, Types, States, MonitorIsLast
<1>5. PerCall(c)'
  <2>1. /\ PerCall(c)
        /\ call'[c] = [at |-> "done", outcome |-> "error"]
        /\ state'.groups = state.groups
    BY <1>1 DEF IInv, Types, States, Calls, PerCall
  <2>2. Returned(c)'
    BY <1>1, <2>1 DEF PerCall, Returned, Launching, ReaperGone, Anchored
  <2>3. Table(c)'
    BY <1>1, <2>1 DEF PerCall, Table, BeforeSpawn, Spawning, SpawnFailed,
       Supervised, Settling, InFlight, Launching, ReaperGone, Anchored
  <2> QED
    BY <1>1, <2>1, <2>2, <2>3, MovesKeep
<1>6. ASSUME NEW d \in Callers, d # c PROVE PerCall(d)'
  BY <1>1, <1>6, OthersKeep DEF IInv, Types, States, Calls
<1> QED
  BY <1>2, <1>3, <1>4, <1>5, <1>6 DEF IInv

(* The poll that decides: an exit is seen only of a leader that ended.     *)
LEMMA PollKeeps ==
  ASSUME IInv, NEW c \in Callers, conductor = "alive", Poll(c)
  PROVE  IInv'
<1> USE DEF Poll, Set, pipes, family
<1>1. /\ call[c].at = "waiting" /\ UNCHANGED <<conductor, pending, monitor, state,
                                               reply, reaper, family, pressed,
                                               faults>>
      /\ request' = [request EXCEPT ![c] = "cleanup"]
      /\ \E outcome \in {"exit", "limited", "timeout", "error"} :
           /\ outcome = "exit" => leader[c] = "zombie"
           /\ call' = [call EXCEPT ![c] = [at |-> "finish", outcome |-> outcome]]
  BY DEF Verdict
<1>2. Types'
  <2>1. call' \in Calls
    BY <1>1 DEF IInv, Types, Calls, Places, Launching
  <2>2. state' \in States
    BY <1>1 DEF IInv, Types, States
  <2> QED
    BY <1>1, <2>1, <2>2 DEF IInv, Types
<1>3. Counted'
  BY <1>1, CountKept DEF IInv, Types, States, Calls, Launching
<1>4. MonitorIsLast'
  BY <1>1 DEF IInv, Types, States, MonitorIsLast
<1>5. PerCall(c)'
  <2>1. /\ PerCall(c)
        /\ call'[c].at = "finish" /\ request'[c] = "cleanup"
        /\ call'[c].outcome = "exit" => leader[c] = "zombie"
    BY <1>1 DEF IInv, Types, States, Calls, PerCall
  <2>2. Anchored(c)' /\ Free(c)'
    BY <1>1, <2>1 DEF PerCall, Table, BeforeSpawn, Spawning, SpawnFailed,
       Supervised, Settling, InFlight, Anchored, Free, ReaperGone
  <2>3. Returned(c)' /\ Seized(c)'
    BY <1>1, <2>1 DEF PerCall, Table, BeforeSpawn, Spawning, SpawnFailed,
       Supervised, Settling, InFlight, Anchored, Returned, Seized, AgentRuns
  <2>4. conductor' = "alive" => Table(c)'
    BY <1>1, <2>1 DEF PerCall, Anchored, Returned, Table, BeforeSpawn, Spawning,
       SpawnFailed, Supervised, Settling, InFlight, Launching, ReaperGone
  <2>5. Blamed(c)' /\ PinsKept(c)'
    BY <1>1, <2>1 DEF PerCall, Anchored, Table, BeforeSpawn, Blamed, PinsKept
  <2>6. Owned(c)'
    BY <1>1, <2>1 DEF PerCall, Anchored, Owned, ReaperAlive
  <2> QED
    BY <2>2, <2>3, <2>4, <2>5, <2>6 DEF PerCall
<1>6. ASSUME NEW d \in Callers, d # c PROVE PerCall(d)'
  BY <1>1, <1>6, OthersKeep DEF IInv, Types, States, Calls
<1> QED
  BY <1>2, <1>3, <1>4, <1>5, <1>6 DEF IInv

(* finish: settled only with the answer that comes after the sweep.        *)
LEMMA FinishedKeeps ==
  ASSUME IInv, NEW c \in Callers, conductor = "alive", Finished(c)
  PROVE  IInv'
<1> USE DEF Finished, Goto, pipes, family
<1>1. CASE reply[c] = "ok"
  <2>1. /\ call[c].at = "finish" /\ UNCHANGED <<conductor, pending, monitor, state,
                                                pipes, family, pressed, faults>>
        /\ ReaperGone(c)
        /\ call' = [call EXCEPT ![c].at = "unpin"]
    BY <1>1
  <2>2. Types'
    <3>1. call' \in Calls
      BY <2>1 DEF IInv, Types, Calls, Places, Launching
    <3>2. state' \in States
      BY <2>1 DEF IInv, Types, States
    <3> QED
      BY <2>1, <3>1, <3>2 DEF IInv, Types
  <2>3. Counted'
    BY <2>1, CountKept DEF IInv, Types, States, Calls, Launching
  <2>4. MonitorIsLast'
    BY <2>1 DEF IInv, Types, States, MonitorIsLast
  <2>5. PerCall(c)'
    <3>1. /\ PerCall(c) /\ reply[c] = "ok" /\ reaper[c] = "gone" /\ leader[c] = "zombie" /\ anchor[c] # "none"
          /\ call'[c].at = "unpin" /\ call'[c].outcome = call[c].outcome
      BY <2>1 DEF IInv, Types, States, Calls, PerCall, Table, Supervised,
         Anchored, ReaperGone
    <3>2. Returned(c)'
      BY <2>1, <3>1 DEF PerCall, Returned, Launching, ReaperGone, Anchored
    <3>3. Table(c)'
      BY <2>1, <3>1 DEF PerCall, Table, BeforeSpawn, Spawning, SpawnFailed,
         Supervised, Settling, InFlight, Launching, ReaperGone, Anchored
    <3> QED
      BY <2>1, <3>1, <3>2, <3>3, MovesKeep
  <2>6. ASSUME NEW d \in Callers, d # c PROVE PerCall(d)'
    BY <2>1, <2>6, OthersKeep DEF IInv, Types, States, Calls
  <2> QED
    BY <2>2, <2>3, <2>4, <2>5, <2>6 DEF IInv
<1>2. CASE reply[c] # "ok"
  <2>1. /\ call[c].at = "finish" /\ UNCHANGED <<conductor, monitor, state, pipes,
                                                family, pressed, faults>>
        /\ pending' = TRUE /\ reaper[c] = "killed"
        /\ call' = [call EXCEPT ![c].at = "unsettled"]
    BY <1>2 DEF IInv, PerCall, Table, Supervised, ReaperGone
  <2>2. Types'
    <3>1. call' \in Calls
      BY <2>1 DEF IInv, Types, Calls, Places, Launching
    <3>2. state' \in States
      BY <2>1 DEF IInv, Types, States
    <3> QED
      BY <2>1, <3>1, <3>2 DEF IInv, Types
  <2>3. Counted'
    BY <2>1, CountKept DEF IInv, Types, States, Calls, Launching
  <2>4. MonitorIsLast'
    BY <2>1 DEF IInv, Types, States, MonitorIsLast
  <2>5. PerCall(c)'
    <3>1. /\ PerCall(c)
          /\ call'[c].at = "unsettled" /\ call'[c].outcome = call[c].outcome
      BY <2>1 DEF IInv, Types, States, Calls, PerCall
    <3>2. Returned(c)'
      BY <2>1, <3>1 DEF PerCall, Returned, Launching, ReaperGone, Anchored
    <3>3. Table(c)'
      BY <2>1, <3>1 DEF PerCall, Table, BeforeSpawn, Spawning, SpawnFailed,
         Supervised, Settling, InFlight, Launching, ReaperGone, Anchored
    <3> QED
      BY <2>1, <3>1, <3>2, <3>3, MovesKeep
  <2>6. ASSUME NEW d \in Callers, d # c PROVE PerCall(d)'
    BY <2>1, <2>6, OthersKeep DEF IInv, Types, States, Calls
  <2> QED
    BY <2>2, <2>3, <2>4, <2>5, <2>6 DEF IInv
<1> QED
  BY <1>1, <1>2

(* remove_unpinned_group.                                                  *)
LEMMA ForgetKeeps ==
  ASSUME IInv, NEW c \in Callers, conductor = "alive", Forget(c)
  PROVE  IInv'
<1> USE DEF Forget, MayForget, Goto, pipes, family
<1>1. /\ call[c].at = "unpin" /\ UNCHANGED <<conductor, pending, monitor, pipes,
                                             family, pressed, faults>>
      /\ c \notin state.leased
      /\ state' = [state EXCEPT !.groups = @ \ {c}]
      /\ call' = [call EXCEPT ![c].at = "reap"]
  OBVIOUS
<1>2. Types'
  <2>1. call' \in Calls
    BY <1>1 DEF IInv, Types, Calls, Places, Launching
  <2>2. state' \in States
    BY <1>1 DEF IInv, Types, States
  <2> QED
    BY <1>1, <2>1, <2>2 DEF IInv, Types
<1>3. Counted'
  BY <1>1, CountKept DEF IInv, Types, States, Calls, Launching
<1>4. MonitorIsLast'
  BY <1>1 DEF IInv, Types, States, MonitorIsLast
<1>5. PerCall(c)'
  <2>1. /\ PerCall(c)
        /\ call'[c].at = "reap" /\ call'[c].outcome = call[c].outcome
        /\ state'.groups = state.groups \ {c}
    BY <1>1 DEF IInv, Types, States, Calls, PerCall
  <2>2. Returned(c)'
    BY <1>1, <2>1 DEF PerCall, Returned, Launching, ReaperGone, Anchored
  <2>3. Table(c)'
    BY <1>1, <2>1 DEF PerCall, Table, BeforeSpawn, Spawning, SpawnFailed,
       Supervised, Settling, InFlight, Launching, ReaperGone, Anchored
  <2> QED
    BY <1>1, <2>1, <2>2, <2>3, MovesKeep
<1>6. ASSUME NEW d \in Callers, d # c PROVE PerCall(d)'
  BY <1>1, <1>6, OthersKeep DEF IInv, Types, States, Calls
<1> QED
  BY <1>2, <1>3, <1>4, <1>5, <1>6 DEF IInv

(* kill and wait of the leader.                                            *)
LEMMA ReapKeeps ==
  ASSUME IInv, NEW c \in Callers, conductor = "alive", Reap(c)
  PROVE  IInv'
<1> USE DEF Reap, Set, Goto, Return, pipes, family
<1>1. CASE leader[c] \in {"running", "doomed"} /\ Set(leader, c, "zombie") /\ UNCHANGED call
  <2>1. /\ call[c].at \in {"reap", "unsettled"}
        /\ UNCHANGED <<conductor, pending, monitor, state, pipes, call, own, kin,
                       anchor, stranger, hit, pressed, faults>>
        /\ leader[c] \in {"running", "doomed"} /\ leader' = [leader EXCEPT ![c] = "zombie"]
    BY <1>1
  <2>2. Types'
    <3>1. call' \in Calls
      BY <2>1 DEF IInv, Types, Calls, Places, Launching
    <3>2. state' \in States
      BY <2>1 DEF IInv, Types, States
    <3> QED
      BY <2>1, <3>1, <3>2 DEF IInv, Types
  <2>3. Counted'
    BY <2>1, CountKept DEF IInv, Types, States, Calls, Launching
  <2>4. MonitorIsLast'
    BY <2>1 DEF IInv, Types, States, MonitorIsLast
  <2>5. PerCall(c)'
    <3>1. /\ PerCall(c) /\ leader'[c] = "zombie"
      BY <2>1 DEF IInv, Types, States, Calls, PerCall
    <3>2. Anchored(c)' /\ Free(c)'
      BY <2>1, <3>1 DEF PerCall, Table, BeforeSpawn, Spawning, SpawnFailed,
         Supervised, Settling, InFlight, Anchored, Free, ReaperGone
    <3>3. Returned(c)' /\ Seized(c)'
      BY <2>1, <3>1 DEF PerCall, Table, BeforeSpawn, Spawning, SpawnFailed,
         Supervised, Settling, InFlight, Anchored, Returned, Seized, AgentRuns
    <3>4. conductor' = "alive" => Table(c)'
      BY <2>1, <3>1 DEF PerCall, Anchored, Returned, Table, BeforeSpawn,
         Spawning, SpawnFailed, Supervised, Settling, InFlight, Launching,
         ReaperGone
    <3>5. Blamed(c)' /\ PinsKept(c)'
      BY <2>1, <3>1 DEF PerCall, Anchored, Table, BeforeSpawn, Blamed, PinsKept
    <3>6. Owned(c)'
      BY <2>1, <3>1 DEF PerCall, Anchored, Owned, ReaperAlive
    <3> QED
      BY <3>2, <3>3, <3>4, <3>5, <3>6 DEF PerCall
  <2>6. ASSUME NEW d \in Callers, d # c PROVE PerCall(d)'
    BY <2>1, <2>6, OthersKeep DEF IInv, Types, States, Calls
  <2> QED
    BY <2>2, <2>3, <2>4, <2>5, <2>6 DEF IInv
<1>2. CASE /\ leader[c] = "zombie" /\ Set(leader, c, "reaped")
           /\ call[c].at = "reap" /\ Goto(c, "drain")
  <2>1. /\ call[c].at = "reap" /\ leader[c] = "zombie"
        /\ UNCHANGED <<conductor, pending, monitor, state, pipes, own, kin, anchor,
                       stranger, hit, pressed, faults>>
        /\ leader' = [leader EXCEPT ![c] = "reaped"]
        /\ call' = [call EXCEPT ![c].at = "drain"]
    BY <1>2
  <2>2. Types'
    <3>1. call' \in Calls
      BY <2>1 DEF IInv, Types, Calls, Places, Launching
    <3>2. state' \in States
      BY <2>1 DEF IInv, Types, States
    <3> QED
      BY <2>1, <3>1, <3>2 DEF IInv, Types
  <2>3. Counted'
    BY <2>1, CountKept DEF IInv, Types, States, Calls, Launching
  <2>4. MonitorIsLast'
    BY <2>1 DEF IInv, Types, States, MonitorIsLast
  <2>5. PerCall(c)'
    <3>1. /\ PerCall(c) /\ leader'[c] = "reaped"
          /\ call'[c].at = "drain" /\ call'[c].outcome = call[c].outcome
      BY <2>1 DEF IInv, Types, States, Calls, PerCall
    <3>2. Anchored(c)' /\ Free(c)'
      BY <2>1, <3>1 DEF PerCall, Table, BeforeSpawn, Spawning, SpawnFailed,
         Supervised, Settling, InFlight, Anchored, Free, ReaperGone
    <3>3. Returned(c)' /\ Seized(c)'
      BY <2>1, <3>1 DEF PerCall, Table, BeforeSpawn, Spawning, SpawnFailed,
         Supervised, Settling, InFlight, Anchored, Returned, Seized, AgentRuns
    <3>4. conductor' = "alive" => Table(c)'
      BY <2>1, <3>1 DEF PerCall, Anchored, Returned, Table, BeforeSpawn,
         Spawning, SpawnFailed, Supervised, Settling, InFlight, Launching,
         ReaperGone
    <3>5. Blamed(c)' /\ PinsKept(c)'
      BY <2>1, <3>1 DEF PerCall, Anchored, Table, BeforeSpawn, Blamed, PinsKept
    <3>6. Owned(c)'
      BY <2>1, <3>1 DEF PerCall, Anchored, Owned, ReaperAlive
    <3> QED
      BY <3>2, <3>3, <3>4, <3>5, <3>6 DEF PerCall
  <2>6. ASSUME NEW d \in Callers, d # c PROVE PerCall(d)'
    BY <2>1, <2>6, OthersKeep DEF IInv, Types, States, Calls
  <2> QED
    BY <2>2, <2>3, <2>4, <2>5, <2>6 DEF IInv
<1>3. CASE /\ leader[c] = "zombie" /\ Set(leader, c, "reaped")
           /\ call[c].at = "unsettled" /\ Return(c, "error")
  <2>1. /\ call[c].at = "unsettled" /\ leader[c] = "zombie"
        /\ UNCHANGED <<conductor, pending, monitor, state, pipes, own, kin, anchor,
                       stranger, hit, pressed, faults>>
        /\ leader' = [leader EXCEPT ![c] = "reaped"]
        /\ call' = [call EXCEPT ![c] = [at |-> "done", outcome |-> "error"]]
    BY <1>3
  <2>2. Types'
    <3>1. call' \in Calls
      BY <2>1 DEF IInv, Types, Calls, Places, Launching
    <3>2. state' \in States
      BY <2>1 DEF IInv, Types, States
    <3> QED
      BY <2>1, <3>1, <3>2 DEF IInv, Types
  <2>3. Counted'
    BY <2>1, CountKept DEF IInv, Types, States, Calls, Launching
  <2>4. MonitorIsLast'
    BY <2>1 DEF IInv, Types, States, MonitorIsLast
  <2>5. PerCall(c)'
    <3>1. /\ PerCall(c) /\ leader'[c] = "reaped"
          /\ call'[c] = [at |-> "done", outcome |-> "error"]
      BY <2>1 DEF IInv, Types, States, Calls, PerCall
    <3>2. Anchored(c)' /\ Free(c)'
      BY <2>1, <3>1 DEF PerCall, Table, BeforeSpawn, Spawning, SpawnFailed,
         Supervised, Settling, InFlight, Anchored, Free, ReaperGone
    <3>3. Returned(c)' /\ Seized(c)'
      BY <2>1, <3>1 DEF PerCall, Table, BeforeSpawn, Spawning, SpawnFailed,
         Supervised, Settling, InFlight, Anchored, Returned, Seized, AgentRuns
    <3>4. conductor' = "alive" => Table(c)'
      BY <2>1, <3>1 DEF PerCall, Anchored, Returned, Table, BeforeSpawn,
         Spawning, SpawnFailed, Supervised, Settling, InFlight, Launching,
         ReaperGone
    <3>5. Blamed(c)' /\ PinsKept(c)'
      BY <2>1, <3>1 DEF PerCall, Anchored, Table, BeforeSpawn, Blamed, PinsKept
    <3>6. Owned(c)'
      BY <2>1, <3>1 DEF PerCall, Anchored, Owned, ReaperAlive
    <3> QED
      BY <3>2, <3>3, <3>4, <3>5, <3>6 DEF PerCall
  <2>6. ASSUME NEW d \in Callers, d # c PROVE PerCall(d)'
    BY <2>1, <2>6, OthersKeep DEF IInv, Types, States, Calls
  <2> QED
    BY <2>2, <2>3, <2>4, <2>5, <2>6 DEF IInv
<1> QED
  BY <1>1, <1>2, <1>3

(* The end of the drains.                                                  *)
LEMMA DrainKeeps ==
  ASSUME IInv, NEW c \in Callers, conductor = "alive", Drain(c)
  PROVE  IInv'
<1> USE DEF Drain, Return, pipes, family
<1>1. /\ call[c].at = "drain" /\ UNCHANGED <<conductor, pending, monitor, state,
                                             pipes, family, pressed, faults>>
      /\ \E outcome \in {call[c].outcome, "limited"} :
           call' = [call EXCEPT ![c] = [at |-> "done", outcome |-> outcome]]
  OBVIOUS
<1>2. Types'
  <2>1. call' \in Calls
    BY <1>1 DEF IInv, Types, Calls, Places, Launching
  <2>2. state' \in States
    BY <1>1 DEF IInv, Types, States
  <2> QED
    BY <1>1, <2>1, <2>2 DEF IInv, Types
<1>3. Counted'
  BY <1>1, CountKept DEF IInv, Types, States, Calls, Launching
<1>4. MonitorIsLast'
  BY <1>1 DEF IInv, Types, States, MonitorIsLast
<1>5. PerCall(c)'
  <2>1. /\ PerCall(c)
        /\ call'[c].at = "done" /\ call'[c].outcome \in {call[c].outcome, "limited"}
    BY <1>1 DEF IInv, Types, States, Calls, PerCall
  <2>2. Returned(c)'
    BY <1>1, <2>1 DEF PerCall, Returned, Table, Settling, Launching, ReaperGone,
       Anchored
  <2>3. Table(c)'
    BY <1>1, <2>1 DEF PerCall, Table, BeforeSpawn, Spawning, SpawnFailed,
       Supervised, Settling, InFlight, Launching, ReaperGone, Anchored
  <2> QED
    BY <1>1, <2>1, <2>2, <2>3, MovesKeep
<1>6. ASSUME NEW d \in Callers, d # c PROVE PerCall(d)'
  BY <1>1, <1>6, OthersKeep DEF IInv, Types, States, Calls
<1> QED
  BY <1>2, <1>3, <1>4, <1>5, <1>6 DEF IInv

(* The forked child asks the reaper.                                       *)
LEMMA PreExecKeeps ==
  ASSUME IInv, NEW c \in Callers, PreExec(c)
  PROVE  IInv'
<1> USE DEF PreExec, Set, threads, pipes, family
<1>1. /\ leader[c] = "forked" /\ leader' = [leader EXCEPT ![c] = "asking"]
      /\ request' = [request EXCEPT ![c] = "register"]
      /\ UNCHANGED <<conductor, threads, reply, reaper, own, kin, anchor, stranger,
                     hit, pressed, faults>>
  BY DEF AfterFork
<1>2. Types'
  <2>1. call' \in Calls
    BY <1>1 DEF IInv, Types, Calls, Places, Launching
  <2>2. state' \in States
    BY <1>1 DEF IInv, Types, States
  <2> QED
    BY <1>1, <2>1, <2>2 DEF IInv, Types
<1>3. Counted'
  BY <1>1, CountKept DEF IInv, Types, States, Calls, Launching
<1>4. MonitorIsLast'
  BY <1>1 DEF IInv, Types, States, MonitorIsLast
<1>5. PerCall(c)'
  <2>1. /\ PerCall(c) /\ leader'[c] = "asking" /\ request'[c] = "register"
    BY <1>1 DEF IInv, Types, States, Calls, PerCall
  <2>2. Anchored(c)' /\ Free(c)'
    BY <1>1, <2>1 DEF PerCall, Table, BeforeSpawn, Spawning, SpawnFailed,
       Supervised, Settling, InFlight, Anchored, Free, ReaperGone
  <2>3. Returned(c)' /\ Seized(c)'
    BY <1>1, <2>1 DEF PerCall, Table, BeforeSpawn, Spawning, SpawnFailed,
       Supervised, Settling, InFlight, Anchored, Returned, Seized, AgentRuns
  <2>4. conductor' = "alive" => Table(c)'
    BY <1>1, <2>1 DEF PerCall, Anchored, Returned, Table, BeforeSpawn, Spawning,
       SpawnFailed, Supervised, Settling, InFlight, Launching, ReaperGone
  <2>5. Blamed(c)' /\ PinsKept(c)'
    BY <1>1, <2>1 DEF PerCall, Anchored, Table, BeforeSpawn, Blamed, PinsKept
  <2>6. Owned(c)'
    BY <1>1, <2>1 DEF PerCall, Anchored, Owned, ReaperAlive
  <2> QED
    BY <2>2, <2>3, <2>4, <2>5, <2>6 DEF PerCall
<1>6. ASSUME NEW d \in Callers, d # c PROVE PerCall(d)'
  BY <1>1, <1>6, OthersKeep DEF IInv, Types, States, Calls
<1> QED
  BY <1>2, <1>3, <1>4, <1>5, <1>6 DEF IInv

(* exec, only on OK.                                                       *)
LEMMA ExecKeeps ==
  ASSUME IInv, NEW c \in Callers, Exec(c)
  PROVE  IInv'
<1> USE DEF Exec, Set, threads, pipes, family
<1>1. CASE leader' = [leader EXCEPT ![c] = "running"]
  <2>1. /\ leader[c] = "asking" /\ reply[c] = "ok" /\ leader' = [leader EXCEPT ![c] = "running"]
        /\ reply' = [reply EXCEPT ![c] = "none"]
        /\ UNCHANGED <<conductor, threads, request, reaper, own, kin, anchor,
                       stranger, hit, pressed, faults>>
    BY <1>1 DEF IInv, Types
  <2>2. Types'
    <3>1. call' \in Calls
      BY <2>1 DEF IInv, Types, Calls, Places, Launching
    <3>2. state' \in States
      BY <2>1 DEF IInv, Types, States
    <3> QED
      BY <2>1, <3>1, <3>2 DEF IInv, Types
  <2>3. Counted'
    BY <2>1, CountKept DEF IInv, Types, States, Calls, Launching
  <2>4. MonitorIsLast'
    BY <2>1 DEF IInv, Types, States, MonitorIsLast
  <2>5. PerCall(c)'
    <3>1. /\ PerCall(c) /\ leader'[c] = "running" /\ reply'[c] = "none"
      BY <2>1 DEF IInv, Types, States, Calls, PerCall
    <3>2. Anchored(c)' /\ Free(c)'
      BY <2>1, <3>1 DEF PerCall, Table, BeforeSpawn, Spawning, SpawnFailed,
         Supervised, Settling, InFlight, Anchored, Free, ReaperGone
    <3>3. Returned(c)' /\ Seized(c)'
      BY <2>1, <3>1 DEF PerCall, Table, BeforeSpawn, Spawning, SpawnFailed,
         Supervised, Settling, InFlight, Anchored, Returned, Seized, AgentRuns
    <3>4. conductor' = "alive" => Table(c)'
      BY <2>1, <3>1 DEF PerCall, Anchored, Returned, Table, BeforeSpawn,
         Spawning, SpawnFailed, Supervised, Settling, InFlight, Launching,
         ReaperGone
    <3>5. Blamed(c)' /\ PinsKept(c)'
      BY <2>1, <3>1 DEF PerCall, Anchored, Table, BeforeSpawn, Blamed, PinsKept
    <3>6. Owned(c)'
      BY <2>1, <3>1 DEF PerCall, Anchored, Owned, ReaperAlive
    <3> QED
      BY <3>2, <3>3, <3>4, <3>5, <3>6 DEF PerCall
  <2>6. ASSUME NEW d \in Callers, d # c PROVE PerCall(d)'
    BY <2>1, <2>6, OthersKeep DEF IInv, Types, States, Calls
  <2> QED
    BY <2>2, <2>3, <2>4, <2>5, <2>6 DEF IInv
<1>2. CASE leader' = [leader EXCEPT ![c] = "refused"]
  <2>1. /\ leader[c] = "asking" /\ leader' = [leader EXCEPT ![c] = "refused"]
        /\ reply[c] # "none" \/ ReaperGone(c)
        /\ reply' = [reply EXCEPT ![c] = "none"]
        /\ UNCHANGED <<conductor, threads, request, reaper, own, kin, anchor,
                       stranger, hit, pressed, faults>>
    BY <1>2 DEF IInv, Types
  <2>2. Types'
    <3>1. call' \in Calls
      BY <2>1 DEF IInv, Types, Calls, Places, Launching
    <3>2. state' \in States
      BY <2>1 DEF IInv, Types, States
    <3> QED
      BY <2>1, <3>1, <3>2 DEF IInv, Types
  <2>3. Counted'
    BY <2>1, CountKept DEF IInv, Types, States, Calls, Launching
  <2>4. MonitorIsLast'
    BY <2>1 DEF IInv, Types, States, MonitorIsLast
  <2>5. PerCall(c)'
    <3>1. /\ PerCall(c) /\ leader'[c] = "refused" /\ reply'[c] = "none"
      BY <2>1 DEF IInv, Types, States, Calls, PerCall
    <3>2. Anchored(c)' /\ Free(c)'
      BY <2>1, <3>1 DEF PerCall, Table, BeforeSpawn, Spawning, SpawnFailed,
         Supervised, Settling, InFlight, Anchored, Free, ReaperGone
    <3>3. Returned(c)' /\ Seized(c)'
      BY <2>1, <3>1 DEF PerCall, Table, BeforeSpawn, Spawning, SpawnFailed,
         Supervised, Settling, InFlight, Anchored, Returned, Seized, AgentRuns
    <3>4. conductor' = "alive" => Table(c)'
      BY <2>1, <3>1 DEF PerCall, Anchored, Returned, Table, BeforeSpawn,
         Spawning, SpawnFailed, Supervised, Settling, InFlight, Launching,
         ReaperGone
    <3>5. Blamed(c)' /\ PinsKept(c)'
      BY <2>1, <3>1 DEF PerCall, Anchored, Table, BeforeSpawn, Blamed, PinsKept
    <3>6. Owned(c)'
      BY <2>1, <3>1 DEF PerCall, Anchored, Owned, ReaperAlive
    <3> QED
      BY <3>2, <3>3, <3>4, <3>5, <3>6 DEF PerCall
  <2>6. ASSUME NEW d \in Callers, d # c PROVE PerCall(d)'
    BY <2>1, <2>6, OthersKeep DEF IInv, Types, States, Calls
  <2> QED
    BY <2>2, <2>3, <2>4, <2>5, <2>6 DEF IInv
<1> QED
  BY <1>1, <1>2

(* The reaper leaves a conductor that is gone, with nothing registered.    *)
LEMMA LeaveKeeps ==
  ASSUME IInv, NEW c \in Callers, Leave(c)
  PROVE  IInv'
<1> USE DEF Leave, Set, threads, pipes, family
<1>1. /\ reaper[c] = "ready" /\ reaper' = [reaper EXCEPT ![c] = "gone"] /\ conductor = "gone"
      /\ UNCHANGED <<conductor, threads, request, reply, family, pressed, faults>>
  BY DEF Orphaned
<1>2. Types'
  <2>1. call' \in Calls
    BY <1>1 DEF IInv, Types, Calls, Places, Launching
  <2>2. state' \in States
    BY <1>1 DEF IInv, Types, States
  <2> QED
    BY <1>1, <2>1, <2>2 DEF IInv, Types
<1>3. Counted'
  BY <1>1, CountKept DEF IInv, Types, States, Calls, Launching
<1>4. MonitorIsLast'
  BY <1>1 DEF IInv, Types, States, MonitorIsLast
<1>5. PerCall(c)'
  <2>1. /\ PerCall(c) /\ reaper'[c] = "gone"
    BY <1>1 DEF IInv, Types, States, Calls, PerCall
  <2>2. Anchored(c)' /\ Free(c)'
    BY <1>1, <2>1 DEF PerCall, Table, BeforeSpawn, Spawning, SpawnFailed,
       Supervised, Settling, InFlight, Anchored, Free, ReaperGone
  <2>3. Returned(c)' /\ Seized(c)'
    BY <1>1, <2>1 DEF PerCall, Table, BeforeSpawn, Spawning, SpawnFailed,
       Supervised, Settling, InFlight, Anchored, Returned, Seized, AgentRuns
  <2>4. conductor' = "alive" => Table(c)'
    BY <1>1, <2>1 DEF PerCall, Anchored, Returned, Table, BeforeSpawn, Spawning,
       SpawnFailed, Supervised, Settling, InFlight, Launching, ReaperGone
  <2>5. Blamed(c)' /\ PinsKept(c)'
    BY <1>1, <2>1 DEF PerCall, Anchored, Table, BeforeSpawn, Blamed, PinsKept
  <2>6. Owned(c)'
    BY <1>1, <2>1 DEF PerCall, Anchored, Owned, ReaperAlive
  <2> QED
    BY <2>2, <2>3, <2>4, <2>5, <2>6 DEF PerCall
<1>6. ASSUME NEW d \in Callers, d # c PROVE PerCall(d)'
  BY <1>1, <1>6, OthersKeep DEF IInv, Types, States, Calls
<1> QED
  BY <1>2, <1>3, <1>4, <1>5, <1>6 DEF IInv

(* The anchor before the answer.                                           *)
LEMMA AnchorKeeps ==
  ASSUME IInv, NEW c \in Callers, Anchor(c)
  PROVE  IInv'
<1> USE DEF Anchor, Set, threads, pipes, family
<1>1. CASE anchor' = [anchor EXCEPT ![c] = "stopped"]
  <2>1. /\ reaper[c] = "ready" /\ conductor # "gone" /\ request[c] = "register"
        /\ leader[c] \in {"asking", "running"}
        /\ reaper' = [reaper EXCEPT ![c] = "anchored"] /\ anchor' = [anchor EXCEPT ![c] = "stopped"]
        /\ reply' = [reply EXCEPT ![c] = "ok"] /\ request' = [request EXCEPT ![c] = "none"]
        /\ UNCHANGED <<conductor, threads, leader, own, kin, stranger, hit, pressed,
                       faults>>
    BY <1>1 DEF Orphaned, IInv, Types, PerCall, Anchored
  <2>2. Types'
    <3>1. call' \in Calls
      BY <2>1 DEF IInv, Types, Calls, Places, Launching
    <3>2. state' \in States
      BY <2>1 DEF IInv, Types, States
    <3> QED
      BY <2>1, <3>1, <3>2 DEF IInv, Types
  <2>3. Counted'
    BY <2>1, CountKept DEF IInv, Types, States, Calls, Launching
  <2>4. MonitorIsLast'
    BY <2>1 DEF IInv, Types, States, MonitorIsLast
  <2>5. PerCall(c)'
    <3>1. /\ PerCall(c) /\ reaper'[c] = "anchored" /\ anchor'[c] = "stopped"
          /\ reply'[c] = "ok" /\ request'[c] = "none"
      BY <2>1 DEF IInv, Types, States, Calls, PerCall
    <3>2. Anchored(c)' /\ Free(c)'
      BY <2>1, <3>1 DEF PerCall, Table, BeforeSpawn, Spawning, SpawnFailed,
         Supervised, Settling, InFlight, Anchored, Free, ReaperGone
    <3>3. Returned(c)' /\ Seized(c)'
      BY <2>1, <3>1 DEF PerCall, Table, BeforeSpawn, Spawning, SpawnFailed,
         Supervised, Settling, InFlight, Anchored, Returned, Seized, AgentRuns
    <3>4. conductor' = "alive" => Table(c)'
      BY <2>1, <3>1 DEF PerCall, Anchored, Returned, Table, BeforeSpawn,
         Spawning, SpawnFailed, Supervised, Settling, InFlight, Launching,
         ReaperGone
    <3>5. Blamed(c)' /\ PinsKept(c)'
      BY <2>1, <3>1 DEF PerCall, Anchored, Table, BeforeSpawn, Blamed, PinsKept
    <3>6. Owned(c)'
      BY <2>1, <3>1 DEF PerCall, Anchored, Owned, ReaperAlive
    <3> QED
      BY <3>2, <3>3, <3>4, <3>5, <3>6 DEF PerCall
  <2>6. ASSUME NEW d \in Callers, d # c PROVE PerCall(d)'
    BY <2>1, <2>6, OthersKeep DEF IInv, Types, States, Calls
  <2> QED
    BY <2>2, <2>3, <2>4, <2>5, <2>6 DEF IInv
<1>2. CASE UNCHANGED <<reaper, anchor>>
  <2>1. /\ reaper[c] = "ready" /\ conductor # "gone" /\ request[c] = "register"
        /\ reply' = [reply EXCEPT ![c] = "fail"] /\ request' = [request EXCEPT ![c] = "none"]
        /\ UNCHANGED <<conductor, threads, reaper, anchor, leader, own, kin,
                       stranger, hit, pressed, faults>>
    BY <1>2 DEF Orphaned, IInv, Types, PerCall, Anchored
  <2>2. Types'
    <3>1. call' \in Calls
      BY <2>1 DEF IInv, Types, Calls, Places, Launching
    <3>2. state' \in States
      BY <2>1 DEF IInv, Types, States
    <3> QED
      BY <2>1, <3>1, <3>2 DEF IInv, Types
  <2>3. Counted'
    BY <2>1, CountKept DEF IInv, Types, States, Calls, Launching
  <2>4. MonitorIsLast'
    BY <2>1 DEF IInv, Types, States, MonitorIsLast
  <2>5. PerCall(c)'
    <3>1. /\ PerCall(c) /\ reply'[c] = "fail" /\ request'[c] = "none"
      BY <2>1 DEF IInv, Types, States, Calls, PerCall
    <3>2. Anchored(c)' /\ Free(c)'
      BY <2>1, <3>1 DEF PerCall, Table, BeforeSpawn, Spawning, SpawnFailed,
         Supervised, Settling, InFlight, Anchored, Free, ReaperGone
    <3>3. Returned(c)' /\ Seized(c)'
      BY <2>1, <3>1 DEF PerCall, Table, BeforeSpawn, Spawning, SpawnFailed,
         Supervised, Settling, InFlight, Anchored, Returned, Seized, AgentRuns
    <3>4. conductor' = "alive" => Table(c)'
      BY <2>1, <3>1 DEF PerCall, Anchored, Returned, Table, BeforeSpawn,
         Spawning, SpawnFailed, Supervised, Settling, InFlight, Launching,
         ReaperGone
    <3>5. Blamed(c)' /\ PinsKept(c)'
      BY <2>1, <3>1 DEF PerCall, Anchored, Table, BeforeSpawn, Blamed, PinsKept
    <3>6. Owned(c)'
      BY <2>1, <3>1 DEF PerCall, Anchored, Owned, ReaperAlive
    <3> QED
      BY <3>2, <3>3, <3>4, <3>5, <3>6 DEF PerCall
  <2>6. ASSUME NEW d \in Callers, d # c PROVE PerCall(d)'
    BY <2>1, <2>6, OthersKeep DEF IInv, Types, States, Calls
  <2> QED
    BY <2>2, <2>3, <2>4, <2>5, <2>6 DEF IInv
<1> QED
  BY <1>1, <1>2

(* A cancel with nothing registered.                                       *)
LEMMA CancelNothingKeeps ==
  ASSUME IInv, NEW c \in Callers, CancelNothing(c)
  PROVE  IInv'
<1> USE DEF CancelNothing, Set, threads, pipes, family
<1>1. /\ reaper[c] = "ready" /\ conductor = "alive" /\ request[c] = "cancel"
      /\ reaper' = [reaper EXCEPT ![c] = "gone"] /\ request' = [request EXCEPT ![c] = "none"]
      /\ reply' = [reply EXCEPT ![c] = "ok"]
      /\ UNCHANGED <<conductor, threads, family, pressed, faults>>
  BY DEF Orphaned, IInv, Types
<1>2. Types'
  <2>1. call' \in Calls
    BY <1>1 DEF IInv, Types, Calls, Places, Launching
  <2>2. state' \in States
    BY <1>1 DEF IInv, Types, States
  <2> QED
    BY <1>1, <2>1, <2>2 DEF IInv, Types
<1>3. Counted'
  BY <1>1, CountKept DEF IInv, Types, States, Calls, Launching
<1>4. MonitorIsLast'
  BY <1>1 DEF IInv, Types, States, MonitorIsLast
<1>5. PerCall(c)'
  <2>1. /\ PerCall(c) /\ reaper'[c] = "gone" /\ request'[c] = "none" /\ reply'[c] = "ok"
    BY <1>1 DEF IInv, Types, States, Calls, PerCall
  <2>2. Anchored(c)' /\ Free(c)'
    BY <1>1, <2>1 DEF PerCall, Table, BeforeSpawn, Spawning, SpawnFailed,
       Supervised, Settling, InFlight, Anchored, Free, ReaperGone
  <2>3. Returned(c)' /\ Seized(c)'
    BY <1>1, <2>1 DEF PerCall, Table, BeforeSpawn, Spawning, SpawnFailed,
       Supervised, Settling, InFlight, Anchored, Returned, Seized, AgentRuns
  <2>4. conductor' = "alive" => Table(c)'
    BY <1>1, <2>1 DEF PerCall, Anchored, Returned, Table, BeforeSpawn, Spawning,
       SpawnFailed, Supervised, Settling, InFlight, Launching, ReaperGone
  <2>5. Blamed(c)' /\ PinsKept(c)'
    BY <1>1, <2>1 DEF PerCall, Anchored, Table, BeforeSpawn, Blamed, PinsKept
  <2>6. Owned(c)'
    BY <1>1, <2>1 DEF PerCall, Anchored, Owned, ReaperAlive
  <2> QED
    BY <2>2, <2>3, <2>4, <2>5, <2>6 DEF PerCall
<1>6. ASSUME NEW d \in Callers, d # c PROVE PerCall(d)'
  BY <1>1, <1>6, OthersKeep DEF IInv, Types, States, Calls
<1> QED
  BY <1>2, <1>3, <1>4, <1>5, <1>6 DEF IInv

(* Only zombies left: the anchor is reaped.                                *)
LEMMA SweptKeeps ==
  ASSUME IInv, NEW c \in Callers, Swept(c)
  PROVE  IInv'
<1> USE DEF Swept, Set, threads, pipes, family
<1>1. /\ reaper[c] = "sweeping" /\ OnlyZombies(c)
      /\ reaper' = [reaper EXCEPT ![c] = "swept"] /\ anchor' = [anchor EXCEPT ![c] = "gone"]
      /\ UNCHANGED <<conductor, threads, request, reply, leader, own, kin, stranger,
                     hit, pressed, faults>>
  OBVIOUS
<1>2. Types'
  <2>1. call' \in Calls
    BY <1>1 DEF IInv, Types, Calls, Places, Launching
  <2>2. state' \in States
    BY <1>1 DEF IInv, Types, States
  <2> QED
    BY <1>1, <2>1, <2>2 DEF IInv, Types
<1>3. Counted'
  BY <1>1, CountKept DEF IInv, Types, States, Calls, Launching
<1>4. MonitorIsLast'
  BY <1>1 DEF IInv, Types, States, MonitorIsLast
<1>5. PerCall(c)'
  <2>1. /\ PerCall(c) /\ reaper'[c] = "swept" /\ anchor'[c] = "gone"
        /\ leader[c] \in {"none", "refused", "zombie", "reaped"}
        /\ kin[c] \notin {"running", "doomed"}
    BY <1>1 DEF IInv, Types, PerCall, OnlyZombies
  <2>2. Anchored(c)' /\ Free(c)'
    BY <1>1, <2>1 DEF PerCall, Table, BeforeSpawn, Spawning, SpawnFailed,
       Supervised, Settling, InFlight, Anchored, Free, ReaperGone
  <2>3. Returned(c)' /\ Seized(c)'
    BY <1>1, <2>1 DEF PerCall, Table, BeforeSpawn, Spawning, SpawnFailed,
       Supervised, Settling, InFlight, Anchored, Returned, Seized, AgentRuns
  <2>4. conductor' = "alive" => Table(c)'
    BY <1>1, <2>1 DEF PerCall, Anchored, Returned, Table, BeforeSpawn, Spawning,
       SpawnFailed, Supervised, Settling, InFlight, Launching, ReaperGone
  <2>5. Blamed(c)' /\ PinsKept(c)'
    BY <1>1, <2>1 DEF PerCall, Anchored, Table, BeforeSpawn, Blamed, PinsKept
  <2>6. Owned(c)'
    BY <1>1, <2>1 DEF PerCall, Anchored, Owned, ReaperAlive
  <2> QED
    BY <2>2, <2>3, <2>4, <2>5, <2>6 DEF PerCall
<1>6. ASSUME NEW d \in Callers, d # c PROVE PerCall(d)'
  BY <1>1, <1>6, OthersKeep DEF IInv, Types, States, Calls
<1> QED
  BY <1>2, <1>3, <1>4, <1>5, <1>6 DEF IInv

(* The answer after the sweep.                                             *)
LEMMA ExitKeeps ==
  ASSUME IInv, NEW c \in Callers, Exit(c)
  PROVE  IInv'
<1> USE DEF Exit, Set, threads, pipes, family
<1>1. /\ reaper[c] = "swept" /\ reaper' = [reaper EXCEPT ![c] = "gone"]
      /\ reply' = [reply EXCEPT ![c] = IF request[c] \in {"cleanup", "cancel"} THEN "ok" ELSE reply[c]]
      /\ request' = [request EXCEPT ![c] = "none"]
      /\ UNCHANGED <<conductor, threads, family, pressed, faults>>
  OBVIOUS
<1>2. Types'
  <2>1. call' \in Calls
    BY <1>1 DEF IInv, Types, Calls, Places, Launching
  <2>2. state' \in States
    BY <1>1 DEF IInv, Types, States
  <2> QED
    BY <1>1, <2>1, <2>2 DEF IInv, Types
<1>3. Counted'
  BY <1>1, CountKept DEF IInv, Types, States, Calls, Launching
<1>4. MonitorIsLast'
  BY <1>1 DEF IInv, Types, States, MonitorIsLast
<1>5. PerCall(c)'
  <2>1. /\ PerCall(c) /\ reaper'[c] = "gone" /\ request'[c] = "none"
        /\ reply'[c] \in {reply[c], "ok"} /\ (request[c] \in {"cleanup", "cancel"} => reply'[c] = "ok")
    BY <1>1 DEF IInv, Types, States, Calls, PerCall
  <2>2. Anchored(c)' /\ Free(c)'
    BY <1>1, <2>1 DEF PerCall, Table, BeforeSpawn, Spawning, SpawnFailed,
       Supervised, Settling, InFlight, Anchored, Free, ReaperGone
  <2>3. Returned(c)' /\ Seized(c)'
    BY <1>1, <2>1 DEF PerCall, Table, BeforeSpawn, Spawning, SpawnFailed,
       Supervised, Settling, InFlight, Anchored, Returned, Seized, AgentRuns
  <2>4. conductor' = "alive" => Table(c)'
    BY <1>1, <2>1 DEF PerCall, Anchored, Returned, Table, BeforeSpawn, Spawning,
       SpawnFailed, Supervised, Settling, InFlight, Launching, ReaperGone
  <2>5. Blamed(c)' /\ PinsKept(c)'
    BY <1>1, <2>1 DEF PerCall, Anchored, Table, BeforeSpawn, Blamed, PinsKept
  <2>6. Owned(c)'
    BY <1>1, <2>1 DEF PerCall, Anchored, Owned, ReaperAlive
  <2> QED
    BY <2>2, <2>3, <2>4, <2>5, <2>6 DEF PerCall
<1>6. ASSUME NEW d \in Callers, d # c PROVE PerCall(d)'
  BY <1>1, <1>6, OthersKeep DEF IInv, Types, States, Calls
<1> QED
  BY <1>2, <1>3, <1>4, <1>5, <1>6 DEF IInv

(* A doomed process dies, and init reaps what a dead conductor left.       *)
LEMMA DieKeeps ==
  ASSUME IInv, NEW c \in Callers, Die(c)
  PROVE  IInv'
<1> USE DEF Die, Set, threads, pipes, family
<1>1. CASE leader' = [leader EXCEPT ![c] = "zombie"] /\ leader[c] = "doomed" /\
                                                                                            UNCHANGED
                                                                                            <<kin,
                                                                                            anchor>>
  <2>1. /\ leader[c] = "doomed" /\ leader' = [leader EXCEPT ![c] = "zombie"]
        /\ UNCHANGED <<conductor, threads, pipes, kin, anchor, own, stranger, hit,
                       pressed, faults>>
    BY <1>1
  <2>2. Types'
    <3>1. call' \in Calls
      BY <2>1 DEF IInv, Types, Calls, Places, Launching
    <3>2. state' \in States
      BY <2>1 DEF IInv, Types, States
    <3> QED
      BY <2>1, <3>1, <3>2 DEF IInv, Types
  <2>3. Counted'
    BY <2>1, CountKept DEF IInv, Types, States, Calls, Launching
  <2>4. MonitorIsLast'
    BY <2>1 DEF IInv, Types, States, MonitorIsLast
  <2>5. PerCall(c)'
    <3>1. /\ PerCall(c) /\ leader'[c] = "zombie"
      BY <2>1 DEF IInv, Types, States, Calls, PerCall
    <3>2. Anchored(c)' /\ Free(c)'
      BY <2>1, <3>1 DEF PerCall, Table, BeforeSpawn, Spawning, SpawnFailed,
         Supervised, Settling, InFlight, Anchored, Free, ReaperGone
    <3>3. Returned(c)' /\ Seized(c)'
      BY <2>1, <3>1 DEF PerCall, Table, BeforeSpawn, Spawning, SpawnFailed,
         Supervised, Settling, InFlight, Anchored, Returned, Seized, AgentRuns
    <3>4. conductor' = "alive" => Table(c)'
      BY <2>1, <3>1 DEF PerCall, Anchored, Returned, Table, BeforeSpawn,
         Spawning, SpawnFailed, Supervised, Settling, InFlight, Launching,
         ReaperGone
    <3>5. Blamed(c)' /\ PinsKept(c)'
      BY <2>1, <3>1 DEF PerCall, Anchored, Table, BeforeSpawn, Blamed, PinsKept
    <3>6. Owned(c)'
      BY <2>1, <3>1 DEF PerCall, Anchored, Owned, ReaperAlive
    <3> QED
      BY <3>2, <3>3, <3>4, <3>5, <3>6 DEF PerCall
  <2>6. ASSUME NEW d \in Callers, d # c PROVE PerCall(d)'
    BY <2>1, <2>6, OthersKeep DEF IInv, Types, States, Calls
  <2> QED
    BY <2>2, <2>3, <2>4, <2>5, <2>6 DEF IInv
<1>2. CASE kin[c] = "doomed" /\ Set(kin, c, "gone") /\ UNCHANGED <<leader, anchor>>
  <2>1. /\ kin[c] = "doomed" /\ kin' = [kin EXCEPT ![c] = "gone"]
        /\ UNCHANGED <<conductor, threads, pipes, leader, anchor, own, stranger,
                       hit, pressed, faults>>
    BY <1>2
  <2>2. Types'
    <3>1. call' \in Calls
      BY <2>1 DEF IInv, Types, Calls, Places, Launching
    <3>2. state' \in States
      BY <2>1 DEF IInv, Types, States
    <3> QED
      BY <2>1, <3>1, <3>2 DEF IInv, Types
  <2>3. Counted'
    BY <2>1, CountKept DEF IInv, Types, States, Calls, Launching
  <2>4. MonitorIsLast'
    BY <2>1 DEF IInv, Types, States, MonitorIsLast
  <2>5. PerCall(c)'
    <3>1. /\ PerCall(c) /\ kin'[c] = "gone"
      BY <2>1 DEF IInv, Types, States, Calls, PerCall
    <3>2. Anchored(c)' /\ Free(c)'
      BY <2>1, <3>1 DEF PerCall, Table, BeforeSpawn, Spawning, SpawnFailed,
         Supervised, Settling, InFlight, Anchored, Free, ReaperGone
    <3>3. Returned(c)' /\ Seized(c)'
      BY <2>1, <3>1 DEF PerCall, Table, BeforeSpawn, Spawning, SpawnFailed,
         Supervised, Settling, InFlight, Anchored, Returned, Seized, AgentRuns
    <3>4. conductor' = "alive" => Table(c)'
      BY <2>1, <3>1 DEF PerCall, Anchored, Returned, Table, BeforeSpawn,
         Spawning, SpawnFailed, Supervised, Settling, InFlight, Launching,
         ReaperGone
    <3>5. Blamed(c)' /\ PinsKept(c)'
      BY <2>1, <3>1 DEF PerCall, Anchored, Table, BeforeSpawn, Blamed, PinsKept
    <3>6. Owned(c)'
      BY <2>1, <3>1 DEF PerCall, Anchored, Owned, ReaperAlive
    <3> QED
      BY <3>2, <3>3, <3>4, <3>5, <3>6 DEF PerCall
  <2>6. ASSUME NEW d \in Callers, d # c PROVE PerCall(d)'
    BY <2>1, <2>6, OthersKeep DEF IInv, Types, States, Calls
  <2> QED
    BY <2>2, <2>3, <2>4, <2>5, <2>6 DEF IInv
<1>3. CASE /\ anchor[c] = "doomed" /\ UNCHANGED <<leader,
                                                  kin>> /\ reaper[c] = "killed"
           /\ Set(anchor, c, "gone")
  <2>1. /\ anchor[c] = "doomed" /\ reaper[c] = "killed"
        /\ anchor' = [anchor EXCEPT ![c] = "gone"]
        /\ UNCHANGED <<conductor, threads, pipes, leader, kin, own, stranger, hit,
                       pressed, faults>>
    BY <1>3
  <2>2. Types'
    <3>1. call' \in Calls
      BY <2>1 DEF IInv, Types, Calls, Places, Launching
    <3>2. state' \in States
      BY <2>1 DEF IInv, Types, States
    <3> QED
      BY <2>1, <3>1, <3>2 DEF IInv, Types
  <2>3. Counted'
    BY <2>1, CountKept DEF IInv, Types, States, Calls, Launching
  <2>4. MonitorIsLast'
    BY <2>1 DEF IInv, Types, States, MonitorIsLast
  <2>5. PerCall(c)'
    <3>1. /\ PerCall(c) /\ anchor'[c] = "gone"
      BY <2>1 DEF IInv, Types, States, Calls, PerCall
    <3>2. Anchored(c)' /\ Free(c)'
      BY <2>1, <3>1 DEF PerCall, Table, BeforeSpawn, Spawning, SpawnFailed,
         Supervised, Settling, InFlight, Anchored, Free, ReaperGone
    <3>3. Returned(c)' /\ Seized(c)'
      BY <2>1, <3>1 DEF PerCall, Table, BeforeSpawn, Spawning, SpawnFailed,
         Supervised, Settling, InFlight, Anchored, Returned, Seized, AgentRuns
    <3>4. conductor' = "alive" => Table(c)'
      BY <2>1, <3>1 DEF PerCall, Anchored, Returned, Table, BeforeSpawn,
         Spawning, SpawnFailed, Supervised, Settling, InFlight, Launching,
         ReaperGone
    <3>5. Blamed(c)' /\ PinsKept(c)'
      BY <2>1, <3>1 DEF PerCall, Anchored, Table, BeforeSpawn, Blamed, PinsKept
    <3>6. Owned(c)'
      BY <2>1, <3>1 DEF PerCall, Anchored, Owned, ReaperAlive
    <3> QED
      BY <3>2, <3>3, <3>4, <3>5, <3>6 DEF PerCall
  <2>6. ASSUME NEW d \in Callers, d # c PROVE PerCall(d)'
    BY <2>1, <2>6, OthersKeep DEF IInv, Types, States, Calls
  <2> QED
    BY <2>2, <2>3, <2>4, <2>5, <2>6 DEF IInv
<1>4. CASE /\ anchor[c] = "doomed" /\ UNCHANGED <<leader,
                                                  kin>> /\ reaper[c] # "killed"
           /\ Set(anchor, c, "zombie")
  <2>1. /\ anchor[c] = "doomed" /\ reaper[c] # "killed"
        /\ anchor' = [anchor EXCEPT ![c] = "zombie"]
        /\ UNCHANGED <<conductor, threads, pipes, leader, kin, own, stranger, hit,
                       pressed, faults>>
    BY <1>4
  <2>2. Types'
    <3>1. call' \in Calls
      BY <2>1 DEF IInv, Types, Calls, Places, Launching
    <3>2. state' \in States
      BY <2>1 DEF IInv, Types, States
    <3> QED
      BY <2>1, <3>1, <3>2 DEF IInv, Types
  <2>3. Counted'
    BY <2>1, CountKept DEF IInv, Types, States, Calls, Launching
  <2>4. MonitorIsLast'
    BY <2>1 DEF IInv, Types, States, MonitorIsLast
  <2>5. PerCall(c)'
    <3>1. /\ PerCall(c) /\ anchor'[c] = "zombie"
      BY <2>1 DEF IInv, Types, States, Calls, PerCall
    <3>2. Anchored(c)' /\ Free(c)'
      BY <2>1, <3>1 DEF PerCall, Table, BeforeSpawn, Spawning, SpawnFailed,
         Supervised, Settling, InFlight, Anchored, Free, ReaperGone
    <3>3. Returned(c)' /\ Seized(c)'
      BY <2>1, <3>1 DEF PerCall, Table, BeforeSpawn, Spawning, SpawnFailed,
         Supervised, Settling, InFlight, Anchored, Returned, Seized, AgentRuns
    <3>4. conductor' = "alive" => Table(c)'
      BY <2>1, <3>1 DEF PerCall, Anchored, Returned, Table, BeforeSpawn,
         Spawning, SpawnFailed, Supervised, Settling, InFlight, Launching,
         ReaperGone
    <3>5. Blamed(c)' /\ PinsKept(c)'
      BY <2>1, <3>1 DEF PerCall, Anchored, Table, BeforeSpawn, Blamed, PinsKept
    <3>6. Owned(c)'
      BY <2>1, <3>1 DEF PerCall, Anchored, Owned, ReaperAlive
    <3> QED
      BY <3>2, <3>3, <3>4, <3>5, <3>6 DEF PerCall
  <2>6. ASSUME NEW d \in Callers, d # c PROVE PerCall(d)'
    BY <2>1, <2>6, OthersKeep DEF IInv, Types, States, Calls
  <2> QED
    BY <2>2, <2>3, <2>4, <2>5, <2>6 DEF IInv
<1>5. CASE /\ leader[c] \in {"refused", "zombie"} /\ conductor = "gone" /\ Set(leader, c, "reaped")
           /\ UNCHANGED <<kin, anchor>>
  <2>1. /\ leader[c] \in {"refused", "zombie"} /\ conductor = "gone"
        /\ leader' = [leader EXCEPT ![c] = "reaped"]
        /\ UNCHANGED <<conductor, threads, pipes, kin, anchor, own, stranger, hit,
                       pressed, faults>>
    BY <1>5
  <2>2. Types'
    <3>1. call' \in Calls
      BY <2>1 DEF IInv, Types, Calls, Places, Launching
    <3>2. state' \in States
      BY <2>1 DEF IInv, Types, States
    <3> QED
      BY <2>1, <3>1, <3>2 DEF IInv, Types
  <2>3. Counted'
    BY <2>1, CountKept DEF IInv, Types, States, Calls, Launching
  <2>4. MonitorIsLast'
    BY <2>1 DEF IInv, Types, States, MonitorIsLast
  <2>5. PerCall(c)'
    <3>1. /\ PerCall(c) /\ leader'[c] = "reaped"
      BY <2>1 DEF IInv, Types, States, Calls, PerCall
    <3>2. Anchored(c)' /\ Free(c)'
      BY <2>1, <3>1 DEF PerCall, Table, BeforeSpawn, Spawning, SpawnFailed,
         Supervised, Settling, InFlight, Anchored, Free, ReaperGone
    <3>3. Returned(c)' /\ Seized(c)'
      BY <2>1, <3>1 DEF PerCall, Table, BeforeSpawn, Spawning, SpawnFailed,
         Supervised, Settling, InFlight, Anchored, Returned, Seized, AgentRuns
    <3>4. conductor' = "alive" => Table(c)'
      BY <2>1, <3>1 DEF PerCall, Anchored, Returned, Table, BeforeSpawn,
         Spawning, SpawnFailed, Supervised, Settling, InFlight, Launching,
         ReaperGone
    <3>5. Blamed(c)' /\ PinsKept(c)'
      BY <2>1, <3>1 DEF PerCall, Anchored, Table, BeforeSpawn, Blamed, PinsKept
    <3>6. Owned(c)'
      BY <2>1, <3>1 DEF PerCall, Anchored, Owned, ReaperAlive
    <3> QED
      BY <3>2, <3>3, <3>4, <3>5, <3>6 DEF PerCall
  <2>6. ASSUME NEW d \in Callers, d # c PROVE PerCall(d)'
    BY <2>1, <2>6, OthersKeep DEF IInv, Types, States, Calls
  <2> QED
    BY <2>2, <2>3, <2>4, <2>5, <2>6 DEF IInv
<1> QED
  BY <1>1, <1>2, <1>3, <1>4, <1>5

(* What an agent and its descendant do.                                    *)
LEMMA AgentKeeps ==
  ASSUME IInv, NEW c \in Callers, Agent(c)
  PROVE  IInv'
<1> USE DEF Agent, Set, threads, pipes, family
<1>1. CASE leader[c] = "running" /\ Set(leader, c, "zombie") /\ Set(own, c, TRUE) /\ UNCHANGED kin
  <2>1. /\ leader[c] = "running" /\ leader' = [leader EXCEPT ![c] = "zombie"]
        /\ own' = [own EXCEPT ![c] = TRUE]
        /\ UNCHANGED <<conductor, threads, pipes, anchor, kin, stranger, hit,
                       pressed, faults>>
    BY <1>1
  <2>2. Types'
    <3>1. call' \in Calls
      BY <2>1 DEF IInv, Types, Calls, Places, Launching
    <3>2. state' \in States
      BY <2>1 DEF IInv, Types, States
    <3> QED
      BY <2>1, <3>1, <3>2 DEF IInv, Types
  <2>3. Counted'
    BY <2>1, CountKept DEF IInv, Types, States, Calls, Launching
  <2>4. MonitorIsLast'
    BY <2>1 DEF IInv, Types, States, MonitorIsLast
  <2>5. PerCall(c)'
    <3>1. /\ PerCall(c) /\ leader'[c] = "zombie" /\ own'[c] = TRUE
      BY <2>1 DEF IInv, Types, States, Calls, PerCall
    <3>2. Anchored(c)' /\ Free(c)'
      BY <2>1, <3>1 DEF PerCall, Table, BeforeSpawn, Spawning, SpawnFailed,
         Supervised, Settling, InFlight, Anchored, Free, ReaperGone
    <3>3. Returned(c)' /\ Seized(c)'
      BY <2>1, <3>1 DEF PerCall, Table, BeforeSpawn, Spawning, SpawnFailed,
         Supervised, Settling, InFlight, Anchored, Returned, Seized, AgentRuns
    <3>4. conductor' = "alive" => Table(c)'
      BY <2>1, <3>1 DEF PerCall, Anchored, Returned, Table, BeforeSpawn,
         Spawning, SpawnFailed, Supervised, Settling, InFlight, Launching,
         ReaperGone
    <3>5. Blamed(c)' /\ PinsKept(c)'
      BY <2>1, <3>1 DEF PerCall, Anchored, Table, BeforeSpawn, Blamed, PinsKept
    <3>6. Owned(c)'
      BY <2>1, <3>1 DEF PerCall, Anchored, Owned, ReaperAlive
    <3> QED
      BY <3>2, <3>3, <3>4, <3>5, <3>6 DEF PerCall
  <2>6. ASSUME NEW d \in Callers, d # c PROVE PerCall(d)'
    BY <2>1, <2>6, OthersKeep DEF IInv, Types, States, Calls
  <2> QED
    BY <2>2, <2>3, <2>4, <2>5, <2>6 DEF IInv
<1>2. CASE leader[c] = "running" /\ Set(kin, c, "running") /\ UNCHANGED <<leader,
                                                                          own>>
  <2>1. /\ leader[c] = "running" /\ kin' = [kin EXCEPT ![c] = "running"]
        /\ UNCHANGED <<conductor, threads, pipes, anchor, leader, own, stranger,
                       hit, pressed, faults>>
    BY <1>2
  <2>2. Types'
    <3>1. call' \in Calls
      BY <2>1 DEF IInv, Types, Calls, Places, Launching
    <3>2. state' \in States
      BY <2>1 DEF IInv, Types, States
    <3> QED
      BY <2>1, <3>1, <3>2 DEF IInv, Types
  <2>3. Counted'
    BY <2>1, CountKept DEF IInv, Types, States, Calls, Launching
  <2>4. MonitorIsLast'
    BY <2>1 DEF IInv, Types, States, MonitorIsLast
  <2>5. PerCall(c)'
    <3>1. /\ PerCall(c) /\ kin'[c] = "running"
      BY <2>1 DEF IInv, Types, States, Calls, PerCall
    <3>2. Anchored(c)' /\ Free(c)'
      BY <2>1, <3>1 DEF PerCall, Table, BeforeSpawn, Spawning, SpawnFailed,
         Supervised, Settling, InFlight, Anchored, Free, ReaperGone
    <3>3. Returned(c)' /\ Seized(c)'
      BY <2>1, <3>1 DEF PerCall, Table, BeforeSpawn, Spawning, SpawnFailed,
         Supervised, Settling, InFlight, Anchored, Returned, Seized, AgentRuns
    <3>4. conductor' = "alive" => Table(c)'
      BY <2>1, <3>1 DEF PerCall, Anchored, Returned, Table, BeforeSpawn,
         Spawning, SpawnFailed, Supervised, Settling, InFlight, Launching,
         ReaperGone
    <3>5. Blamed(c)' /\ PinsKept(c)'
      BY <2>1, <3>1 DEF PerCall, Anchored, Table, BeforeSpawn, Blamed, PinsKept
    <3>6. Owned(c)'
      BY <2>1, <3>1 DEF PerCall, Anchored, Owned, ReaperAlive
    <3> QED
      BY <3>2, <3>3, <3>4, <3>5, <3>6 DEF PerCall
  <2>6. ASSUME NEW d \in Callers, d # c PROVE PerCall(d)'
    BY <2>1, <2>6, OthersKeep DEF IInv, Types, States, Calls
  <2> QED
    BY <2>2, <2>3, <2>4, <2>5, <2>6 DEF IInv
<1>3. CASE kin[c] = "running" /\ UNCHANGED <<leader,
                                             own>> /\ kin' = [kin EXCEPT ![c] = "gone"]
  <2>1. /\ kin[c] = "running" /\ kin' = [kin EXCEPT ![c] = "gone"]
        /\ UNCHANGED <<conductor, threads, pipes, anchor, leader, own, stranger,
                       hit, pressed, faults>>
    BY <1>3
  <2>2. Types'
    <3>1. call' \in Calls
      BY <2>1 DEF IInv, Types, Calls, Places, Launching
    <3>2. state' \in States
      BY <2>1 DEF IInv, Types, States
    <3> QED
      BY <2>1, <3>1, <3>2 DEF IInv, Types
  <2>3. Counted'
    BY <2>1, CountKept DEF IInv, Types, States, Calls, Launching
  <2>4. MonitorIsLast'
    BY <2>1 DEF IInv, Types, States, MonitorIsLast
  <2>5. PerCall(c)'
    <3>1. /\ PerCall(c) /\ kin'[c] = "gone"
      BY <2>1 DEF IInv, Types, States, Calls, PerCall
    <3>2. Anchored(c)' /\ Free(c)'
      BY <2>1, <3>1 DEF PerCall, Table, BeforeSpawn, Spawning, SpawnFailed,
         Supervised, Settling, InFlight, Anchored, Free, ReaperGone
    <3>3. Returned(c)' /\ Seized(c)'
      BY <2>1, <3>1 DEF PerCall, Table, BeforeSpawn, Spawning, SpawnFailed,
         Supervised, Settling, InFlight, Anchored, Returned, Seized, AgentRuns
    <3>4. conductor' = "alive" => Table(c)'
      BY <2>1, <3>1 DEF PerCall, Anchored, Returned, Table, BeforeSpawn,
         Spawning, SpawnFailed, Supervised, Settling, InFlight, Launching,
         ReaperGone
    <3>5. Blamed(c)' /\ PinsKept(c)'
      BY <2>1, <3>1 DEF PerCall, Anchored, Table, BeforeSpawn, Blamed, PinsKept
    <3>6. Owned(c)'
      BY <2>1, <3>1 DEF PerCall, Anchored, Owned, ReaperAlive
    <3> QED
      BY <3>2, <3>3, <3>4, <3>5, <3>6 DEF PerCall
  <2>6. ASSUME NEW d \in Callers, d # c PROVE PerCall(d)'
    BY <2>1, <2>6, OthersKeep DEF IInv, Types, States, Calls
  <2> QED
    BY <2>2, <2>3, <2>4, <2>5, <2>6 DEF IInv
<1>4. CASE kin[c] = "running" /\ UNCHANGED <<leader,
                                             own>> /\ kin' = [kin EXCEPT ![c] = "escaped"]
  <2>1. /\ kin[c] = "running" /\ kin' = [kin EXCEPT ![c] = "escaped"]
        /\ UNCHANGED <<conductor, threads, pipes, anchor, leader, own, stranger,
                       hit, pressed, faults>>
    BY <1>4
  <2>2. Types'
    <3>1. call' \in Calls
      BY <2>1 DEF IInv, Types, Calls, Places, Launching
    <3>2. state' \in States
      BY <2>1 DEF IInv, Types, States
    <3> QED
      BY <2>1, <3>1, <3>2 DEF IInv, Types
  <2>3. Counted'
    BY <2>1, CountKept DEF IInv, Types, States, Calls, Launching
  <2>4. MonitorIsLast'
    BY <2>1 DEF IInv, Types, States, MonitorIsLast
  <2>5. PerCall(c)'
    <3>1. /\ PerCall(c) /\ kin'[c] = "escaped"
      BY <2>1 DEF IInv, Types, States, Calls, PerCall
    <3>2. Anchored(c)' /\ Free(c)'
      BY <2>1, <3>1 DEF PerCall, Table, BeforeSpawn, Spawning, SpawnFailed,
         Supervised, Settling, InFlight, Anchored, Free, ReaperGone
    <3>3. Returned(c)' /\ Seized(c)'
      BY <2>1, <3>1 DEF PerCall, Table, BeforeSpawn, Spawning, SpawnFailed,
         Supervised, Settling, InFlight, Anchored, Returned, Seized, AgentRuns
    <3>4. conductor' = "alive" => Table(c)'
      BY <2>1, <3>1 DEF PerCall, Anchored, Returned, Table, BeforeSpawn,
         Spawning, SpawnFailed, Supervised, Settling, InFlight, Launching,
         ReaperGone
    <3>5. Blamed(c)' /\ PinsKept(c)'
      BY <2>1, <3>1 DEF PerCall, Anchored, Table, BeforeSpawn, Blamed, PinsKept
    <3>6. Owned(c)'
      BY <2>1, <3>1 DEF PerCall, Anchored, Owned, ReaperAlive
    <3> QED
      BY <3>2, <3>3, <3>4, <3>5, <3>6 DEF PerCall
  <2>6. ASSUME NEW d \in Callers, d # c PROVE PerCall(d)'
    BY <2>1, <2>6, OthersKeep DEF IInv, Types, States, Calls
  <2> QED
    BY <2>2, <2>3, <2>4, <2>5, <2>6 DEF IInv
<1> QED
  BY <1>1, <1>2, <1>3, <1>4

(* The clock and the output.                                               *)
LEMMA PressKeeps ==
  ASSUME IInv, NEW c \in Callers, Press(c)
  PROVE  IInv'
<1> USE DEF Press, Set, threads, pipes, family
<1>1. /\ \E what \in {"late", "flood"} : pressed' = [pressed EXCEPT ![c] = @ \cup {what}]
      /\ UNCHANGED <<conductor, threads, pipes, family, faults>>
  OBVIOUS
<1>2. Types'
  <2>1. call' \in Calls
    BY <1>1 DEF IInv, Types, Calls, Places, Launching
  <2>2. state' \in States
    BY <1>1 DEF IInv, Types, States
  <2> QED
    BY <1>1, <2>1, <2>2 DEF IInv, Types
<1>3. Counted'
  BY <1>1, CountKept DEF IInv, Types, States, Calls, Launching
<1>4. MonitorIsLast'
  BY <1>1 DEF IInv, Types, States, MonitorIsLast
<1>5. PerCall(c)'
  <2>1. PerCall(c)
    BY <1>1 DEF IInv, Types, States, Calls, PerCall
  <2>2. Anchored(c)' /\ Free(c)'
    BY <1>1, <2>1 DEF PerCall, Table, BeforeSpawn, Spawning, SpawnFailed,
       Supervised, Settling, InFlight, Anchored, Free, ReaperGone
  <2>3. Returned(c)' /\ Seized(c)'
    BY <1>1, <2>1 DEF PerCall, Table, BeforeSpawn, Spawning, SpawnFailed,
       Supervised, Settling, InFlight, Anchored, Returned, Seized, AgentRuns
  <2>4. conductor' = "alive" => Table(c)'
    BY <1>1, <2>1 DEF PerCall, Anchored, Returned, Table, BeforeSpawn, Spawning,
       SpawnFailed, Supervised, Settling, InFlight, Launching, ReaperGone
  <2>5. Blamed(c)' /\ PinsKept(c)'
    BY <1>1, <2>1 DEF PerCall, Anchored, Table, BeforeSpawn, Blamed, PinsKept
  <2>6. Owned(c)'
    BY <1>1, <2>1 DEF PerCall, Anchored, Owned, ReaperAlive
  <2> QED
    BY <2>2, <2>3, <2>4, <2>5, <2>6 DEF PerCall
<1>6. ASSUME NEW d \in Callers, d # c PROVE PerCall(d)'
  BY <1>1, <1>6, OthersKeep DEF IInv, Types, States, Calls
<1> QED
  BY <1>2, <1>3, <1>4, <1>5, <1>6 DEF IInv

(* A free number finds a new owner.                                        *)
LEMMA ReuseKeeps ==
  ASSUME IInv, NEW c \in Callers, Reuse(c)
  PROVE  IInv'
<1> USE DEF Reuse, Set, threads, pipes, family
<1>1. /\ leader[c] = "reaped" /\ ~Pinned(c) /\ stranger' = [stranger EXCEPT ![c] = TRUE]
      /\ UNCHANGED <<conductor, threads, pipes, leader, own, kin, anchor, hit,
                     pressed, faults>>
  OBVIOUS
<1>2. Types'
  <2>1. call' \in Calls
    BY <1>1 DEF IInv, Types, Calls, Places, Launching
  <2>2. state' \in States
    BY <1>1 DEF IInv, Types, States
  <2> QED
    BY <1>1, <2>1, <2>2 DEF IInv, Types
<1>3. Counted'
  BY <1>1, CountKept DEF IInv, Types, States, Calls, Launching
<1>4. MonitorIsLast'
  BY <1>1 DEF IInv, Types, States, MonitorIsLast
<1>5. PerCall(c)'
  <2>1. /\ PerCall(c)
        /\ kin[c] \notin {"running", "doomed"} /\ anchor[c] \notin {"stopped", "doomed", "zombie"}
    BY <1>1 DEF IInv, Types, PerCall, Pinned
  <2>2. Anchored(c)' /\ Free(c)'
    BY <1>1, <2>1 DEF PerCall, Table, BeforeSpawn, Spawning, SpawnFailed,
       Supervised, Settling, InFlight, Anchored, Free, ReaperGone
  <2>3. Returned(c)' /\ Seized(c)'
    BY <1>1, <2>1 DEF PerCall, Table, BeforeSpawn, Spawning, SpawnFailed,
       Supervised, Settling, InFlight, Anchored, Returned, Seized, AgentRuns
  <2>4. conductor' = "alive" => Table(c)'
    BY <1>1, <2>1 DEF PerCall, Anchored, Returned, Table, BeforeSpawn, Spawning,
       SpawnFailed, Supervised, Settling, InFlight, Launching, ReaperGone
  <2>5. Blamed(c)' /\ PinsKept(c)'
    BY <1>1, <2>1 DEF PerCall, Anchored, Table, BeforeSpawn, Blamed, PinsKept
  <2>6. Owned(c)'
    BY <1>1, <2>1 DEF PerCall, Anchored, Owned, ReaperAlive
  <2> QED
    BY <2>2, <2>3, <2>4, <2>5, <2>6 DEF PerCall
<1>6. ASSUME NEW d \in Callers, d # c PROVE PerCall(d)'
  BY <1>1, <1>6, OthersKeep DEF IInv, Types, States, Calls
<1> QED
  BY <1>2, <1>3, <1>4, <1>5, <1>6 DEF IInv

(* A kill of one caller's group dooms its living, and nobody else's.       *)
LEMMA GroupKilled ==
  ASSUME Types, NEW c \in Callers, KillGroups({c})
  PROVE  /\ leader' \in [Callers -> {"none", "forked", "asking", "running", "doomed",
                                     "refused", "zombie", "reaped"}]
         /\ kin' \in [Callers -> {"none", "running", "doomed", "gone", "escaped"}]
         /\ anchor' \in [Callers -> {"none", "stopped", "doomed", "zombie", "gone"}]
         /\ hit' \in [Callers -> BOOLEAN] /\ UNCHANGED <<own, stranger>>
         /\ leader'[c] = IF leader[c] \in {"forked", "asking", "running"} THEN "doomed"
                         ELSE leader[c]
         /\ kin'[c] = IF kin[c] = "running" THEN "doomed" ELSE kin[c]
         /\ anchor'[c] = IF anchor[c] = "stopped" THEN "doomed" ELSE anchor[c]
         /\ ~stranger[c] => (hit'[c] <=> hit[c])
         /\ \A d \in Callers : d # c =>
              /\ leader'[d] = leader[d] /\ kin'[d] = kin[d] /\ anchor'[d] = anchor[d]
              /\ hit'[d] <=> hit[d]
  BY DEF Types, KillGroups, Doom

(* A pass of the reaper's sweep: whatever carries the number is the        *)
(* agent's, since the anchor holds it.                                     *)
LEMMA SweepKeeps ==
  ASSUME IInv, NEW c \in Callers, Sweep(c)
  PROVE  IInv'
<1>1. /\ reaper' = [reaper EXCEPT ![c] = "sweeping"]
      /\ reaper[c] \in {"anchored", "sweeping"}
      /\ reaper[c] = "anchored" => conductor = "gone" \/ request[c] \in {"cleanup", "cancel"}
      /\ UNCHANGED <<conductor, threads, request, reply, pressed, faults>>
  BY DEF Sweep, Set, Orphaned
<1>2. /\ leader' \in [Callers -> {"none", "forked", "asking", "running", "doomed",
                                  "refused", "zombie", "reaped"}]
      /\ kin' \in [Callers -> {"none", "running", "doomed", "gone", "escaped"}]
      /\ anchor' \in [Callers -> {"none", "stopped", "doomed", "zombie", "gone"}]
      /\ hit' \in [Callers -> BOOLEAN] /\ UNCHANGED <<own, stranger>>
  BY GroupKilled DEF IInv, Sweep
<1>3. /\ leader'[c] = IF leader[c] \in {"forked", "asking", "running"} THEN "doomed"
                      ELSE leader[c]
      /\ kin'[c] = IF kin[c] = "running" THEN "doomed" ELSE kin[c]
      /\ anchor'[c] = IF anchor[c] = "stopped" THEN "doomed" ELSE anchor[c]
      /\ ~stranger[c] => (hit'[c] <=> hit[c])
  BY GroupKilled DEF IInv, Sweep
<1>4. Types'
  BY <1>1, <1>2 DEF IInv, Types, threads
<1>5. Counted'
  BY <1>1, CountKept DEF IInv, threads
<1>6. MonitorIsLast'
  BY <1>1 DEF IInv, MonitorIsLast, threads
<1>7. PerCall(c)'
  <2>1. PerCall(c) /\ reaper'[c] = "sweeping" /\ anchor[c] \in {"stopped", "doomed", "zombie"}
        /\ ~stranger[c]
    BY <1>1 DEF IInv, Types, PerCall, Anchored, Free
  <2>2. Anchored(c)' /\ Free(c)'
    BY <1>1, <1>2, <1>3, <2>1 DEF PerCall, Anchored, Free, threads
  <2>3. Returned(c)' /\ Seized(c)'
    BY <1>1, <1>2, <1>3, <2>1 DEF PerCall, Returned, Seized, AgentRuns, threads
  <2>4. ASSUME conductor' = "alive" PROVE Table(c)'
    <3>1. /\ call[c].at \in {"finish", "cancelling", "done"} /\ Table(c)
          /\ call[c].at = "done" => c \notin state.groups
      BY <1>1, <2>1, <2>4 DEF PerCall, Table, InFlight, threads, BeforeSpawn,
         Spawning, SpawnFailed, Supervised, Settling, ReaperGone
    <3>2. BeforeSpawn(c)' /\ Spawning(c)' /\ SpawnFailed(c)'
      BY <1>1, <1>3, <2>1, <3>1 DEF Table, BeforeSpawn, Spawning, SpawnFailed,
         threads, ReaperGone
    <3>3. Supervised(c)' /\ Settling(c)' /\ InFlight(c)'
      BY <1>1, <1>3, <2>1, <3>1 DEF Table, Supervised, Settling, InFlight,
         threads, ReaperGone
    <3> QED
      BY <3>2, <3>3 DEF Table
  <2>5. Blamed(c)' /\ PinsKept(c)'
    BY <1>1, <1>2, <1>3, <2>1 DEF PerCall, Blamed, PinsKept, threads
  <2>6. Owned(c)'
    BY <1>1, <2>1 DEF Owned, ReaperAlive
  <2> QED
    BY <2>2, <2>3, <2>4, <2>5, <2>6 DEF PerCall
<1>8. ASSUME NEW d \in Callers, d # c PROVE PerCall(d)'
  <2>1. /\ leader'[d] = leader[d] /\ kin'[d] = kin[d] /\ anchor'[d] = anchor[d]
        /\ hit'[d] <=> hit[d]
    BY <1>8, GroupKilled DEF IInv, Sweep
  <2>2. PerCall(d) /\ reaper'[d] = reaper[d] /\ own'[d] = own[d] /\ stranger'[d] = stranger[d]
    BY <1>1, <1>2, <1>8 DEF IInv, Types
  <2> QED
    BY <1>1, <2>1, <2>2, OthersKeep DEF IInv, Types, threads
<1> QED
  BY <1>4, <1>5, <1>6, <1>7, <1>8 DEF IInv

(* The bound on the faults, where it is one.                               *)
LEMMA AtMostOnce ==
  ASSUME NEW n \in Nat, n < MaxFaults, MaxFaults <= 1
  PROVE  n = 0
  BY FaultsAreKnown

(* SIGKILL of a reaper.                                                    *)
LEMMA KillReaperKeeps ==
  ASSUME IInv, NEW c \in Callers, KillReaper(c)
  PROVE  IInv'
<1>1. /\ reaper' = [reaper EXCEPT ![c] = "killed"] /\ faults' = faults + 1
      /\ reaper[c] \in {"ready", "anchored", "sweeping", "swept"}
      /\ ReaperFault # "always" => reaper[c] \in {"ready", "anchored"}
      /\ ReaperFault # "never" /\ faults < MaxFaults /\ faults \in Nat
      /\ UNCHANGED <<conductor, threads, request, reply, family, pressed>>
  BY DEF KillReaper, ReaperAlive, Set, IInv, Types
<1>2. Types'
  <2>1. faults' \in Nat
    BY <1>1
  <2>2. reaper' \in [Callers -> {"none", "ready", "anchored", "sweeping", "swept", "gone",
                                 "killed"}]
    BY <1>1 DEF IInv, Types
  <2> QED
    BY <1>1, <2>1, <2>2 DEF IInv, Types, threads, family
<1>3. Counted'
  BY <1>1, CountKept DEF IInv, threads
<1>4. MonitorIsLast'
  BY <1>1 DEF IInv, MonitorIsLast, threads
<1>5. faults' # 0 /\ (OneKill => faults = 0)
  <2>1. faults' # 0
    BY <1>1
  <2>2. MaxFaults <= 1 => faults = 0
    BY <1>1, AtMostOnce
  <2> QED
    BY <1>1, <2>1, <2>2 DEF OneKill
<1>6. PerCall(c)'
  <2>1. PerCall(c) /\ reaper'[c] = "killed"
    BY <1>1 DEF IInv, Types
  <2>2. Anchored(c)' /\ Free(c)'
    BY <1>1, <2>1 DEF PerCall, Anchored, Free, threads, family
  <2>3. Returned(c)' /\ Seized(c)'
    BY <1>1, <2>1 DEF PerCall, Returned, Seized, AgentRuns, threads, family
  <2>4. ASSUME conductor' = "alive" PROVE Table(c)'
    <3>1. Table(c) /\ Anchored(c)
      BY <1>1, <2>1, <2>4 DEF PerCall
    <3> QED
      BY <1>1, <2>1, <3>1 DEF Table, InFlight, BeforeSpawn, Spawning,
         SpawnFailed, Supervised, Settling, threads, family, ReaperGone,
         Anchored
  <2>5. Blamed(c)' /\ PinsKept(c)'
    BY <1>1, <1>5, <2>1 DEF PerCall, Anchored, Blamed, PinsKept, threads, family
  <2>6. Owned(c)'
    BY <1>1, <1>5, <2>1 DEF PerCall, Anchored, Blamed, Seized, AgentRuns, Owned,
       family, threads
  <2> QED
    BY <2>2, <2>3, <2>4, <2>5, <2>6 DEF PerCall
<1>7. ASSUME NEW d \in Callers, d # c PROVE PerCall(d)'
  <2>1. PerCall(d) /\ reaper'[d] = reaper[d]
    BY <1>1, <1>7 DEF IInv, Types
  <2>2. Blamed(d)'
    BY <1>1, <1>5, <2>1 DEF PerCall, Blamed
  <2>3. Anchored(d)' /\ Free(d)' /\ Returned(d)' /\ Seized(d)'
    BY <1>1, <2>1 DEF PerCall, Anchored, Free, Returned, Seized, AgentRuns,
       threads, family
  <2>4. conductor' = "alive" => Table(d)'
    BY <1>1, <2>1 DEF PerCall, Table, InFlight, BeforeSpawn, Spawning,
       SpawnFailed, Supervised, Settling, threads, family, ReaperGone
  <2>5. Owned(d)' /\ PinsKept(d)'
    BY <1>1, <2>1 DEF PerCall, Owned, PinsKept, ReaperAlive, threads, family
  <2> QED
    BY <2>2, <2>3, <2>4, <2>5 DEF PerCall
<1> QED
  BY <1>2, <1>3, <1>4, <1>6, <1>7 DEF IInv

(* groups_when_registered: with no launch under way, every agent is        *)
(* registered.                                                             *)
LEMMA SnapshotKeeps ==
  ASSUME IInv, conductor = "alive", Snapshot
  PROVE  IInv'
<1>1. /\ monitor = "watch" /\ pending /\ state.spawning = 0
      /\ state' = [state EXCEPT !.terminating = TRUE, !.leased = state.groups]
      /\ monitor' = "kill"
      /\ UNCHANGED <<conductor, pending, call, pipes, family, pressed, faults>>
  BY DEF Snapshot
<1>2. /\ state'.groups = state.groups /\ state'.leased = state.groups
      /\ state'.spawning = state.spawning /\ state' \in States
  BY <1>1 DEF IInv, Types, States
<1>3. Types'
  BY <1>1, <1>2 DEF IInv, Types, pipes, family
<1>4. Counted'
  BY <1>1, <1>2, CountKept DEF IInv
<1>5. MonitorIsLast'
  BY <1>1, <1>2 DEF MonitorIsLast
<1>6. ASSUME NEW c \in Callers PROVE PerCall(c)'
  <2>1. PerCall(c) /\ Table(c) /\ call[c].at \notin Launching /\ call[c].at \in Places
    BY <1>1 DEF IInv, PerCall, Counted, Types, Calls
  <2>2. Anchored(c)' /\ Free(c)' /\ Returned(c)'
    BY <1>1, <1>2, <2>1 DEF PerCall, Anchored, Free, Returned, pipes, family
  <2>3. /\ leader[c] \notin {"forked", "asking"}
        /\ AgentRuns(c) => c \in state.groups
    BY <2>1 DEF PerCall, Anchored, Table, BeforeSpawn, Supervised, Settling,
       Places, Launching, AgentRuns
  <2>4. Seized(c)'
    BY <1>1, <1>2, <2>3 DEF Seized, AgentRuns, family
  <2>5. Table(c)'
    BY <1>1, <1>2, <2>1 DEF Table, InFlight, BeforeSpawn, Spawning, SpawnFailed,
       Supervised, Settling, pipes, family, ReaperGone
  <2>6. Blamed(c)' /\ Owned(c)' /\ PinsKept(c)'
    BY <1>1, <2>1 DEF PerCall, Blamed, Owned, PinsKept, ReaperAlive, pipes,
       family
  <2> QED
    BY <2>2, <2>4, <2>5, <2>6 DEF PerCall
<1> QED
  BY <1>3, <1>4, <1>5, <1>6 DEF IInv

(* The kill: no agent survives it, and no stranger is registered.          *)
LEMMA KillAllKeeps ==
  ASSUME IInv, conductor = "alive", KillAll
  PROVE  IInv'
<1>1. /\ monitor = "kill" /\ monitor' = "raise"
      /\ UNCHANGED <<conductor, pending, state, call, pipes, pressed, faults>>
      /\ UNCHANGED <<own, stranger>>
  BY DEF KillAll, KillGroups
<1>2. /\ leader' \in [Callers -> {"none", "forked", "asking", "running", "doomed",
                                  "refused", "zombie", "reaped"}]
      /\ kin' \in [Callers -> {"none", "running", "doomed", "gone", "escaped"}]
      /\ anchor' \in [Callers -> {"none", "stopped", "doomed", "zombie", "gone"}]
      /\ hit' \in [Callers -> BOOLEAN]
  BY DEF IInv, Types, KillAll, KillGroups, Doom
<1>3. \A c \in Callers :
             /\ leader'[c] = IF c \in state.leased /\ leader[c] \in {"forked", "asking", "running"}
                             THEN "doomed" ELSE leader[c]
             /\ kin'[c] = IF c \in state.leased /\ kin[c] = "running" THEN "doomed" ELSE kin[c]
             /\ anchor'[c] = IF c \in state.leased /\ anchor[c] = "stopped" THEN "doomed"
                             ELSE anchor[c]
             /\ ~stranger[c] \/ c \notin state.leased => (hit'[c] <=> hit[c])
  BY DEF KillAll, KillGroups, Doom
<1>4. Types'
  BY <1>1, <1>2 DEF IInv, Types, pipes
<1>5. Counted'
  BY <1>1, CountKept DEF IInv
<1>6. MonitorIsLast'
  BY <1>1 DEF IInv, MonitorIsLast
<1>7. ASSUME NEW c \in Callers PROVE PerCall(c)'
  <2>1. /\ PerCall(c) /\ Table(c) /\ call[c].at \in Places /\ pending
        /\ leader[c] \notin {"forked", "asking"}
        /\ c \in state.leased => c \in state.groups
    BY <1>1 DEF IInv, PerCall, Seized, MonitorIsLast, Types, Calls
  <2>2. /\ leader'[c] = IF c \in state.leased /\ leader[c] = "running" THEN "doomed" ELSE leader[c]
        /\ kin'[c] = IF c \in state.leased /\ kin[c] = "running" THEN "doomed" ELSE kin[c]
        /\ anchor'[c] = IF c \in state.leased /\ anchor[c] = "stopped" THEN "doomed" ELSE anchor[c]
        /\ ~stranger[c] \/ c \notin state.leased => (hit'[c] <=> hit[c])
    <3>1. leader'[c] = IF c \in state.leased /\ leader[c] \in {"forked", "asking", "running"}
                       THEN "doomed" ELSE leader[c]
      BY <1>3
    <3> QED
      BY <1>3, <2>1, <3>1
  <2>3. Anchored(c)' /\ Free(c)'
    BY <1>1, <2>2, <2>1 DEF PerCall, Anchored, Free, pipes
  <2>4. Returned(c)' /\ Seized(c)'
    BY <1>1, <2>2, <2>1 DEF PerCall, Returned, Seized, AgentRuns, pipes
  <2>5. Table(c)'
    <3>1. c \in state.leased =>
            call[c].at \in {"waiting", "finish", "unpin", "unsettled", "done"}
      BY <2>1 DEF Table, InFlight
    <3>2. BeforeSpawn(c)' /\ Spawning(c)' /\ SpawnFailed(c)'
      BY <1>1, <2>2, <2>1, <3>1 DEF Table, BeforeSpawn, Spawning, SpawnFailed,
         pipes, ReaperGone
    <3>3. Supervised(c)' /\ Settling(c)' /\ InFlight(c)'
      BY <1>1, <2>2, <2>1, <3>1 DEF Table, Supervised, Settling, InFlight,
         pipes, ReaperGone
    <3> QED
      BY <3>2, <3>3 DEF Table
  <2>6. Blamed(c)' /\ Owned(c)'
    BY <1>1, <2>1 DEF PerCall, Blamed, Owned, pipes
  <2>7. PinsKept(c)'
    <3>1. ReaperFault # "always" /\ c \in state.leased => ~stranger[c]
      BY <1>1, <2>1 DEF PerCall, Anchored, Free, PinsKept, Table, InFlight,
         Supervised, Settling
    <3> QED
      BY <1>1, <2>2, <2>1, <3>1 DEF PerCall, PinsKept
  <2> QED
    BY <2>3, <2>4, <2>5, <2>6, <2>7 DEF PerCall
<1> QED
  BY <1>4, <1>5, <1>6, <1>7 DEF IInv

(* The conductor goes: by the signal it raises, or by a SIGKILL.           *)
LEMMA ConductorGoes ==
  ASSUME IInv, conductor = "alive", conductor' = "gone",
         UNCHANGED <<threads, pipes, family, pressed>>,
         \/ faults' = faults /\ monitor = "raise"
         \/ faults' = faults + 1 /\ faults < MaxFaults
  PROVE  IInv'
<1>1. faults \in Nat /\ faults' \in Nat
  BY DEF IInv, Types
<1>2. Types' /\ Counted' /\ MonitorIsLast'
  <2>1. Types'
    BY <1>1 DEF IInv, Types, threads, pipes, family
  <2>2. Counted'
    BY CountKept DEF IInv, threads
  <2>3. MonitorIsLast'
    BY DEF IInv, MonitorIsLast, threads
  <2> QED
    BY <2>1, <2>2, <2>3
<1>3. ASSUME NEW c \in Callers PROVE PerCall(c)'
  <2>1. PerCall(c) /\ Table(c) /\ reaper[c] \in {"none", "ready", "anchored", "sweeping", "swept",
                                                 "gone", "killed"}
    BY DEF IInv, PerCall, Types
  <2>2. Anchored(c)' /\ Free(c)' /\ Returned(c)' /\ Seized(c)'
    BY <2>1 DEF PerCall, Anchored, Free, Returned, Seized, AgentRuns, threads,
       pipes, family
  <2>3. Blamed(c)'
    BY <1>1, <2>1 DEF PerCall, Blamed, threads, pipes
  <2>4. PinsKept(c)'
    BY <2>1 DEF PerCall, PinsKept, threads, pipes, family
  <2>5. Owned(c)'
    <3>1. MaxFaults <= 1 /\ monitor # "raise" => faults = 0
      BY <1>1, AtMostOnce
    <3>2. OneKill /\ monitor # "raise" => reaper[c] # "killed"
      BY <2>1, <3>1 DEF OneKill, PerCall, Blamed
    <3> QED
      BY <2>1, <3>2 DEF PerCall, Owned, Anchored, Seized, AgentRuns,
         ReaperAlive, threads, pipes, family
  <2> QED
    BY <2>2, <2>3, <2>4, <2>5 DEF PerCall
<1> QED
  BY <1>2, <1>3 DEF IInv

(* A signal arrives.                                                       *)
LEMMA TerminateKeeps ==
  ASSUME IInv, Terminate
  PROVE  IInv'
<1>1. /\ pending' = TRUE
      /\ UNCHANGED <<conductor, monitor, state, call, pipes, family, pressed,
                     faults>>
  BY DEF Terminate
<1>2. Types'
  BY <1>1 DEF IInv, Types, pipes, family
<1>3. Counted'
  BY <1>1, CountKept DEF IInv
<1>4. MonitorIsLast'
  BY <1>1 DEF IInv, MonitorIsLast
<1>5. ASSUME NEW c \in Callers PROVE PerCall(c)'
  BY <1>1, OthersKeep DEF IInv, pipes, family
<1> QED
  BY <1>2, <1>3, <1>4, <1>5 DEF IInv
-----------------------------------------------------------------------------
(* Every step keeps the invariant.                                         *)
LEMMA IInvNext == IInv /\ [Next]_vars => IInv'
<1> SUFFICES ASSUME IInv, [Next]_vars PROVE IInv'
  OBVIOUS
<1>1. ASSUME Monitor PROVE IInv'
  <2>1. CASE Snapshot
    BY <1>1, <2>1, SnapshotKeeps DEF Monitor
  <2>2. CASE KillAll
    BY <1>1, <2>2, KillAllKeeps DEF Monitor
  <2>3. CASE Raise
    BY <1>1, <2>3, ConductorGoes DEF Monitor, Raise
  <2> QED
    BY <1>1, <2>1, <2>2, <2>3 DEF Monitor
<1>2. ASSUME Terminate PROVE IInv'
  BY <1>2, TerminateKeeps
<1>3. ASSUME KillConductor PROVE IInv'
  BY <1>3, ConductorGoes DEF KillConductor
<1>4. ASSUME NEW c \in Callers, Caller(c) PROVE IInv'
  BY <1>4, ClaimLaunchKeeps, SpawnReaperKeeps, ForkKeeps, SpawnedKeeps,
     RegisterKeeps, CancelKeeps, CancelledKeeps, PollKeeps, FinishedKeeps,
     ForgetKeeps, ReapKeeps, DrainKeeps DEF Caller
<1>5. ASSUME NEW c \in Callers, PreExec(c) \/ Exec(c) PROVE IInv'
  BY <1>5, PreExecKeeps, ExecKeeps
<1>6. ASSUME NEW c \in Callers, Reaper(c) PROVE IInv'
  BY <1>6, LeaveKeeps, AnchorKeeps, CancelNothingKeeps, SweepKeeps, SweptKeeps,
     ExitKeeps DEF Reaper
<1>7. ASSUME NEW c \in Callers, Die(c) \/ Agent(c) \/ Press(c) \/ Reuse(c) PROVE IInv'
  BY <1>7, DieKeeps, AgentKeeps, PressKeeps, ReuseKeeps
<1>8. ASSUME NEW c \in Callers, KillReaper(c) PROVE IInv'
  BY <1>8, KillReaperKeeps
<1>9. ASSUME UNCHANGED vars PROVE IInv'
  <2>1. UNCHANGED <<conductor, threads, pipes, family, pressed, faults>>
    BY <1>9 DEF vars
  <2>2. Types'
    BY <2>1 DEF IInv, Types, threads, pipes, family
  <2>3. Counted' /\ MonitorIsLast'
    BY <2>1, CountKept DEF IInv, MonitorIsLast, threads
  <2>4. ASSUME NEW c \in Callers PROVE PerCall(c)'
    BY <2>1, OthersKeep DEF IInv, threads, pipes, family
  <2> QED
    BY <2>2, <2>3, <2>4 DEF IInv
<1> QED
  BY <1>1, <1>2, <1>3, <1>4, <1>5, <1>6, <1>7, <1>8, <1>9 DEF Next

LEMMA IInvAlways == Spec => []IInv
<1> QED
  BY IInvInit, IInvNext, PTL DEF Spec
-----------------------------------------------------------------------------
(* The verdicts: when a call returns other than with an error the agent's  *)
(* child is reaped and nothing of its group runs, and an exit status is    *)
(* that of an agent that ended by itself -- whatever is killed, whenever,  *)
(* and however often.                                                      *)
THEOREM VerdictIsSettledAlways == Spec => []VerdictIsSettled
<1> QED
  BY IInvAlways, IInvGivesVerdict, PTL

(* The lease: when the reaper of a dead conductor exits by itself there is *)
(* nothing left of the agent that could still write to the worktree --     *)
(* again under any kills.                                                  *)
THEOREM LeaseOutlivesGroupAlways == Spec => []LeaseOutlivesGroup
<1> QED
  BY IInvAlways, IInvGivesLease, PTL

(* Ownership: with one SIGKILL, or any number of them but none of a        *)
(* reaper, an agent that runs has the conductor or its reaper beside it.   *)
THEOREM NoUnownedAgentAlways ==
  ASSUME OneKill PROVE Spec => []NoUnownedAgent
<1>1. IInv => NoUnownedAgent
  BY IInvGivesOwner
<1> QED
  BY <1>1, IInvAlways, PTL

(* Strangers: as long as no reaper is killed in its sweep, no signal of    *)
(* ours reaches a group that merely got the agent's number, however many   *)
(* reapers are killed before it.                                           *)
THEOREM NoStrangerHitAlways ==
  ASSUME ReaperFault # "always" PROVE Spec => []NoStrangerHit
<1>1. IInv => NoStrangerHit
  BY IInvGivesNoHit
<1> QED
  BY <1>1, IInvAlways, PTL

(* All of it at once, for what the code promises: one SIGKILL, and not of  *)
(* a reaper that sweeps.                                                   *)
THEOREM GroupIsOwnedAlways ==
  ASSUME OneKill, ReaperFault # "always" PROVE Spec => []GroupIsOwned
<1>1. IInv => GroupIsOwned
  BY IInvGivesTypes, IInvGivesLease, IInvGivesOwner, IInvGivesNoHit DEF
     GroupIsOwned
<1> QED
  BY <1>1, IInvAlways, PTL
=============================================================================
