---------------------------- MODULE EnsureAgent -----------------------------
(***************************************************************************)
(* internal/agent EnsureAgent: how the logins of one user, each running    *)
(* `sshakku shell-init`, drive their fixed socket to a healthy ssh-agent.  *)
(*                                                                         *)
(* Each login is a process whose pc names its next step.  A step is one    *)
(* read or one change of the world, so agents, other logins and faults     *)
(* come between a probe and what the login does about its answer.          *)
(***************************************************************************)
EXTENDS AgentWorld, FiniteSetsExt

CONSTANTS
    Login,          \* the logins; each runs shell-init once
    NoLogin,        \* "nobody holds the lock": not a member of Login
    Fixed,          \* Fixed[l]: the socket path of l (its lock and its state
                    \*   file lie beside it, so they go with the path)
    LegacySock      \* ~/.ssh/agent/ssh-agent.sock, or NoPath when absent

ASSUME LoginAssumption == NoLogin \notin Login
ASSUME FixedAssumption == Fixed \in [Login -> OurPath]
ASSUME LegacyAssumption == LegacySock \in (Path \ OurPath) \cup {NoPath}

VARIABLES
    pc,         \* pc[l]: the next step of login l
    todo,       \* todo[l]: procfs entries the current loop has not reached
    victim,     \* victim[l]: the agent being reaped
    reaped,     \* reaped[l]: Reap signalled an agent or unlinked a socket
    foreign,    \* foreign[l]: the reachable agents of the survey so far
    started,    \* started[l]: the agent l started
    outcome,    \* outcome[l]: the Situation returned, or "error"
    holder,     \* holder[f]: the login that holds the lock beside f
    tmp,        \* tmp[f]: the target of the symlink f.adopt
    \* Two history variables.  They record and influence nothing.
    steady,     \* steady[l]: the agents that were healthy when l began and
                \*   that nothing but l itself can have harmed since
    serving     \* serving[l]: the agent behind Fixed[l] when l returned

login   == <<pc, todo, victim, reaped, foreign, started, outcome>>
shared  == <<holder, tmp>>
history == <<steady, serving>>
vars    == <<world, login, shared, history>>

Situation == {"healthy", "clean", "zombie", "foreign", "disaster"}

PC == {"idle", "probe", "lock", "recheck", "scan", "reap", "terminate", "unlink",
       "survey", "startprobe", "startunlink", "spawn", "await", "record",
       "symlink", "rename", "unlock", "done", "crashed"}

TypeOK ==
    /\ WorldTypeOK
    /\ pc \in [Login -> PC]
    /\ todo \in [Login -> SUBSET Pid]
    /\ victim \in [Login -> Pid \cup {NoPid}]
    /\ reaped \in [Login -> BOOLEAN]
    /\ foreign \in [Login -> SUBSET Pid]
    /\ started \in [Login -> Pid \cup {NoPid}]
    /\ outcome \in [Login -> Situation \cup {"none", "error"}]
    /\ holder \in [OurPath -> Login \cup {NoLogin}]
    /\ tmp \in [OurPath -> Path \cup {NoPath}]
    /\ steady \in [Login -> SUBSET Pid]
    /\ serving \in [Login -> Pid \cup {NoPid}]

(* Bound: enough pids are left for every agent that can still be started.  *)
PidsSuffice ==
    Cardinality({p \in Pid : stage[p] = "unborn"}) >= Cardinality(Login) + Budget["foreign"]

(***************************************************************************)
(* The landscape a user's logins find: agents of earlier sessions, alive   *)
(* or dead, stale sockets, a fixed path that is a symlink to an adopted    *)
(* agent, or a symlink an earlier login left half way.                     *)
(***************************************************************************)
Init ==
    /\ stage \in [Pid -> {"unborn", "up", "gone"}]
    /\ PidsSuffice
    /\ sock \in [Pid -> Path \cup {NoPath}]
    /\ \A p \in Pid : stage[p] = "unborn" => sock[p] = NoPath
    /\ bound \in [Path -> Pid \cup {NoPid}]
    /\ \A q \in Path : bound[q] # NoPid => stage[bound[q]] # "unborn" /\ sock[bound[q]] = q
    /\ \A p \in Pid : stage[p] = "gone" => sock[p] \in Path /\ bound[sock[p]] = p
    /\ link \in [Path -> Path \cup {NoPath}]
    /\ \A q \in Path : link[q] # NoPath => q \in OurPath /\ bound[q] = NoPid /\ link[q] # q
    /\ \E others \in SUBSET Pid :
        /\ \A p \in others : stage[p] = "up" /\ sock[p] \notin OurPath
        /\ mine = {p \in Pid \ others : stage[p] # "unborn"}
    /\ stalled = {} /\ doomed = {}
    /\ spent = [k \in FaultKind |-> 0]
    /\ tmp \in [OurPath -> {NoPath} \cup (Path \ OurPath)]
    /\ holder = [f \in OurPath |-> NoLogin]
    /\ pc = [l \in Login |-> "idle"]
    /\ todo = [l \in Login |-> {}]
    /\ victim = [l \in Login |-> NoPid]
    /\ reaped = [l \in Login |-> FALSE]
    /\ foreign = [l \in Login |-> {}]
    /\ started = [l \in Login |-> NoPid]
    /\ outcome = [l \in Login |-> "none"]
    /\ steady = [l \in Login |-> {}]
    /\ serving = [l \in Login |-> NoPid]

(***************************************************************************)
(* The steps of a login.                                                   *)
(***************************************************************************)
Goto(l, from, to) == pc[l] = from /\ pc' = [pc EXCEPT ![l] = to]

\* The function returns s; the deferred unlock comes next.
Return(l, from, s) ==
    /\ Goto(l, from, "unlock")
    /\ outcome' = [outcome EXCEPT ![l] = s]

\* Remove the socket of the pre-sshakku agent, whatever its state.
CleanupLegacyAgentDir == bound' = [q \in Path |-> IF q = LegacySock THEN NoPid ELSE bound[q]]

(* shell-init before EnsureAgent.                                          *)
ShellInit(l) ==
    /\ Goto(l, "idle", "probe")
    /\ CleanupLegacyAgentDir
    /\ UNCHANGED <<stage, sock, mine, stalled, doomed, link, spent, shared,
                   todo, victim, reaped, foreign, started, outcome>>

(* The fast path, before the lock.                                         *)
FastProbe(l) ==
    /\ \/ /\ Reachable(Fixed[l])
          /\ Return(l, "probe", "healthy")
       \/ /\ ~Reachable(Fixed[l])
          /\ Goto(l, "probe", "lock")
          /\ UNCHANGED outcome
    /\ UNCHANGED <<world, shared, todo, victim, reaped, foreign, started>>

AcquireLock(l) ==
    /\ holder[Fixed[l]] = NoLogin
    /\ Goto(l, "lock", "recheck")
    /\ holder' = [holder EXCEPT ![Fixed[l]] = l]
    /\ UNCHANGED <<world, tmp, todo, victim, reaped, foreign, started, outcome>>

\* Mutant: an unbounded wait.
LockTimeout_Never(l) == FALSE /\ UNCHANGED vars

(* The bounded wait elapsed: proceed without the lock.                     *)
LockTimeout(l) ==
    /\ holder[Fixed[l]] # NoLogin
    /\ Goto(l, "lock", "recheck")
    /\ Spend("lockTimeout")
    /\ UNCHANGED <<stage, sock, mine, stalled, doomed, bound, link, shared,
                   todo, victim, reaped, foreign, started, outcome>>

\* Mutant: no second look under the lock.
Recheck_Skipped(l) ==
    /\ Goto(l, "recheck", "scan")
    /\ UNCHANGED <<world, shared, todo, victim, reaped, foreign, started, outcome>>

Recheck(l) ==
    /\ \/ /\ Reachable(Fixed[l])
          /\ Return(l, "recheck", "healthy")
       \/ /\ ~Reachable(Fixed[l])
          /\ Goto(l, "recheck", "scan")
          /\ UNCHANGED outcome
    /\ UNCHANGED <<world, shared, todo, victim, reaped, foreign, started>>

\* ---- Reap ----------------------------------------------------------------

ReapScan(l) ==
    /\ Goto(l, "scan", "reap")
    /\ todo' = [todo EXCEPT ![l] = Agents]
    /\ UNCHANGED <<world, shared, victim, reaped, foreign, started, outcome>>

\* Mutant: a listed agent is dead unless the fixed socket answers.
ReapProbe_WrongSocket(l) ==
    /\ pc[l] = "reap"
    /\ \E p \in todo[l] :
        /\ todo' = [todo EXCEPT ![l] = @ \ {p}]
        /\ IF sock[p] = NoPath \/ Reachable(Fixed[l]) \/ p \notin mine
             THEN Goto(l, "reap", "reap") /\ UNCHANGED victim
             ELSE Goto(l, "reap", "terminate") /\ victim' = [victim EXCEPT ![l] = p]
    /\ UNCHANGED <<world, shared, reaped, foreign, started, outcome>>

(* One entry: spare an agent without a socket, one that answers, and one   *)
(* of another user; anything else is dead.                                 *)
ReapProbe(l) ==
    /\ pc[l] = "reap"
    /\ \E p \in todo[l] :
        /\ todo' = [todo EXCEPT ![l] = @ \ {p}]
        /\ IF sock[p] = NoPath \/ Reachable(sock[p]) \/ p \notin mine
             THEN Goto(l, "reap", "reap") /\ UNCHANGED victim
             ELSE Goto(l, "reap", "terminate") /\ victim' = [victim EXCEPT ![l] = p]
    /\ UNCHANGED <<world, shared, reaped, foreign, started, outcome>>

(* SIGTERM; it fails when the process has ended since the scan.            *)
Terminate(l) ==
    /\ Goto(l, "terminate", "unlink")
    /\ IF victim[l] \in Agents
         THEN /\ doomed' = doomed \cup {victim[l]}
              /\ reaped' = [reaped EXCEPT ![l] = TRUE]
         ELSE UNCHANGED <<doomed, reaped>>
    /\ UNCHANGED <<stage, sock, mine, stalled, bound, link, spent, shared,
                   todo, victim, foreign, started, outcome>>

Unlink(l) ==
    LET q == sock[victim[l]] IN
    /\ Goto(l, "unlink", "reap")
    /\ removeSocket(q)
    /\ reaped' = [reaped EXCEPT ![l] = @ \/ bound[q] # NoPid]
    /\ victim' = [victim EXCEPT ![l] = NoPid]
    /\ UNCHANGED <<stage, sock, mine, stalled, doomed, link, spent, shared,
                   todo, foreign, started, outcome>>

\* ---- healthyForeign ------------------------------------------------------

SurveyScan(l) ==
    /\ todo[l] = {}
    /\ Goto(l, "reap", "survey")
    /\ todo' = [todo EXCEPT ![l] = Agents]
    /\ UNCHANGED <<world, shared, victim, reaped, foreign, started, outcome>>

\* Mutant: "break" for "continue".
SurveyProbe_StopsEarly(l) ==
    /\ pc[l] = "survey" /\ todo[l] # {}
    /\ todo' = [todo EXCEPT ![l] = {}]
    /\ \E p \in todo[l] :
        foreign' = [foreign EXCEPT ![l] =
             IF sock[p] \notin {NoPath, Fixed[l]} /\ Reachable(sock[p])
               THEN @ \cup {p} ELSE @]
    /\ UNCHANGED <<world, shared, pc, victim, reaped, started, outcome>>

\* Mutant: adopts an agent it has not probed.
SurveyProbe_Unprobed(l) ==
    /\ pc[l] = "survey"
    /\ \E p \in todo[l] :
        /\ todo' = [todo EXCEPT ![l] = @ \ {p}]
        /\ foreign' = [foreign EXCEPT ![l] =
             IF sock[p] \notin {NoPath, Fixed[l]} THEN @ \cup {p} ELSE @]
    /\ UNCHANGED <<world, shared, pc, victim, reaped, started, outcome>>

SurveyProbe(l) ==
    /\ pc[l] = "survey"
    /\ \E p \in todo[l] :
        /\ todo' = [todo EXCEPT ![l] = @ \ {p}]
        /\ foreign' = [foreign EXCEPT ![l] =
             IF sock[p] \notin {NoPath, Fixed[l]} /\ Reachable(sock[p])
               THEN @ \cup {p} ELSE @]
    /\ UNCHANGED <<world, shared, pc, victim, reaped, started, outcome>>

\* ---- no other healthy agent: start our own -------------------------------

(* clearStalePath, whatever lies at the fixed path by now.                 *)
ClearStalePath(l) ==
    /\ todo[l] = {} /\ foreign[l] = {}
    /\ Goto(l, "survey", "startprobe")
    /\ clearStalePath(Fixed[l])
    /\ UNCHANGED <<stage, sock, mine, stalled, doomed, spent, shared,
                   todo, victim, reaped, foreign, started, outcome>>

StartProbe(l) ==
    /\ Goto(l, "startprobe", IF Reachable(Fixed[l]) THEN "spawn" ELSE "startunlink")
    /\ UNCHANGED <<world, shared, todo, victim, reaped, foreign, started, outcome>>

StartUnlink(l) ==
    /\ Goto(l, "startunlink", "spawn")
    /\ removeSocket(Fixed[l])
    /\ UNCHANGED <<stage, sock, mine, stalled, doomed, link, spent, shared,
                   todo, victim, reaped, foreign, started, outcome>>

(* exec ssh-agent -a <fixed>; Start then waits for it, without a timeout.  *)
Spawn(l) ==
    /\ Goto(l, "spawn", "await")
    /\ \E p \in Pid :
        /\ stage[p] = "unborn"
        /\ stage' = [stage EXCEPT ![p] = "starting"]
        /\ sock' = [sock EXCEPT ![p] = Fixed[l]]
        /\ mine' = mine \cup {p}
        /\ started' = [started EXCEPT ![l] = p]
    /\ UNCHANGED <<stalled, doomed, bound, link, spent, shared,
                   todo, victim, reaped, foreign, outcome>>

(* ssh-agent announced its pid once it had bound, or exited with an error. *)
Await(l) ==
    /\ pc[l] = "await"
    /\ \/ /\ stage[started[l]] \in {"up", "gone"}
          /\ Goto(l, "await", "record")
          /\ UNCHANGED outcome
       \/ /\ stage[started[l]] = "failed"
          /\ Return(l, "await", "error")
    /\ UNCHANGED <<world, shared, todo, victim, reaped, foreign, started>>

(* WriteState.  Nothing reads the state file back, so its contents are not *)
(* part of the model; that the write may fail is (see Fail).               *)
Record(l) ==
    /\ Return(l, "record", IF reaped[l] THEN "zombie" ELSE "clean")
    /\ UNCHANGED <<world, shared, todo, victim, reaped, foreign, started>>

\* ---- adopt the healthy agent with the lowest pid -------------------------

\* Mutant: the leftover f.adopt stays.
RemoveTmp_Forgotten(l) ==
    /\ todo[l] = {} /\ foreign[l] # {}
    /\ Goto(l, "survey", "symlink")
    /\ UNCHANGED <<world, shared, todo, victim, reaped, foreign, started, outcome>>

(* adoptSymlink, first step: remove a leftover f.adopt.                    *)
RemoveTmp(l) ==
    /\ todo[l] = {} /\ foreign[l] # {}
    /\ Goto(l, "survey", "symlink")
    /\ tmp' = [tmp EXCEPT ![Fixed[l]] = NoPath]
    /\ UNCHANGED <<world, holder, todo, victim, reaped, foreign, started, outcome>>

(* symlink(2) refuses an existing name.                                    *)
Symlink(l) ==
    /\ pc[l] = "symlink"
    /\ IF tmp[Fixed[l]] = NoPath
         THEN /\ Goto(l, "symlink", "rename")
              /\ tmp' = [tmp EXCEPT ![Fixed[l]] = sock[Min(foreign[l])]]
              /\ UNCHANGED outcome
         ELSE /\ Return(l, "symlink", "error")
              /\ UNCHANGED tmp
    /\ UNCHANGED <<world, holder, todo, victim, reaped, foreign, started>>

(* rename(2) replaces whatever lies at the fixed path; it fails when       *)
(* f.adopt is no longer there.                                             *)
Rename(l) ==
    LET f == Fixed[l]
        several == Cardinality(foreign[l]) > 1
    IN
    /\ pc[l] = "rename"
    /\ IF tmp[f] # NoPath
         THEN /\ link' = [link EXCEPT ![f] = tmp[f]]
              /\ bound' = [bound EXCEPT ![f] = NoPid]
              /\ tmp' = [tmp EXCEPT ![f] = NoPath]
              /\ Return(l, "rename", IF several \/ reaped[l] THEN "disaster" ELSE "foreign")
         ELSE /\ Return(l, "rename", "error")
              /\ UNCHANGED <<link, bound, tmp>>
    /\ UNCHANGED <<stage, sock, mine, stalled, doomed, spent, holder,
                   todo, victim, reaped, foreign, started>>

\* ---- endings -------------------------------------------------------------

\* Mutant: the wrong sentinel for "free".
Forget_WrongSentinel(l) ==
    /\ todo' = [todo EXCEPT ![l] = {}]
    /\ foreign' = [foreign EXCEPT ![l] = {}]
    /\ victim' = [victim EXCEPT ![l] = NoPid]
    /\ reaped' = [reaped EXCEPT ![l] = FALSE]
    /\ started' = [started EXCEPT ![l] = NoPid]
    /\ holder' = [f \in OurPath |-> IF holder[f] = l THEN NoPath ELSE holder[f]]

\* Mutant: no deferred unlock, and a lock that outlives its process.
Forget_KeepsLock(l) ==
    /\ todo' = [todo EXCEPT ![l] = {}]
    /\ foreign' = [foreign EXCEPT ![l] = {}]
    /\ victim' = [victim EXCEPT ![l] = NoPid]
    /\ reaped' = [reaped EXCEPT ![l] = FALSE]
    /\ started' = [started EXCEPT ![l] = NoPid]
    /\ UNCHANGED holder

(* The call is over: its locals are gone and its lock is free.             *)
Forget(l) ==
    /\ todo' = [todo EXCEPT ![l] = {}]
    /\ foreign' = [foreign EXCEPT ![l] = {}]
    /\ victim' = [victim EXCEPT ![l] = NoPid]
    /\ reaped' = [reaped EXCEPT ![l] = FALSE]
    /\ started' = [started EXCEPT ![l] = NoPid]
    /\ holder' = [f \in OurPath |-> IF holder[f] = l THEN NoLogin ELSE holder[f]]

(* The deferred unlock, which only closes the file when the lock was not   *)
(* held.                                                                   *)
Unlock(l) ==
    /\ Goto(l, "unlock", "done")
    /\ Forget(l)
    /\ UNCHANGED <<world, tmp, outcome>>

(* A system call of the step fails: opening or locking the lock file,      *)
(* reading procfs, running ssh-agent, writing the state file, symlink or   *)
(* rename.  Each makes the whole call return an error; a failed rename     *)
(* removes f.adopt first.                                                  *)
Fail(l) ==
    /\ pc[l] \in {"lock", "scan", "reap", "spawn", "record", "symlink", "rename"}
    /\ pc[l] = "reap" => todo[l] = {}
    /\ Return(l, pc[l], "error")
    /\ Spend("io")
    /\ tmp' = IF pc[l] = "rename" THEN [tmp EXCEPT ![Fixed[l]] = NoPath] ELSE tmp
    /\ UNCHANGED <<stage, sock, mine, stalled, doomed, bound, link, holder,
                   todo, victim, reaped, foreign, started>>

(* The login dies (the terminal closes); the kernel drops its flock.       *)
LoginCrash(l) ==
    /\ pc[l] \notin {"idle", "done", "crashed"}
    /\ Spend("loginCrash")
    /\ pc' = [pc EXCEPT ![l] = "crashed"]
    /\ Forget(l)
    /\ UNCHANGED <<stage, sock, mine, stalled, doomed, bound, link, tmp, outcome>>

(***************************************************************************)
(* History.                                                                *)
(***************************************************************************)
Running(l) == pc[l] \notin {"idle", "done", "crashed"}

Moved(l) == <<pc[l], todo[l]>>' # <<pc[l], todo[l]>>

(* A login's own step never makes it forget an agent; a step of anything   *)
(* else drops the agents it harms.                                         *)
Remember ==
    /\ steady' = [l \in Login |->
         CASE ~Running(l)'           -> {}
           [] Running(l)' /\ ~Running(l) -> HealthyAgents
           [] Running(l)' /\ Running(l)  ->
                IF Moved(l) THEN steady[l]
                            ELSE steady[l] \ (HealthyAgents \ HealthyAgents')]
    /\ serving' = [l \in Login |->
         IF pc[l] = "unlock" /\ pc'[l] = "done" /\ \E p \in Pid : Serves(Fixed[l], p)
           THEN CHOOSE p \in Pid : Serves(Fixed[l], p)
           ELSE serving[l]]

(***************************************************************************)
(* The specification.                                                      *)
(***************************************************************************)
LoginNext(l) ==
    \/ ShellInit(l) \/ FastProbe(l)
    \/ AcquireLock(l) \/ LockTimeout(l) \/ Recheck(l)
    \/ ReapScan(l) \/ ReapProbe(l) \/ Terminate(l) \/ Unlink(l)
    \/ SurveyScan(l) \/ SurveyProbe(l)
    \/ ClearStalePath(l) \/ StartProbe(l) \/ StartUnlink(l)
    \/ Spawn(l) \/ Await(l) \/ Record(l)
    \/ RemoveTmp(l) \/ Symlink(l) \/ Rename(l)
    \/ Unlock(l) \/ Fail(l)

Environment ==
    /\ \/ WorldNext /\ UNCHANGED <<login, shared>>
       \/ \E l \in Login : LoginCrash(l)
    /\ Remember

Step(l) == LoginNext(l) /\ Remember

Next == Environment \/ \E l \in Login : Step(l)

Spec == Init /\ [][Next]_vars

(* A login is an ordinary process: it keeps running while it has a step.   *)
LoginFairness == \A l \in Login : WF_vars(Step(l))

(* An agent that was started or signalled acts on it, unless it is stalled.*)
AgentFairness ==
    \A p \in Pid :
        WF_vars(/\ AgentBind(p) \/ AgentAborted(p) \/ AgentExit(p)
                /\ UNCHANGED <<login, shared>>
                /\ Remember)

FairSpec == Spec /\ LoginFairness /\ AgentFairness

\* ssh-agent may hang for ever between exec and bind.
HungSpec == Spec /\ LoginFairness

(***************************************************************************)
(* Safety, whatever the faults.                                            *)
(***************************************************************************)

(* Agents that were healthy when a login began, and that nothing else has  *)
(* harmed since, are still healthy: through all its probes, signals,       *)
(* unlinks and renames, made on what it read some steps ago, the login has *)
(* neither signalled them nor touched their socket.  (EnsureAgent with     *)
(* Reap, clearStalePath, Start and adoptSymlink.  The legacy socket, which *)
(* shell-init removes before EnsureAgent runs, is the exception: see       *)
(* LegacyAgentSpared.)                                                     *)
DoNoHarm ==
    \A l \in Login : \A p \in steady[l] : sock[p] # LegacySock => p \in HealthyAgents

(* A login that goes on to start an agent of its own has overlooked none:  *)
(* no agent was there, healthy, all along.  (healthyForeign and the        *)
(* decision in EnsureAgent; PLAN.md decision 15, case D.)                  *)
NoCompetitor ==
    \A l \in Login :
        pc[l] \in {"startprobe", "startunlink", "spawn", "await", "record"} =>
            \A p \in steady[l] : sock[p] = LegacySock

(* What earlier sessions, crashed logins and dead agents leave behind      *)
(* (stale sockets, dangling links, a half-made f.adopt, a starting agent)  *)
(* never makes a login fail: an error takes a failing system call, or      *)
(* another login acting in the middle because the lock was given up.       *)
NoSpuriousError ==
    (\E l \in Login : outcome[l] = "error") =>
        spent["io"] + spent["lockTimeout"] > 0

(***************************************************************************)
(* Safety when logins take turns: the lock is never given up, no login     *)
(* dies holding it, and agents neither stall nor start on their own.       *)
(***************************************************************************)

(* A login starts an agent only when every earlier one on its fixed socket *)
(* has ended or been told to: at most one agent of ours per socket, with   *)
(* concurrent logins racing through probe, lock and re-check.              *)
OneOfOurs ==
    \A l \in Login :
        pc[l] = "spawn" => \A p \in Agents \ doomed : sock[p] # Fixed[l]

(* A shell that was given a live socket keeps one: as long as the agent it *)
(* was given answers, its fixed path leads to an agent again whenever no   *)
(* login is at work on it.  (The re-check under the lock.)                 *)
NoShellStranded ==
    \A l \in Login :
        serving[l] # NoPid /\ Answers(serving[l]) /\ holder[Fixed[l]] = NoLogin
            => Reachable(Fixed[l])

(* "On success, never leaves the shell pointed at a dead socket"           *)
(* (ensure.go:73-74), as long as no agent dies or stalls by itself.        *)
SuccessIsLive ==
    [][\A l \in Login :
         (pc[l] = "unlock" /\ pc'[l] = "done" /\ outcome[l] # "error"
            /\ spent["agentCrash"] + spent["stall"] = 0)
            => Reachable(Fixed[l])]_vars

(***************************************************************************)
(* Liveness.                                                               *)
(***************************************************************************)

(* Under HungSpec, where the exec of ssh-agent may never return, a login   *)
(* ends, or stays at an agent of its own that never comes up: a holder of  *)
(* the lock that hangs or dies slows the others and never hangs them       *)
(* (main.go:27-28).                                                        *)
HangsOnItsOwnStart(l) == pc[l] = "await" /\ stage[started[l]] = "starting"

LoginTerminates ==
    \A l \in Login : <>[](pc[l] \in {"done", "crashed"} \/ HangsOnItsOwnStart(l))

(***************************************************************************)
(* A statement of the sources that the code does not live up to (so is     *)
(* SuccessIsLive, when a signalled agent exits late).                      *)
(***************************************************************************)

(* THREAT-MODEL.md:193, "Never kill a reachable agent": an agent healthy   *)
(* when the shell began, and not harmed by anything else, is not signalled.*)
LegacyAgentSpared == \A l \in Login : steady[l] \cap doomed = {}
=============================================================================
