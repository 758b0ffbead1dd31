------------------------- MODULE EnsureAgentProofs --------------------------
(***************************************************************************)
(* What TLAPS proves of EnsureAgent, for any number of logins, agents,     *)
(* paths and fixed sockets and for any budget of faults.                   *)
(***************************************************************************)
EXTENDS EnsureAgent, WellFoundedInduction, TLAPS

\* The processes that have been started, ended ones included.
Born == { p \in Pid : stage[p] # "unborn" }

(* What a login holds between two steps: pids that exist, a victim with a  *)
(* socket, a survey that found somebody once it adopts.                    *)
CallOK(l) ==
    /\ todo[l] \subseteq Born
    /\ foreign[l] \subseteq Born
    /\ pc[l] \in {"terminate", "unlink"} => victim[l] \in Born /\ sock[victim[l]] \in Path
    /\ pc[l] \in {"symlink", "rename"} => foreign[l] # {}

TypeInv == TypeOK /\ \A l \in Login : CallOK(l)

\* The variables of a login's call that a step of another login leaves alone.
Call(l) == <<pc[l], todo[l], victim[l], foreign[l]>>

(* The state of the world after a step has the type of the state before.   *)
LEMMA WorldStepType ==
    ASSUME TypeOK, WorldNext PROVE WorldTypeOK'
<1> USE DEF TypeOK, WorldTypeOK, Stage, Spend, FaultKind
<1>1. CASE ForeignStart
  BY <1>1 DEF ForeignStart
<1>2. ASSUME NEW p \in Pid, AgentBind(p) PROVE WorldTypeOK'
  BY <1>2 DEF AgentBind
<1>3. ASSUME NEW p \in Pid, AgentAborted(p) PROVE WorldTypeOK'
  BY <1>3 DEF AgentAborted
<1>4. ASSUME NEW p \in Pid, AgentExit(p) PROVE WorldTypeOK'
  <2>1. stage' \in [Pid -> Stage] /\ UNCHANGED <<sock, mine, stalled, doomed>>
    BY <1>4 DEF AgentExit
  <2>2. bound' \in [Path -> Pid \cup {NoPid}]
    BY <1>4 DEF AgentExit, clearStalePath
  <2>3. link' \in [Path -> Path \cup {NoPath}]
    BY <1>4 DEF AgentExit, clearStalePath
  <2>4. spent' \in [FaultKind -> Nat]
    BY <1>4 DEF AgentExit
  <2> QED BY <2>1, <2>2, <2>3, <2>4
<1>5. ASSUME NEW p \in Pid, AgentCrash(p) PROVE WorldTypeOK'
  BY <1>5 DEF AgentCrash, removeSocket
<1>6. ASSUME NEW p \in Pid, Stall(p) PROVE WorldTypeOK'
  BY <1>6 DEF Stall
<1>7. ASSUME NEW p \in Pid, Resume(p) PROVE WorldTypeOK'
  BY <1>7 DEF Resume
<1> QED BY <1>1, <1>2, <1>3, <1>4, <1>5, <1>6, <1>7 DEF WorldNext

(* The lowest pid of a survey is one of the survey.                        *)
LEMMA LowestPid ==
    ASSUME NEW S \in SUBSET Pid, S # {} PROVE Min(S) \in S
<1>1. S \subseteq Nat
  BY PidAssumption
<1>2. PICK n \in S : \A m \in S : ~ (<<m, n>> \in OpToRel(<, Nat))
  BY <1>1, NatLessThanWellFounded, WFMin
<1>3. \A m \in S : n <= m
  <2> TAKE m \in S
  <2>1. m \in Nat /\ n \in Nat
    BY <1>1
  <2>2. ~ (m < n)
    BY <1>2, <2>1 DEF OpToRel
  <2> QED BY <2>1, <2>2
<1> QED BY <1>3 DEF Min
(* Likewise the variables other than the history, after a step of a login. *)
LiveTypeOK ==
    /\ WorldTypeOK
    /\ pc \in [Login -> PC]
    /\ todo \in [Login -> SUBSET Pid]
    /\ victim \in [Login -> Pid \cup {NoPid}]
    /\ reaped \in [Login -> BOOLEAN]
    /\ foreign \in [Login -> SUBSET Pid]
    /\ started \in [Login -> Pid \cup {NoPid}]
    /\ outcome \in [Login -> Situation \cup {"none", "error"}]
    /\ holder \in [OurPath -> Login \cup {NoLogin}]
    /\ tmp \in [OurPath -> Path \cup {NoPath}]

(* The same of a login's own step and of what all the logins hold.         *)
LEMMA LoginStepType ==
    ASSUME TypeOK, NEW l \in Login, CallOK(l), LoginNext(l) \/ LoginCrash(l)
    PROVE  LiveTypeOK'
<1> USE FixedAssumption, PathAssumption
    DEF TypeOK, LiveTypeOK, WorldTypeOK, PC, Situation, Stage, Goto, shared
<1>0. Fixed[l] \in OurPath /\ Fixed[l] \in Path
  OBVIOUS
<1>1. CASE ShellInit(l)
  BY <1>0, <1>1 DEF ShellInit, CleanupLegacyAgentDir, world
<1>2. CASE FastProbe(l)
  BY <1>0, <1>2 DEF FastProbe, Return, world
<1>3. CASE AcquireLock(l)
  BY <1>0, <1>3 DEF AcquireLock, world
<1>4. CASE LockTimeout(l)
  BY <1>0, <1>4 DEF LockTimeout, Spend, FaultKind, world
<1>5. CASE Recheck(l)
  BY <1>0, <1>5 DEF Recheck, Return, world
<1>6. CASE ReapScan(l)
  BY <1>0, <1>6 DEF ReapScan, Agents, world
<1>7. CASE ReapProbe(l)
  BY <1>0, <1>7 DEF ReapProbe, world
<1>8. CASE Terminate(l)
  <2>1. victim[l] \in Pid
    BY <1>8 DEF Terminate, CallOK, Born
  <2>2. doomed' \in SUBSET Pid /\ reaped' \in [Login -> BOOLEAN]
    <3>1. CASE victim[l] \in Agents
      <4>1. doomed' = doomed \cup {victim[l]} /\ reaped' = [reaped EXCEPT ![l] = TRUE]
        BY <1>8, <3>1 DEF Terminate
      <4>2. doomed' \in SUBSET Pid
        BY <2>1, <4>1
      <4>3. reaped \in [Login -> BOOLEAN]
        OBVIOUS
      <4>4. reaped' \in [Login -> BOOLEAN]
        BY <4>1, <4>3, Zenon
      <4> QED BY <4>2, <4>4
    <3>2. CASE victim[l] \notin Agents
      BY <1>8, <3>2 DEF Terminate
    <3> QED BY <3>1, <3>2
  <2> QED BY <1>8, <2>2 DEF Terminate
<1>9. CASE Unlink(l)
  BY <1>0, <1>9 DEF Unlink, removeSocket, world
<1>10. CASE SurveyScan(l)
  BY <1>0, <1>10 DEF SurveyScan, Agents, world
<1>11. CASE SurveyProbe(l)
  BY <1>0, <1>11 DEF SurveyProbe, world
<1>12. CASE ClearStalePath(l)
  BY <1>0, <1>12 DEF ClearStalePath, clearStalePath, world
<1>13. CASE StartProbe(l)
  BY <1>0, <1>13 DEF StartProbe, world
<1>14. CASE StartUnlink(l)
  BY <1>0, <1>14 DEF StartUnlink, removeSocket, world
<1>15. CASE Spawn(l)
  BY <1>0, <1>15 DEF Spawn, world
<1>16. CASE Await(l)
  BY <1>0, <1>16 DEF Await, Return, world
<1>17. CASE Record(l)
  BY <1>0, <1>17 DEF Record, Return, world
<1>18. CASE RemoveTmp(l)
  BY <1>0, <1>18 DEF RemoveTmp, world
<1>19. CASE Symlink(l)
  <2>1. CASE tmp[Fixed[l]] = NoPath
    <3>1. Min(foreign[l]) \in Pid
      BY <1>19, LowestPid DEF Symlink, CallOK
    <3> QED BY <1>0, <1>19, <2>1, <3>1 DEF Symlink, world
  <2>2. CASE tmp[Fixed[l]] # NoPath
    BY <1>19, <2>2 DEF Symlink, Return, world
  <2> QED BY <2>1, <2>2
<1>20. CASE Rename(l)
  BY <1>0, <1>20 DEF Rename, Return, world
<1>21. CASE Unlock(l)
  BY <1>0, <1>21 DEF Unlock, Forget, world
<1>22. CASE Fail(l)
  BY <1>0, <1>22 DEF Fail, Return, Spend, FaultKind, world
<1>23. CASE LoginCrash(l)
  BY <1>0, <1>23 DEF LoginCrash, Forget, Spend, FaultKind, world
<1> QED BY <1>1, <1>2, <1>3, <1>4, <1>5, <1>6, <1>7, <1>8, <1>9, <1>10, <1>11, <1>12,
           <1>13, <1>14, <1>15, <1>16, <1>17, <1>18, <1>19, <1>20, <1>21, <1>22, <1>23
       DEF LoginNext

(* A process that has been started stays so, with the socket it was given. *)
LEMMA BornStays ==
    ASSUME TypeOK, Next
    PROVE  Born \subseteq Born' /\ \A p \in Born : sock'[p] = sock[p]
<1> USE DEF TypeOK, WorldTypeOK, Stage, Born
<1>1. CASE WorldNext
  BY <1>1 DEF WorldNext, ForeignStart, AgentBind, AgentAborted, AgentExit, AgentCrash,
              Stall, Resume
<1>2. ASSUME NEW l \in Login, LoginCrash(l)
      PROVE  Born \subseteq Born' /\ \A p \in Born : sock'[p] = sock[p]
  BY <1>2 DEF LoginCrash
<1>3. ASSUME NEW l \in Login, LoginNext(l)
      PROVE  Born \subseteq Born' /\ \A p \in Born : sock'[p] = sock[p]
  <2>1. CASE Spawn(l)
    BY <2>1 DEF Spawn
  <2>2. CASE ~Spawn(l)
    <3>1. UNCHANGED <<stage, sock>>
      BY <1>3, <2>2 DEF LoginNext, ShellInit, CleanupLegacyAgentDir, FastProbe, AcquireLock, LockTimeout, Recheck,
           ReapScan, ReapProbe, Terminate, Unlink, SurveyScan, SurveyProbe, ClearStalePath,
           StartProbe, StartUnlink, Await, Record, RemoveTmp, Symlink, Rename, Unlock, Fail,
           world
    <3> QED BY <3>1
  <2> QED BY <2>1, <2>2
<1> QED BY <1>1, <1>2, <1>3 DEF Next, Environment, Step

(* A step of one login leaves the call of every other one alone.           *)
LEMMA OthersUntouched ==
    ASSUME TypeOK, NEW l \in Login, LoginNext(l) \/ LoginCrash(l), NEW m \in Login, m # l
    PROVE  Call(m)' = Call(m)
  BY DEF TypeOK, Call, Goto, Return, Forget, LoginCrash, LoginNext, ShellInit, CleanupLegacyAgentDir, FastProbe,
         AcquireLock, LockTimeout, Recheck, ReapScan, ReapProbe, Terminate, Unlink,
         SurveyScan, SurveyProbe, ClearStalePath, StartProbe, StartUnlink, Spawn, Await,
         Record, RemoveTmp, Symlink, Rename, Unlock, Fail, shared

(* A login's own step keeps what it holds well formed.                     *)
LEMMA CallStep ==
    ASSUME TypeOK, Next, NEW l \in Login, CallOK(l), LoginNext(l) \/ LoginCrash(l)
    PROVE  CallOK(l)'
<1>0. Born \subseteq Born' /\ \A p \in Born : sock'[p] = sock[p]
  BY BornStays
<1>1. Agents \subseteq Born
  BY DEF Agents, Born
<1> USE <1>0, <1>1 DEF TypeOK, CallOK, Goto, Return
<1>2. CASE ShellInit(l)
  BY <1>2 DEF ShellInit, CleanupLegacyAgentDir
<1>3. CASE FastProbe(l)
  BY <1>3 DEF FastProbe
<1>4. CASE AcquireLock(l)
  BY <1>4 DEF AcquireLock
<1>5. CASE LockTimeout(l)
  BY <1>5 DEF LockTimeout
<1>6. CASE Recheck(l)
  BY <1>6 DEF Recheck
<1>7. CASE ReapScan(l)
  BY <1>7 DEF ReapScan
<1>8. CASE ReapProbe(l)
  <2>1. PICK p \in todo[l] :
            /\ todo' = [todo EXCEPT ![l] = @ \ {p}]
            /\ IF sock[p] = NoPath \/ Reachable(sock[p]) \/ p \notin mine
                 THEN Goto(l, "reap", "reap") /\ UNCHANGED victim
                 ELSE Goto(l, "reap", "terminate") /\ victim' = [victim EXCEPT ![l] = p]
    BY <1>8 DEF ReapProbe
  <2>2. sock[p] \in Path \cup {NoPath} /\ p \in Born
    BY DEF WorldTypeOK, Born
  <2> QED BY <1>8, <2>1, <2>2 DEF ReapProbe
<1>9. CASE Terminate(l)
  BY <1>9 DEF Terminate
<1>10. CASE Unlink(l)
  BY <1>10 DEF Unlink
<1>11. CASE SurveyScan(l)
  BY <1>11 DEF SurveyScan
<1>12. CASE SurveyProbe(l)
  BY <1>12 DEF SurveyProbe
<1>13. CASE ClearStalePath(l)
  BY <1>13 DEF ClearStalePath
<1>14. CASE StartProbe(l)
  BY <1>14 DEF StartProbe
<1>15. CASE StartUnlink(l)
  BY <1>15 DEF StartUnlink
<1>16. CASE Spawn(l)
  BY <1>16 DEF Spawn
<1>17. CASE Await(l)
  BY <1>17 DEF Await
<1>18. CASE Record(l)
  BY <1>18 DEF Record
<1>19. CASE RemoveTmp(l)
  BY <1>19 DEF RemoveTmp
<1>20. CASE Symlink(l)
  BY <1>20 DEF Symlink
<1>21. CASE Rename(l)
  BY <1>21 DEF Rename
<1>22. CASE Unlock(l)
  BY <1>22 DEF Unlock, Forget
<1>23. CASE Fail(l)
  BY <1>23 DEF Fail
<1>24. CASE LoginCrash(l)
  BY <1>24 DEF LoginCrash, Forget
<1> QED BY <1>2, <1>3, <1>4, <1>5, <1>6, <1>7, <1>8, <1>9, <1>10, <1>11, <1>12, <1>13,
           <1>14, <1>15, <1>16, <1>17, <1>18, <1>19, <1>20, <1>21, <1>22, <1>23, <1>24
       DEF LoginNext

(* Type correctness.  TypeOK alone is not inductive: adopting the lowest   *)
(* pid of an empty survey would leave the types, so what a login holds     *)
(* between its steps is part of the invariant.                             *)
LEMMA TypeInvInit == ASSUME Init PROVE TypeInv
<1> USE PidAssumption, PathAssumption, FixedAssumption
<1>1. TypeOK
  <2>1. WorldTypeOK
    BY DEF Init, WorldTypeOK, Stage
  <2> QED BY <2>1 DEF Init, TypeOK, PC
<1>2. \A l \in Login : CallOK(l)
  BY DEF Init, CallOK
<1> QED BY <1>1, <1>2 DEF TypeInv

(* One step keeps the types and what a login holds between its steps.      *)
LEMMA TypeInvStep == ASSUME TypeInv, [Next]_vars PROVE TypeInv'
<1> USE DEF TypeInv
<1>1. CASE UNCHANGED vars
  BY <1>1 DEF vars, world, login, shared, history, TypeOK, WorldTypeOK, CallOK, Born
<1>2. ASSUME Next PROVE TypeInv'
  <2>1. LiveTypeOK'
    <3>1. CASE WorldNext /\ UNCHANGED <<login, shared>>
      BY <3>1, WorldStepType DEF TypeOK, LiveTypeOK, login, shared
    <3> QED BY <1>2, <3>1, LoginStepType DEF Next, Environment, Step
  <2>2. steady' \in [Login -> SUBSET Pid] /\ serving' \in [Login -> Pid \cup {NoPid}]
    <3>1. Remember
      BY <1>2 DEF Next, Environment, Step
    <3>2. HealthyAgents \in SUBSET Pid
      BY DEF HealthyAgents
    <3>3. steady' \in [Login -> SUBSET Pid]
      BY <3>1, <3>2 DEF Remember, TypeOK
    <3>4. \A l \in Login : (\E p \in Pid : Serves(Fixed[l], p)) =>
              (CHOOSE p \in Pid : Serves(Fixed[l], p)) \in Pid
      OBVIOUS
    <3>5. serving' \in [Login -> Pid \cup {NoPid}]
      BY <3>1, <3>4 DEF Remember, TypeOK
    <3> QED BY <3>3, <3>5
  <2>3. TypeOK'
    BY <2>1, <2>2 DEF LiveTypeOK, TypeOK
  <2>4. ASSUME NEW l \in Login PROVE CallOK(l)'
    <3>1. Born \subseteq Born' /\ \A p \in Born : sock'[p] = sock[p]
      BY <1>2, BornStays
    <3>2. CASE Call(l)' = Call(l)
      BY <3>1, <3>2 DEF Call, CallOK
    <3>3. CASE LoginNext(l) \/ LoginCrash(l)
      BY <1>2, <3>3, CallStep
    <3>4. CASE WorldNext /\ UNCHANGED <<login, shared>>
      BY <3>2, <3>4 DEF login, Call
    <3>5. ASSUME NEW m \in Login, m # l, LoginNext(m) \/ LoginCrash(m) PROVE CallOK(l)'
      BY <3>2, <3>5, OthersUntouched
    <3> QED BY <1>2, <3>3, <3>4, <3>5 DEF Next, Environment, Step
  <2> QED BY <2>3, <2>4
<1> QED BY <1>1, <1>2

(* Every variable keeps its type in every behaviour.                       *)
THEOREM TypeCorrect == Spec => []TypeOK
<1>1. TypeInv /\ [Next]_vars => TypeInv'
  BY TypeInvStep
<1>2. Spec => []TypeInv
  BY <1>1, TypeInvInit, PTL DEF Spec
<1> QED BY <1>2, PTL DEF TypeInv

(***************************************************************************)
(* No login harms a healthy agent, nor competes with one.                  *)
(*                                                                         *)
(* DoNoHarm is not inductive: a login in "terminate" acts on an older      *)
(* probe, one in "rename" on an older survey.  What makes these steps safe *)
(* is what the earlier reads imply about an agent that has been healthy    *)
(* throughout: its socket is not the fixed one (that was silent), it is    *)
(* not the victim's (that was silent too), and the survey lists it.        *)
(***************************************************************************)

\* Past the two probes of the fixed socket, or between them.
Committed == PC \ {"idle", "probe", "unlock", "done", "crashed"}

StartingOwn == {"startprobe", "startunlink", "spawn", "await", "record"}

Spared(l, p) ==
    /\ p \in HealthyAgents
    /\ pc[l] \in Committed => sock[p] # Fixed[l]
    /\ pc[l] \in {"terminate", "unlink"} => p # victim[l] /\ sock[p] # sock[victim[l]]
    /\ pc[l] = "survey" => p \in todo[l] \cup foreign[l]
    /\ pc[l] \notin StartingOwn

HarmInv ==
    \A l \in Login :
        /\ steady[l] \subseteq Born
        /\ \A p \in steady[l] : sock[p] # LegacySock => Spared(l, p)

(* A probe of a healthy agent's socket finds it.                           *)
LEMMA HealthyReachable ==
    ASSUME NEW p \in HealthyAgents PROVE Reachable(sock[p])
<1>1. sock[p] \in Trail(sock[p])
  BY DEF Trail, HealthyAgents
<1> QED BY <1>1 DEF Reachable, Serves, HealthyAgents

(* An agent that answers has been started and has not ended.               *)
LEMMA HealthyBorn == HealthyAgents \subseteq Agents /\ HealthyAgents \subseteq Born
  BY DEF HealthyAgents, Agents, Born, Answers

(* What the history variable remembers.                                    *)
LEMMA SteadyMeans ==
    ASSUME TypeOK, Remember, NEW l \in Login, NEW p \in steady'[l]
    PROVE  /\ Running(l)'
           /\ ~Running(l) => p \in HealthyAgents
           /\ Running(l) => p \in steady[l]
           /\ Running(l) /\ ~Moved(l) => (p \in HealthyAgents => p \in HealthyAgents')
<1> DEFINE S == CASE ~Running(l)'           -> {}
           [] Running(l)' /\ ~Running(l) -> HealthyAgents
           [] Running(l)' /\ Running(l)  ->
                IF Moved(l) THEN steady[l]
                            ELSE steady[l] \ (HealthyAgents \ HealthyAgents')
<1>1. steady'[l] = S
  BY DEF Remember
<1> HIDE DEF S
<1>2. p \in S
  BY <1>1
<1>3. Running(l)'
  BY <1>2 DEF S
<1>4. CASE ~Running(l)
  BY <1>2, <1>3, <1>4 DEF S
<1>5. CASE Running(l)
  <2>1. p \in IF Moved(l) THEN steady[l] ELSE steady[l] \ (HealthyAgents \ HealthyAgents')
    BY <1>2, <1>3, <1>5 DEF S
  <2> QED BY <1>3, <1>5, <2>1
<1> QED BY <1>4, <1>5

(* A login's own step leaves an agent it spares healthy.                   *)
LEMMA OwnStepHarmless ==
    ASSUME TypeInv, NEW l \in Login, LoginNext(l), NEW p \in Born,
           Spared(l, p), sock[p] # LegacySock
    PROVE  p \in HealthyAgents'
<1> DEFINE Kept == /\ stage'[p] = stage[p] /\ sock'[p] = sock[p]
                   /\ stalled' = stalled /\ mine \subseteq mine'
                   /\ p \in doomed' => p \in doomed
                   /\ bound'[sock[p]] = bound[sock[p]]
<1>0. Kept => p \in HealthyAgents'
  BY DEF Spared, HealthyAgents, Answers, TypeInv, TypeOK, WorldTypeOK
<1> USE DEF TypeInv, TypeOK, WorldTypeOK, Spared, HealthyAgents, Goto, Return, Committed, PC
<1> HIDE DEF Kept
<1>1. CASE ShellInit(l)
  BY <1>0, <1>1 DEF ShellInit, CleanupLegacyAgentDir, Kept
<1>2. CASE Terminate(l)
  BY <1>0, <1>2 DEF Terminate, Kept
<1>3. CASE Unlink(l)
  BY <1>0, <1>3 DEF Unlink, removeSocket, Kept
<1>4. CASE ClearStalePath(l)
  BY <1>0, <1>4 DEF ClearStalePath, clearStalePath, Kept
<1>5. CASE StartUnlink(l)
  BY <1>0, <1>5 DEF StartUnlink, removeSocket, Kept
<1>6. CASE Spawn(l)
  BY <1>0, <1>6 DEF Spawn, Born, Kept
<1>7. CASE Rename(l)
  BY <1>0, <1>7 DEF Rename, Kept
<1>8. CASE LockTimeout(l) \/ Fail(l)
  BY <1>0, <1>8 DEF LockTimeout, Fail, Kept
<1>9. CASE FastProbe(l) \/ AcquireLock(l) \/ Recheck(l) \/ ReapScan(l) \/ ReapProbe(l)
           \/ SurveyScan(l) \/ SurveyProbe(l) \/ StartProbe(l) \/ Await(l) \/ Record(l)
           \/ RemoveTmp(l) \/ Symlink(l) \/ Unlock(l)
  <2>1. UNCHANGED world
    BY <1>9 DEF FastProbe, AcquireLock, Recheck, ReapScan, ReapProbe, SurveyScan, SurveyProbe,
         StartProbe, Await, Record, RemoveTmp, Symlink, Unlock
  <2> QED BY <1>0, <2>1 DEF world, Kept
<1> QED BY <1>1, <1>2, <1>3, <1>4, <1>5, <1>6, <1>7, <1>8, <1>9 DEF LoginNext

(* Nor does it lose sight of it: what the step reads of a healthy agent is *)
(* what the next step needs.                                               *)
LEMMA OwnStepSpares ==
    ASSUME TypeInv, Next, NEW l \in Login, LoginNext(l), NEW p \in Born,
           Spared(l, p), sock[p] # LegacySock, pc[l] # "idle"
    PROVE  Spared(l, p)'
<1>1. p \in HealthyAgents'
  BY OwnStepHarmless
<1>2. Reachable(sock[p]) /\ p \in Agents
  BY HealthyReachable, HealthyBorn DEF Spared
<1>3. sock'[p] = sock[p] /\ \A q \in Born : sock'[q] = sock[q]
  BY BornStays DEF TypeInv
<1> USE DEF TypeInv, TypeOK, Spared, Goto, Return, Committed, StartingOwn, PC
<1>4. CASE FastProbe(l)
  BY <1>1, <1>2, <1>3, <1>4 DEF FastProbe
<1>5. CASE Recheck(l)
  BY <1>1, <1>2, <1>3, <1>5 DEF Recheck
<1>6. CASE ReapProbe(l)
  <2>1. PICK q \in todo[l] :
            IF sock[q] = NoPath \/ Reachable(sock[q]) \/ q \notin mine
              THEN Goto(l, "reap", "reap") /\ UNCHANGED victim
              ELSE Goto(l, "reap", "terminate") /\ victim' = [victim EXCEPT ![l] = q]
    BY <1>6 DEF ReapProbe
  <2>2. CASE sock[q] = NoPath \/ Reachable(sock[q]) \/ q \notin mine
    BY <1>1, <1>3, <1>6, <2>1, <2>2 DEF ReapProbe
  <2>3. CASE ~(sock[q] = NoPath \/ Reachable(sock[q]) \/ q \notin mine)
    <3>1. q \in Born /\ sock[p] # sock[q] /\ p # q
      BY <1>2, <2>3 DEF CallOK
    <3> QED BY <1>1, <1>3, <2>1, <2>3, <3>1
  <2> QED BY <2>2, <2>3
<1>7. CASE Terminate(l)
  BY <1>1, <1>3, <1>7 DEF Terminate, CallOK
<1>8. CASE SurveyScan(l)
  BY <1>1, <1>2, <1>3, <1>8 DEF SurveyScan
<1>9. CASE SurveyProbe(l)
  <2>1. sock[p] \in Path
    BY DEF HealthyAgents
  <2>2. sock[p] \notin {NoPath, Fixed[l]}
    BY <1>9, <2>1, PathAssumption DEF SurveyProbe
  <2> QED BY <1>1, <1>2, <1>3, <1>9, <2>2 DEF SurveyProbe
<1>10. CASE ClearStalePath(l)
  BY <1>1, <1>3, <1>10 DEF ClearStalePath
<1>11. CASE \/ AcquireLock(l) \/ LockTimeout(l) \/ ReapScan(l) \/ Unlink(l) \/ StartProbe(l)
            \/ StartUnlink(l) \/ Spawn(l) \/ Await(l) \/ Record(l) \/ RemoveTmp(l)
            \/ Symlink(l) \/ Rename(l) \/ Unlock(l) \/ Fail(l)
  BY <1>1, <1>3, <1>11 DEF AcquireLock, LockTimeout, ReapScan, Unlink, StartProbe,
     StartUnlink, Spawn, Await, Record, RemoveTmp, Symlink, Rename, Unlock, Fail
<1>12. CASE ShellInit(l)
  BY <1>12 DEF ShellInit, CleanupLegacyAgentDir
<1> QED BY <1>4, <1>5, <1>6, <1>7, <1>8, <1>9, <1>10, <1>11, <1>12 DEF LoginNext

(* One step, a login's own or anybody else's, keeps the second invariant.  *)
LEMMA HarmInvStep ==
    ASSUME TypeInv, HarmInv, [Next]_vars PROVE HarmInv'
<1>1. CASE UNCHANGED vars
  <2>1. HealthyAgents' = HealthyAgents /\ Born' = Born
    BY <1>1 DEF vars, world, HealthyAgents, Answers, Born
  <2> QED BY <1>1, <2>1 DEF vars, world, login, history, HarmInv, Spared
<1>2. ASSUME Next, NEW l \in Login, NEW p \in steady'[l]
      PROVE  p \in Born' /\ (sock'[p] # LegacySock => Spared(l, p)')
  <2>1. Remember /\ TypeOK
    BY <1>2 DEF Next, Environment, Step, TypeInv
  <2>2. /\ Running(l)'
        /\ ~Running(l) => p \in HealthyAgents
        /\ Running(l) => p \in steady[l]
        /\ Running(l) /\ ~Moved(l) => (p \in HealthyAgents => p \in HealthyAgents')
    BY <1>2, <2>1, SteadyMeans
  <2>3. p \in Born
    BY <2>2, HealthyBorn DEF HarmInv
  <2>4. p \in Born' /\ sock'[p] = sock[p] /\ \A q \in Born : sock'[q] = sock[q]
    BY <1>2, <2>1, <2>3, BornStays
  <2>5. SUFFICES ASSUME sock[p] # LegacySock PROVE Spared(l, p)'
    BY <2>4
  <2>6. Running(l) => Spared(l, p)
    BY <2>2, <2>5 DEF HarmInv
  <2>7. CASE LoginNext(l) /\ pc[l] = "idle"
    <3>1. ShellInit(l)
      BY <2>7 DEF LoginNext, ShellInit, CleanupLegacyAgentDir, FastProbe, AcquireLock, LockTimeout, Recheck, ReapScan,
         ReapProbe, Terminate, Unlink, SurveyScan, SurveyProbe, ClearStalePath, StartProbe,
         StartUnlink, Spawn, Await, Record, RemoveTmp, Symlink, Rename, Unlock, Fail, Goto, Return
    <3>2. p \in HealthyAgents
      BY <2>2, <2>7 DEF Running
    <3>3. Spared(l, p)
      BY <2>7, <3>2 DEF Spared, Committed, StartingOwn
    <3>4. p \in HealthyAgents'
      BY <2>3, <2>5, <2>7, <3>3, OwnStepHarmless
    <3>5. pc'[l] = "probe"
      BY <2>1, <3>1 DEF ShellInit, CleanupLegacyAgentDir, Goto, TypeOK
    <3> QED BY <3>4, <3>5 DEF Spared, Committed, StartingOwn
  <2>8. CASE LoginNext(l) /\ pc[l] # "idle"
    <3>1. Running(l)
      BY <2>8 DEF Running, LoginNext, ShellInit, CleanupLegacyAgentDir, FastProbe, AcquireLock, LockTimeout, Recheck,
         ReapScan, ReapProbe, Terminate, Unlink, SurveyScan, SurveyProbe, ClearStalePath,
         StartProbe, StartUnlink, Spawn, Await, Record, RemoveTmp, Symlink, Rename, Unlock,
         Fail, Goto, Return
    <3> QED BY <1>2, <2>3, <2>5, <2>6, <2>8, <3>1, OwnStepSpares
  <2>9. CASE LoginCrash(l)
    BY <2>1, <2>2, <2>9 DEF LoginCrash, Running, TypeOK
  <2>10. CASE Call(l)' = Call(l)
    <3>1. ~Moved(l) /\ Running(l)
      BY <2>2, <2>10 DEF Call, Moved, Running
    <3>2. p \in HealthyAgents'
      BY <2>2, <2>6, <3>1 DEF Spared
    <3> QED BY <2>4, <2>6, <2>10, <3>1, <3>2 DEF Spared, Call, CallOK, TypeInv
  <2>11. CASE WorldNext /\ UNCHANGED <<login, shared>>
    BY <2>10, <2>11 DEF Call, login
  <2>12. ASSUME NEW m \in Login, m # l, LoginNext(m) \/ LoginCrash(m) PROVE Spared(l, p)'
    BY <2>1, <2>10, <2>12, OthersUntouched
  <2> QED BY <1>2, <2>7, <2>8, <2>9, <2>11, <2>12 DEF Next, Environment, Step
<1> QED BY <1>1, <1>2 DEF HarmInv

(* Both invariants hold in every behaviour.                                *)
LEMMA HarmInvAlways == Spec => [](TypeInv /\ HarmInv)
<1>1. Init => TypeInv /\ HarmInv
  BY TypeInvInit DEF Init, HarmInv
<1>2. TypeInv /\ HarmInv /\ [Next]_vars => (TypeInv /\ HarmInv)'
  BY TypeInvStep, HarmInvStep
<1> QED BY <1>1, <1>2, PTL DEF Spec

(* Whatever agents, other logins and faults do between its reads and its   *)
(* writes, a login leaves every agent alone that was healthy all along:    *)
(* EnsureAgent as a whole keeps the promise Reap makes (manage.go:73-77).  *)
THEOREM LoginsDoNoHarm == Spec => []DoNoHarm
<1>1. HarmInv => DoNoHarm
  BY DEF HarmInv, Spared, DoNoHarm
<1> QED BY <1>1, HarmInvAlways, PTL

(* A login that starts an agent has overlooked no healthy one, however     *)
(* many agents there are and whatever paths and links lead to them.        *)
THEOREM LoginsStartNoCompetitor == Spec => []NoCompetitor
<1>1. HarmInv => NoCompetitor
  BY DEF HarmInv, Spared, NoCompetitor, StartingOwn
<1> QED BY <1>1, HarmInvAlways, PTL

=============================================================================
