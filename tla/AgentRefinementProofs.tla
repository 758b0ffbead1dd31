------------------------ MODULE AgentRefinementProofs -------------------------
(***************************************************************************)
(* What TLAPS proves of EnsureAgent and AgentService: while logins take    *)
(* turns at one fixed socket and agents fail only by dying, each step of   *)
(* the one is a step of the other, for any number of logins and agents.    *)
(***************************************************************************)
EXTENDS AgentRefinement, TurnsProofs

(* What a login remembers is over when its call is, and names agents with  *)
(* a socket.                                                               *)
SteadyInv ==
    \A l \in Login :
        /\ ~Running(l) => steady[l] = {}
        /\ \A p \in steady[l] : sock[p] \in Path

\* Before the first login nothing is remembered.
LEMMA SteadyInit == ASSUME Init PROVE SteadyInv
  BY DEF Init, SteadyInv

\* Every step keeps the memory of a login within its call.
LEMMA SteadyStep ==
    ASSUME TypeInv, HarmInv, SteadyInv, [Next]_vars PROVE SteadyInv'
<1>1. CASE UNCHANGED vars
  BY <1>1 DEF vars, world, login, history, SteadyInv, Running
<1>2. CASE Next
  <2>1. Remember /\ TypeOK
    BY <1>2 DEF Next, Environment, Step, TypeInv
  <2>2. ASSUME NEW l \in Login, NEW p \in steady'[l] PROVE Running(l)' /\ sock'[p] \in Path
    <3>1. Running(l)' /\ (~Running(l) => p \in HealthyAgents) /\ (Running(l) => p \in steady[l])
      BY <2>1, <2>2, SteadyMeans
    <3>2. p \in Born /\ sock[p] \in Path
      BY <3>1, HealthyBorn DEF HarmInv, SteadyInv, HealthyAgents
    <3> QED BY <1>2, <2>1, <3>1, <3>2, BornStays
  <2>3. \A l \in Login : ~Running(l)' => steady'[l] = {}
    <3> SUFFICES ASSUME NEW l \in Login, ~Running(l)' PROVE steady'[l] = {}
      OBVIOUS
    <3>1. \A p \in steady'[l] : FALSE
      BY <2>2
    <3>2. steady' \in [Login -> SUBSET Pid]
      BY <1>2, TypeInvStep DEF TypeInv, TypeOK
    <3> QED BY <3>1, <3>2
  <2> QED BY <2>2, <2>3 DEF SteadyInv
<1> QED BY <1>1, <1>2

\* All that is known of a state while logins take turns.
CalmState ==
    /\ TurnsTogether /\ ServedInv /\ HarmInv /\ SteadyInv
    /\ Calm

(* An agent that answers at the path it bound is healthy, and the other    *)
(* way round.                                                              *)
LEMMA PathsServed ==
    ASSUME OneSocket, CalmState, NEW q \in Path
    PROVE  q \in HealthyPaths <=> \E p \in Pid : Answers(p) /\ bound[q] = p
<1>1. ASSUME NEW p \in Pid, Answers(p), bound[q] = p PROVE p \in HealthyAgents
  <2>1. sock[p] = q /\ stage[p] = "up"
    BY <1>1, PidAssumption DEF CalmState, TurnsTogether, GroundInv, WorldGround, Answers
  <2>2. p \notin doomed
    BY <1>1, <2>1 DEF CalmState, TurnsTogether, OrderlyInv, OrderlyWorld
  <2> QED BY <1>1, <2>1, <2>2 DEF HealthyAgents
<1>2. bound[q] \in HealthyAgents => bound[q] \in Pid /\ Answers(bound[q])
  BY DEF HealthyAgents
<1> QED BY <1>1, <1>2 DEF HealthyPaths

(* The fixed socket is served, for the service as for the logins.          *)
LEMMA OursServed ==
    ASSUME OneSocket, CalmState PROVE Service!Served(ours) <=> ~Unserved
<1>0. ours \in Path /\ (link[ours] \in Path \/ link[ours] = NoPath)
  BY FixedOurs DEF CalmState, TurnsTogether, TypeInv, TypeOK, WorldTypeOK
<1>1. ours \in HealthyPaths <=> \E p \in Pid : Answers(p) /\ bound[ours] = p
  BY <1>0, PathsServed
<1>2. link[ours] \in HealthyPaths <=>
        link[ours] # NoPath /\ \E p \in Pid : Answers(p) /\ bound[link[ours]] = p
  <2>1. CASE link[ours] = NoPath
    BY <2>1, PathAssumption DEF HealthyPaths
  <2>2. CASE link[ours] \in Path
    <3>1. PICK q \in Path : q = link[ours]
      BY <2>2
    <3>2. q \in HealthyPaths <=> \E p \in Pid : Answers(p) /\ bound[q] = p
      BY PathsServed
    <3> QED BY <3>1, <3>2, PathAssumption
  <2> QED BY <1>0, <2>1, <2>2
<1> QED BY <1>1, <1>2 DEF Service!Served, Unserved, AtOurs

(***************************************************************************)
(* What the service sees of a step of a login.                             *)
(***************************************************************************)

(* No step of a login makes an agent healthy or harms a healthy one.       *)
LEMMA LoginHealthy ==
    ASSUME OneSocket, CalmState, LegacySock = NoPath, Next, Calm', NEW l \in Login, LoginNext(l)
    PROVE  HealthyAgents' = HealthyAgents /\ HealthyPaths' = HealthyPaths
<1> USE PidAssumption DEF CalmState, TurnsTogether
<1>1. /\ \A q \in Path : bound'[q] \in {bound[q], NoPid}
      /\ \A p \in Pid : Answers(p)' <=> Answers(p)
  BY LoginFrame
<1>2. \A p \in Born : sock'[p] = sock[p]
  BY BornStays DEF TypeInv
<1>3. \A p \in Pid : Answers(p) => p \in Born
  BY DEF Answers, Born
<1>4. ASSUME NEW p \in HealthyAgents' PROVE p \in HealthyAgents
  <2>1. p \in Pid /\ Answers(p) /\ p \notin doomed'
    BY <1>1, <1>4 DEF HealthyAgents
  <2>2. doomed \subseteq doomed'
    BY DEF LoginNext, ShellInit, FastProbe,
         AcquireLock, LockTimeout, Recheck, ReapScan, ReapProbe, Terminate, Unlink,
         SurveyScan, SurveyProbe, ClearStalePath, StartProbe, StartUnlink, Spawn, Await,
         Record, RemoveTmp, Symlink, Rename, Unlock, Fail, world
  <2>3. sock[p] \in Path /\ bound[sock[p]] = p
    BY <1>1, <1>2, <1>3, <1>4, <2>1 DEF HealthyAgents
  <2> QED BY <2>1, <2>2, <2>3 DEF HealthyAgents
<1>5. ASSUME NEW p \in HealthyAgents PROVE p \in HealthyAgents'
  <2>1. p \in Pid /\ Answers(p) /\ p \notin doomed /\ sock[p] \in Path /\ bound[sock[p]] = p
    BY DEF HealthyAgents
  <2>2. PICK q \in Path : q = sock[p]
    BY <2>1
  <2>3. Answers(p)' /\ bound'[q] = p
    BY <1>1, <2>1, <2>2, AgentKept
  <2>4. p \notin doomed'
    <3>1. CASE Terminate(l)
      <4>1. pc[l] = "terminate"
        BY <3>1 DEF Terminate, Goto
      <4>2. p # victim[l]
        BY <2>1, <4>1 DEF OrderlyInv, Order
      <4> QED BY <2>1, <3>1, <4>2 DEF Terminate
    <3>2. CASE ~Terminate(l)
      <4>1. UNCHANGED doomed
        BY <3>2 DEF LoginNext, ShellInit, FastProbe,
         AcquireLock, LockTimeout, Recheck, ReapScan, ReapProbe, Unlink,
         SurveyScan, SurveyProbe, ClearStalePath, StartProbe, StartUnlink, Spawn, Await,
         Record, RemoveTmp, Symlink, Rename, Unlock, Fail, world
      <4> QED BY <2>1, <4>1
    <3> QED BY <3>1, <3>2
  <2>5. sock'[p] = q
    BY <1>2, <1>3, <2>1, <2>2
  <2> QED BY <2>1, <2>3, <2>4, <2>5 DEF HealthyAgents
<1>6. HealthyAgents' = HealthyAgents
  BY <1>4, <1>5
<1>7. ASSUME NEW q \in Path PROVE bound'[q] \in HealthyAgents <=> bound[q] \in HealthyAgents
  <2>1. NoPid \notin HealthyAgents
    BY DEF HealthyAgents
  <2>2. ASSUME bound[q] \in HealthyAgents PROVE bound'[q] = bound[q]
    <3>1. PICK a \in Pid : a = bound[q] /\ Answers(a)
      BY <2>2 DEF HealthyAgents
    <3> QED BY <1>1, <3>1, AgentKept
  <2> QED BY <1>1, <2>1, <2>2
<1> QED BY <1>6, <1>7 DEF HealthyPaths

(* What a login remembers during its call, when nobody harms an agent.     *)
LEMMA SteadyKept ==
    ASSUME CalmState, Next, HealthyAgents \subseteq HealthyAgents',
           NEW m \in Login, Running(m), Running(m)'
    PROVE  steady'[m] = steady[m]
<1>1. Remember
  BY DEF Next, Environment, Step
<1>2. steady'[m] = IF Moved(m) THEN steady[m] ELSE steady[m] \ (HealthyAgents \ HealthyAgents')
  BY <1>1 DEF Remember
<1>3. HealthyAgents \ HealthyAgents' = {}
  OBVIOUS
<1> QED BY <1>2, <1>3

(* The agents a login remembers keep their sockets.                        *)
LEMMA SeenKept ==
    ASSUME CalmState, Next, NEW m \in Login, steady'[m] = steady[m]
    PROVE  SeenPaths'[m] = SeenPaths[m]
<1>1. \A p \in steady[m] : sock'[p] = sock[p]
  BY BornStays DEF CalmState, TurnsTogether, TypeInv, HarmInv
<1>2. {sock'[p] : p \in steady'[m]} = {sock[p] : p \in steady[m]}
  BY <1>1
<1> QED BY <1>2 DEF SeenPaths

(* A step in the middle of a call shows in no call.                        *)
LEMMA CallsKept ==
    ASSUME OneSocket, CalmState, LegacySock = NoPath, Next, Calm', NEW l \in Login, LoginNext(l),
           NEW m \in Login, m # l \/ (Running(l) /\ Running(l)')
    PROVE  CallState'[m] = CallState[m] /\ SeenPaths'[m] = SeenPaths[m]
<1> USE DEF CalmState, TurnsTogether
<1>1. HealthyAgents' = HealthyAgents
  BY LoginHealthy
<1>2. CASE m = l
  <2>1. CallState'[l] = "pending" /\ CallState[l] = "pending"
    BY <1>2 DEF CallState, Running
  <2>2. steady'[l] = steady[l]
    BY <1>1, <1>2, SteadyKept
  <2> QED BY <1>2, <2>1, <2>2, SeenKept
<1>3. CASE m # l
  <2>1. pc'[m] = pc[m] /\ outcome'[m] = outcome[m]
    BY <1>3, OthersUntouched, OthersKeep DEF Call, TypeInv
  <2>2. CallState'[m] = CallState[m]
    BY <2>1 DEF CallState, Running
  <2>3. CASE Running(m)
    <3>1. Running(m)'
      BY <2>1, <2>3 DEF Running
    <3> QED BY <1>1, <2>2, <2>3, <3>1, SteadyKept, SeenKept
  <2>4. CASE ~Running(m)
    <3>1. ~Running(m)'
      BY <2>1, <2>4 DEF Running
    <3>2. steady[m] = {} /\ steady'[m] = {}
      BY <2>4, <3>1, SteadyStep DEF SteadyInv
    <3> QED BY <2>2, <3>2, SeenKept
  <2> QED BY <2>3, <2>4
<1> QED BY <1>2, <1>3

(***************************************************************************)
(* Each step of a login is a step of the service, or none.                 *)
(***************************************************************************)

ServiceStep == [Service!Next]_(Service!vars)

(* The call begins.                                                        *)
LEMMA ShellInitBegins ==
    ASSUME OneSocket, CalmState, LegacySock = NoPath, Next, Calm', NEW l \in Login, ShellInit(l)
    PROVE  Service!Begin(l, Fixed[l])
<1> USE DEF CalmState, TurnsTogether
<1>1. LoginNext(l) /\ Remember
  <2>1. LoginNext(l)
    BY DEF LoginNext
  <2> QED BY <2>1 DEF Next, Environment, Step
<1>2. HealthyAgents' = HealthyAgents /\ HealthyPaths' = HealthyPaths
  BY <1>1, LoginHealthy
<1>3. pc[l] = "idle" /\ pc'[l] = "probe" /\ UNCHANGED <<link, spent>>
  BY DEF ShellInit, Goto, TypeInv, TypeOK
<1>4. CallState' = [CallState EXCEPT ![l] = "pending"] /\ CallState[l] = "idle"
  <2>1. CallState'[l] = "pending" /\ CallState[l] = "idle"
    BY <1>3 DEF CallState, Running
  <2>2. \A m \in Login \ {l} : CallState'[m] = CallState[m]
    BY <1>1, CallsKept
  <2> QED BY <2>1, <2>2 DEF CallState
<1>5. SeenPaths' = [SeenPaths EXCEPT ![l] = HealthyPaths]
  <2>1. steady'[l] = HealthyAgents
    BY <1>1, <1>3 DEF Remember, Running
  <2>2. \A p \in HealthyAgents : sock'[p] = sock[p]
    BY DEF ShellInit
  <2>3. {sock'[p] : p \in steady'[l]} = HealthyPaths
    <3>1. {sock'[p] : p \in steady'[l]} = {sock[p] : p \in HealthyAgents}
      BY <2>1, <2>2
    <3>2. ASSUME NEW p \in HealthyAgents PROVE sock[p] \in HealthyPaths
      BY DEF HealthyAgents, HealthyPaths
    <3>3. ASSUME NEW q \in HealthyPaths PROVE \E p \in HealthyAgents : q = sock[p]
      <4>1. bound[q] \in HealthyAgents /\ q \in Path /\ bound[q] # NoPid
        BY PidAssumption DEF HealthyPaths, HealthyAgents
      <4> QED BY <4>1 DEF GroundInv, WorldGround
    <3> QED BY <3>1, <3>2, <3>3
  <2>4. \A m \in Login \ {l} : SeenPaths'[m] = SeenPaths[m]
    BY <1>1, CallsKept
  <2>5. SeenPaths'[l] = HealthyPaths
    BY <2>3 DEF SeenPaths
  <2> QED BY <2>4, <2>5 DEF SeenPaths
<1>6. Fixed = [Fixed EXCEPT ![l] = Fixed[l]]
  BY FixedAssumption
<1> QED BY <1>2, <1>3, <1>4, <1>5, <1>6 DEF Service!Begin

(* A step in the middle of a call leaves the whole service as it is, but   *)
(* for the link at the fixed socket and the count of failures.             *)
LEMMA MidCall ==
    ASSUME OneSocket, CalmState, LegacySock = NoPath, Next, Calm', NEW l \in Login, LoginNext(l),
           Running(l), Running(l)'
    PROVE  UNCHANGED <<HealthyPaths, CallState, SeenPaths>> /\ CallState[l] = "pending"
<1>1. \A m \in Login : CallState'[m] = CallState[m] /\ SeenPaths'[m] = SeenPaths[m]
  BY CallsKept
<1>2. UNCHANGED <<CallState, SeenPaths>>
  BY <1>1 DEF CallState, SeenPaths
<1>3. CallState[l] = "pending"
  BY DEF CallState, Running
<1> QED BY <1>2, <1>3, LoginHealthy

(* The path is cleared or led elsewhere.                                   *)
LEMMA LinkSteps ==
    ASSUME OneSocket, CalmState, LegacySock = NoPath, Next, Calm', NEW l \in Login,
           ClearStalePath(l) \/ Rename(l)
    PROVE  Service!Clear(l) \/ Service!Adopt(l)
<1> USE DEF CalmState, TurnsTogether
<1>0. /\ Fixed[l] = ours /\ ours \in Path /\ ours \in OurPath
      /\ pc \in [Login -> PC] /\ link \in [Path -> Path \cup {NoPath}]
      /\ bound \in [Path -> Pid \cup {NoPid}]
      /\ spent["agentCrash"] \in Nat
  BY FixedOurs DEF TypeInv, TypeOK, WorldTypeOK, FaultKind
<1>1. pc[l] \in {"survey", "rename"} /\ pc'[l] \in {"startprobe", "unlock"} /\ UNCHANGED spent
  BY <1>0 DEF ClearStalePath, Rename, Goto, Return
<1>2. UNCHANGED <<HealthyPaths, CallState, SeenPaths>> /\ CallState[l] = "pending"
  BY <1>1, MidCall DEF LoginNext, Running
<1>3. ~Service!Served(Fixed[l])
  <2>1. Unserved
    BY <1>1 DEF OrderlyInv, Order, Silent
  <2> QED BY <1>0, <2>1, OursServed
<1>4. CASE ClearStalePath(l)
  <2>1. link' = [link EXCEPT ![Fixed[l]] = NoPath]
    BY <1>4 DEF ClearStalePath, clearStalePath
  <2> QED BY <1>1, <1>2, <1>3, <2>1 DEF Service!Clear, Service!Pending
<1>5. CASE Rename(l)
  <2>1. pc[l] = "rename"
    BY <1>5 DEF Rename
  <2>2. tmp[ours] # NoPath
    BY <2>1 DEF TurnsInv, Turn, Calm
  <2>3. PICK p \in foreign[l] : tmp[ours] = sock[p]
    BY <2>1 DEF OrderlyInv, Order
  <2>4. PICK q \in Path \ {ours} : q = sock[p]
    BY DEF GroundInv, CallGround
  <2>5. q \in HealthyPaths \/ spent["agentCrash"] > 0
    <3>1. CASE spent["agentCrash"] = 0
      <4>1. PICK a \in Pid : Answers(a) /\ bound[q] = a
        BY <2>4, <3>1 DEF ServedInv, Kept, SurveyKept
      <4> QED BY <4>1, PathsServed
    <3> QED BY <1>0, <3>1
  <2>6. link' = [link EXCEPT ![Fixed[l]] = q]
    BY <1>0, <1>5, <2>2, <2>3, <2>4 DEF Rename
  <2> QED BY <1>0, <1>1, <1>2, <1>3, <2>5, <2>6 DEF Service!Adopt, Service!Pending
<1> QED BY <1>4, <1>5

(* The call returns: with a served socket, or after a death or a failure.  *)
LEMMA UnlockReturns ==
    ASSUME OneSocket, CalmState, LegacySock = NoPath, Next, Calm', NEW l \in Login, Unlock(l)
    PROVE  Service!Return(l)
<1> USE DEF CalmState, TurnsTogether
<1>0. pc \in [Login -> PC] /\ spent["agentCrash"] \in Nat /\ spent["io"] \in Nat
      /\ Fixed[l] = ours
  BY FixedOurs DEF TypeInv, TypeOK, WorldTypeOK, FaultKind
<1>1. LoginNext(l) /\ Remember
  <2>1. LoginNext(l)
    BY DEF LoginNext
  <2> QED BY <2>1 DEF Next, Environment, Step
<1>2. pc[l] = "unlock" /\ pc'[l] = "done" /\ UNCHANGED <<link, spent, outcome>>
  BY <1>0 DEF Unlock, Goto, world
<1>3. HealthyPaths' = HealthyPaths
  BY <1>1, LoginHealthy
<1> DEFINE result == IF outcome[l] = "error" THEN "error" ELSE "ok"
<1>4. CallState[l] = "pending" /\ CallState' = [CallState EXCEPT ![l] = result]
  <2>1. CallState'[l] = result /\ CallState[l] = "pending"
    BY <1>2 DEF CallState, Running
  <2>2. \A m \in Login \ {l} : CallState'[m] = CallState[m]
    BY <1>1, CallsKept
  <2>3. /\ CallState = [m \in Login |-> CallState[m]]
        /\ CallState' = [m \in Login |-> CallState'[m]]
    BY DEF CallState
  <2> HIDE DEF result
  <2> QED BY <2>1, <2>2, <2>3
<1>5. SeenPaths' = [SeenPaths EXCEPT ![l] = {}]
  <2>1. steady'[l] = {}
    BY <1>1, <1>2 DEF Remember, Running
  <2>2. SeenPaths'[l] = {}
    BY <2>1 DEF SeenPaths
  <2>3. \A m \in Login \ {l} : SeenPaths'[m] = SeenPaths[m]
    BY <1>1, CallsKept
  <2> QED BY <2>2, <2>3 DEF SeenPaths
<1>6. Service!Over(l, result)
  BY <1>2, <1>3, <1>4, <1>5 DEF Service!Over, Service!Pending
<1>7. CASE outcome[l] = "error"
  <2>1. spent["io"] > 0
    BY <1>7 DEF TurnsInv, Turn, Calm
  <2> QED BY <1>6, <1>7, <2>1 DEF Service!Return
<1>8. CASE outcome[l] # "error"
  <2>1. CASE spent["agentCrash"] = 0
    <3>1. ~Unserved
      BY <1>2, <1>8, <2>1 DEF ServedInv, Kept, ReturnKept
    <3>2. Service!Served(Fixed[l])
      BY <1>0, <3>1, OursServed
    <3> QED BY <1>6, <1>8, <3>2 DEF Service!Return
  <2>2. CASE spent["agentCrash"] > 0
    BY <1>6, <1>8, <2>2 DEF Service!Return
  <2> QED BY <1>0, <2>1, <2>2
<1> QED BY <1>7, <1>8

(* All the steps of a login.                                               *)
LEMMA LoginRefines ==
    ASSUME OneSocket, CalmState, LegacySock = NoPath, Next, Calm', NEW l \in Login, LoginNext(l)
    PROVE  ServiceStep
<1> USE DEF CalmState, TurnsTogether
<1>0. /\ pc \in [Login -> PC] /\ Fixed[l] \in Path
      /\ spent \in [FaultKind -> Nat] /\ link \in [Path -> Path \cup {NoPath}]
  BY FixedOurs DEF TypeInv, TypeOK, WorldTypeOK
<1>1. CASE ShellInit(l)
  <2>1. Service!Begin(l, Fixed[l])
    BY <1>1, ShellInitBegins
  <2> QED BY <1>0, <2>1 DEF ServiceStep, Service!Next
<1>2. CASE ClearStalePath(l) \/ Rename(l)
  BY <1>2, LinkSteps DEF ServiceStep, Service!Next
<1>3. CASE Unlock(l)
  BY <1>3, UnlockReturns DEF ServiceStep, Service!Next
<1>4. CASE Fail(l)
  <2>1. Running(l) /\ Running(l)' /\ UNCHANGED link
    BY <1>0, <1>4 DEF Fail, Return, Goto, Running
  <2>2. spent'["io"] = spent["io"] + 1 /\ spent'["agentCrash"] = spent["agentCrash"]
    BY <1>0, <1>4 DEF Fail, Spend, FaultKind
  <2>3. UNCHANGED <<HealthyPaths, CallState, SeenPaths>>
    BY <2>1, MidCall
  <2>4. Service!CallFails
    BY <2>1, <2>2, <2>3 DEF Service!CallFails
  <2> QED BY <2>4 DEF ServiceStep, Service!Next
<1>5. ~LockTimeout(l)
  BY <1>0 DEF LockTimeout, Spend, Calm, FaultKind
<1>6. CASE ~(ShellInit(l) \/ ClearStalePath(l) \/ Rename(l) \/ Unlock(l) \/ Fail(l))
  <2>1. UNCHANGED <<link, spent>>
    BY <1>5, <1>6 DEF LoginNext, FastProbe, AcquireLock, Recheck, ReapScan, ReapProbe,
         Terminate, Unlink, SurveyScan, SurveyProbe, StartProbe, StartUnlink, Spawn, Await,
         Record, RemoveTmp, Symlink, world
  <2>2. Running(l) /\ Running(l)'
    BY <1>0, <1>5, <1>6 DEF LoginNext, FastProbe, AcquireLock, Recheck, ReapScan, ReapProbe,
         Terminate, Unlink, SurveyScan, SurveyProbe, StartProbe, StartUnlink, Spawn, Await,
         Record, RemoveTmp, Symlink, Goto, Return, Running
  <2>3. UNCHANGED <<HealthyPaths, CallState, SeenPaths>>
    BY <2>2, MidCall
  <2> QED BY <2>1, <2>3 DEF ServiceStep, Service!vars
<1> QED BY <1>1, <1>2, <1>3, <1>4, <1>6

(***************************************************************************)
(* Each step of an agent is a step of the service, or none.                *)
(***************************************************************************)

(* What the logins remember when only agents act.                          *)
LEMMA WorldRemembers ==
    ASSUME CalmState, Next, UNCHANGED <<login, shared>>
    PROVE  /\ CallState' = CallState
           /\ \A m \in Login : steady'[m] = steady[m] \ (HealthyAgents \ HealthyAgents')
<1> USE DEF CalmState, TurnsTogether
<1>1. UNCHANGED <<pc, todo, outcome>>
  BY DEF login
<1>2. CallState' = CallState
  BY <1>1 DEF CallState, Running
<1>3. ASSUME NEW m \in Login PROVE steady'[m] = steady[m] \ (HealthyAgents \ HealthyAgents')
  <2>1. CASE ~Running(m)
    <3>1. ~Running(m)'
      BY <1>1, <2>1 DEF Running
    <3> QED BY <2>1, <3>1, SteadyStep DEF SteadyInv
  <2>2. CASE Running(m)
    <3>1. Running(m)' /\ ~Moved(m) /\ Remember
      BY <1>1, <2>2 DEF Running, Moved, Next, Environment, Step
    <3> QED BY <2>2, <3>1 DEF Remember
  <2> QED BY <2>1, <2>2
<1> QED BY <1>2, <1>3

(* The agent of a login comes up: the service starts one.                  *)
LEMMA RiseStarts ==
    ASSUME OneSocket, CalmState, LegacySock = NoPath, Next, CalmWorldStep,
           UNCHANGED <<login, shared>>, NEW p \in Pid, Rises(p)
    PROVE  \E l \in Login : Service!Start(l)
<1> USE DEF CalmState, TurnsTogether
<1>0. /\ ours \in Path /\ p # NoPid /\ stage \in [Pid -> Stage] /\ link \in [Path -> Path \cup {NoPath}]
      /\ bound \in [Path -> Pid \cup {NoPid}] /\ \A l \in Login : Fixed[l] = ours
  BY FixedOurs, PidAssumption DEF TypeInv, TypeOK, WorldTypeOK
<1>1. OrderlyWorld /\ \A l \in Login : Order(l)
  BY DEF OrderlyInv
<1>2. PICK l \in Login : pc[l] = "await" /\ started[l] = p
  BY <1>1 DEF Rises, OrderlyWorld
<1>3. p \notin doomed /\ p \in mine /\ stalled = {}
  BY <1>1, <1>2 DEF Order, Rises, GroundInv, WorldGround, OrderlyWorld
<1>4. UNCHANGED <<sock, mine, stalled, doomed, link>>
  BY DEF CalmWorldStep
<1>5. /\ stage[p] = "starting" /\ sock[p] = ours /\ bound[ours] = NoPid /\ link[ours] = NoPath
      /\ stage' = [stage EXCEPT ![p] = "up"] /\ bound' = [bound EXCEPT ![ours] = p]
      /\ UNCHANGED spent
  BY DEF Rises
<1>6. HealthyAgents' = HealthyAgents \cup {p}
  <2>1. p \in HealthyAgents'
    BY <1>0, <1>3, <1>4, <1>5 DEF HealthyAgents, Answers
  <2>2. ASSUME NEW r \in Pid \ {p} PROVE r \in HealthyAgents' <=> r \in HealthyAgents
    <3>1. Answers(r)' <=> Answers(r)
      BY <1>0, <1>4, <1>5 DEF Answers
    <3>2. sock[r] \in Path => (bound'[sock[r]] = r <=> bound[sock[r]] = r)
      BY <1>0, <1>5, PidAssumption
    <3> QED BY <1>4, <3>1, <3>2 DEF HealthyAgents
  <2>3. HealthyAgents \subseteq Pid /\ HealthyAgents' \subseteq Pid
    BY DEF HealthyAgents
  <2> QED BY <2>1, <2>2, <2>3
<1>7. HealthyPaths' = HealthyPaths \cup {ours}
  <2>1. ASSUME NEW q \in Path \ {ours}
        PROVE  bound'[q] \in HealthyAgents' <=> bound[q] \in HealthyAgents
    <3>1. bound'[q] = bound[q] /\ bound[q] # p
      BY <1>0, <1>5 DEF GroundInv, WorldGround
    <3> QED BY <1>6, <3>1
  <2>2. bound'[ours] \in HealthyAgents'
    BY <1>0, <1>5, <1>6
  <2> QED BY <1>0, <2>1, <2>2 DEF HealthyPaths
<1>8. CallState' = CallState /\ CallState[l] = "pending"
  BY <1>2, WorldRemembers DEF CallState, Running
<1>9. SeenPaths' = SeenPaths
  <2>1. \A m \in Login : steady'[m] = steady[m]
    BY <1>6, WorldRemembers
  <2> QED BY <2>1, SeenKept DEF SeenPaths
<1>10. SeenPaths[l] = {}
  <2>1. ASSUME NEW r \in steady[l] PROVE FALSE
    <3>1. sock[r] # LegacySock
      BY PathAssumption DEF SteadyInv
    <3>2. pc[l] \notin StartingOwn
      BY <3>1 DEF HarmInv, Spared
    <3> QED BY <1>2, <3>2 DEF StartingOwn
  <2> QED BY <2>1 DEF SeenPaths
<1>11. ~Service!Served(Fixed[l])
  <2>1. Unserved
    BY <1>5, PidAssumption DEF Unserved, AtOurs
  <2> QED BY <1>0, <2>1, OursServed
<1>12. Service!Start(l)
  BY <1>0, <1>4, <1>5, <1>7, <1>8, <1>9, <1>10, <1>11 DEF Service!Start, Service!Pending
<1> QED BY <1>12

(* An agent that was told to end, and does, served nobody.                 *)
LEMMA EndsUnseen ==
    ASSUME OneSocket, CalmState, Next, CalmWorldStep, UNCHANGED <<login, shared>>,
           NEW p \in Pid, Ends(p)
    PROVE  UNCHANGED Service!vars
<1> USE DEF CalmState, TurnsTogether
<1>1. UNCHANGED <<sock, mine, stalled, doomed, link, bound, spent>>
  BY DEF CalmWorldStep, Ends
<1>2. stage' = [stage EXCEPT ![p] = "gone"] /\ p \in doomed /\ stage \in [Pid -> Stage]
  BY DEF Ends, TypeInv, TypeOK, WorldTypeOK
<1>3. HealthyAgents' = HealthyAgents
  BY <1>1, <1>2 DEF HealthyAgents, Answers
<1>4. HealthyPaths' = HealthyPaths
  BY <1>1, <1>3 DEF HealthyPaths
<1>5. CallState' = CallState /\ \A m \in Login : steady'[m] = steady[m]
  BY <1>3, WorldRemembers
<1>6. SeenPaths' = SeenPaths
  BY <1>5, SeenKept DEF SeenPaths
<1> QED BY <1>1, <1>4, <1>5, <1>6 DEF Service!vars

(* An agent dies, and with it at most one served path.                     *)
LEMMA CrashDies ==
    ASSUME OneSocket, CalmState, LegacySock = NoPath, Next, UNCHANGED <<login, shared>>,
           NEW p \in Pid, AgentCrash(p)
    PROVE  Service!Die
<1> USE DEF CalmState, TurnsTogether
<1> DEFINE gone == IF p \in HealthyAgents THEN {sock[p]} ELSE {}
<1>0. /\ p # NoPid /\ stage \in [Pid -> Stage] /\ bound \in [Path -> Pid \cup {NoPid}]
      /\ spent \in [FaultKind -> Nat]
  BY PidAssumption DEF TypeInv, TypeOK, WorldTypeOK
<1>1. /\ stage' = [stage EXCEPT ![p] = "gone"]
      /\ UNCHANGED <<sock, mine, stalled, doomed, link>>
      /\ spent' = [spent EXCEPT !["agentCrash"] = @ + 1]
  BY DEF AgentCrash, Spend
<1>2. bound' = bound \/ (p \in HealthyAgents /\ bound' = [bound EXCEPT ![sock[p]] = NoPid])
  BY DEF AgentCrash, removeSocket
<1>3. \A q \in Path : bound[q] # NoPid => sock[bound[q]] = q
  BY DEF GroundInv, WorldGround
<1>4. \A r \in HealthyAgents : r \in Pid /\ sock[r] \in Path /\ bound[sock[r]] = r /\ r # NoPid
  BY PidAssumption DEF HealthyAgents
<1>5. HealthyAgents' = HealthyAgents \ {p}
  <2>1. p \notin HealthyAgents'
    BY <1>0, <1>1 DEF HealthyAgents, Answers
  <2>2. ASSUME NEW r \in Pid \ {p} PROVE r \in HealthyAgents' <=> r \in HealthyAgents
    <3>1. Answers(r)' <=> Answers(r)
      BY <1>0, <1>1 DEF Answers
    <3>2. sock[r] \in Path => (bound'[sock[r]] = r <=> bound[sock[r]] = r)
      BY <1>0, <1>2, <1>4, PidAssumption
    <3> QED BY <1>1, <3>1, <3>2 DEF HealthyAgents
  <2>3. HealthyAgents' \subseteq Pid /\ HealthyAgents \subseteq Pid
    BY DEF HealthyAgents
  <2> QED BY <2>1, <2>2, <2>3
<1>6. HealthyPaths' = HealthyPaths \ gone
  <2>1. ASSUME NEW q \in Path
        PROVE  bound'[q] \in HealthyAgents' <=> bound[q] \in HealthyAgents /\ q \notin gone
    <3>1. CASE q \in gone
      <4>1. p \in HealthyAgents /\ bound[q] = p /\ bound'[q] \in {p, NoPid}
        BY <1>0, <1>2, <1>4, <3>1
      <4> QED BY <1>4, <1>5, <3>1, <4>1
    <3>2. CASE q \notin gone
      <4>1. bound'[q] = bound[q]
        BY <1>0, <1>2, <3>2
      <4>2. bound[q] = p => p \notin HealthyAgents
        BY <1>0, <1>3, <3>2
      <4> QED BY <1>5, <3>2, <4>1, <4>2
    <3> QED BY <3>1, <3>2
  <2> HIDE DEF gone
  <2> QED BY <2>1 DEF HealthyPaths
<1>7. CallState' = CallState
      /\ \A m \in Login : steady'[m] = steady[m] \ (HealthyAgents \ HealthyAgents')
  BY WorldRemembers
<1>8. SeenPaths' = [m \in Login |-> SeenPaths[m] \ gone]
  <2>1. ASSUME NEW m \in Login PROVE SeenPaths'[m] = SeenPaths[m] \ gone
    <3>1. steady[m] \subseteq HealthyAgents
      <4> SUFFICES ASSUME NEW r \in steady[m] PROVE r \in HealthyAgents
        OBVIOUS
      <4>1. sock[r] # LegacySock
        BY PathAssumption DEF SteadyInv
      <4> QED BY <4>1 DEF HarmInv, Spared
    <3>2. steady'[m] = steady[m] \ {p}
      BY <1>5, <1>7, <3>1
    <3>3. {sock[r] : r \in steady[m] \ {p}} = {sock[r] : r \in steady[m]} \ gone
      <4>1. ASSUME NEW r \in steady[m] PROVE sock[r] \in gone <=> r = p
        BY <1>4, <3>1
      <4> HIDE DEF gone
      <4> QED BY <4>1
    <3>4. SeenPaths'[m] = {sock'[r] : r \in steady'[m]} /\ SeenPaths[m] = {sock[r] : r \in steady[m]}
      BY DEF SeenPaths
    <3> HIDE DEF gone
    <3> QED BY <1>1, <3>2, <3>3, <3>4
  <2> HIDE DEF gone
  <2>2. SeenPaths' = [m \in Login |-> SeenPaths'[m]]
    BY DEF SeenPaths
  <2> QED BY <2>1, <2>2
<1>9. gone \in {{}} \cup {{f} : f \in HealthyPaths}
  <2>1. p \in HealthyAgents => sock[p] \in HealthyPaths
    BY <1>4 DEF HealthyPaths
  <2> QED BY <2>1
<1>10. spent'["agentCrash"] = spent["agentCrash"] + 1 /\ spent'["io"] = spent["io"]
  BY <1>0, <1>1 DEF FaultKind
<1> HIDE DEF gone
<1> QED BY <1>1, <1>6, <1>7, <1>8, <1>9, <1>10 DEF Service!Die

(* All the steps of agents.                                                *)
LEMMA WorldRefines ==
    ASSUME OneSocket, CalmState, LegacySock = NoPath, Next, Calm',
           WorldNext, UNCHANGED <<login, shared>>
    PROVE  ServiceStep
<1>1. CalmWorldStep
  BY CalmWorld DEF CalmState, TurnsTogether
<1>2. PICK p \in Pid : Rises(p) \/ Ends(p) \/ Dies(p)
  BY <1>1 DEF CalmWorldStep
<1>3. CASE Rises(p)
  BY <1>1, <1>3, RiseStarts DEF ServiceStep, Service!Next
<1>4. CASE Ends(p)
  BY <1>1, <1>4, EndsUnseen DEF ServiceStep
<1>5. CASE Dies(p)
  <2>1. AgentCrash(p)
    BY <1>5 DEF Dies
  <2> QED BY <2>1, CrashDies DEF ServiceStep, Service!Next
<1> QED BY <1>2, <1>3, <1>4, <1>5

(***************************************************************************)
(* The refinement.                                                         *)
(***************************************************************************)

\* The landscapes a login can find are ones the service starts in.
LEMMA ServiceInit == ASSUME OneSocket, Init PROVE Service!Init
<1>1. TypeInv /\ GroundInv
  BY TypeInvInit, GroundInit
<1>2. \A f \in HealthyPaths : link[f] = NoPath
  <2> SUFFICES ASSUME NEW f \in Path, bound[f] \in HealthyAgents PROVE link[f] = NoPath
    BY DEF HealthyPaths
  <2>1. bound[f] # NoPid
    BY PidAssumption DEF HealthyAgents
  <2> QED BY <1>1, <2>1 DEF GroundInv, WorldGround
<1>3. HealthyPaths \in SUBSET Path
  BY DEF HealthyPaths
<1>4. link \in [Path -> Path \cup {NoPath}]
  BY <1>1 DEF TypeInv, TypeOK, WorldTypeOK
<1>5. CallState = [l \in Login |-> "idle"]
  <2>1. \A l \in Login : pc[l] = "idle"
    BY DEF Init
  <2>2. \A l \in Login : CallState[l] = "idle"
    BY <2>1 DEF CallState, Running
  <2>3. CallState = [l \in Login |-> CallState[l]]
    BY DEF CallState
  <2> QED BY <2>2, <2>3
<1>6. SeenPaths = [l \in Login |-> {}]
  <2>1. \A l \in Login : {sock[p] : p \in steady[l]} = {}
    BY DEF Init
  <2> QED BY <2>1 DEF SeenPaths
<1>7. Fixed \in [Login -> Path]
  BY FixedAssumption, PathAssumption
<1>8. spent["agentCrash"] = 0 /\ spent["io"] = 0
  BY DEF Init, FaultKind
<1> QED BY <1>2, <1>3, <1>4, <1>5, <1>6, <1>7, <1>8 DEF Service!Init

(* A step of the logins or of the agents is a step of the service, or none.*)
LEMMA StepRefines ==
    ASSUME OneSocket, CalmState, LegacySock = NoPath, Calm', [Next]_vars
    PROVE  ServiceStep
<1>1. CASE UNCHANGED vars
  <2>1. UNCHANGED <<HealthyPaths, link, CallState, SeenPaths, spent>>
    BY <1>1 DEF vars, world, login, history, HealthyPaths, HealthyAgents, Answers, CallState,
                SeenPaths, Running
  <2> QED BY <2>1 DEF ServiceStep, Service!vars
<1>2. CASE Next
  <2>1. ASSUME NEW l \in Login PROVE ~LoginCrash(l)
    BY DEF LoginCrash, Spend, CalmState, Calm, TurnsTogether, TypeInv, TypeOK, WorldTypeOK, FaultKind
  <2> QED BY <1>2, <2>1, LoginRefines, WorldRefines DEF Next, Environment, Step
<1> QED BY <1>1, <1>2

(* EnsureAgent implements the service, for any number of logins, agents    *)
(* and other paths: seen from outside, logins that race through probe,     *)
(* lock, reaping, survey and start only adopt, start and return, and a     *)
(* served socket stays served until its agent dies (ensure.go, lock.go,    *)
(* manage.go).                                                             *)
THEOREM EnsureAgentRefines ==
    (OneSocket /\ LegacySock = NoPath /\ Never(Disorder)) => (Spec => ImplementsService)
<1> SUFFICES ASSUME OneSocket, LegacySock = NoPath, Never(Disorder)
             PROVE  Spec => ImplementsService
  OBVIOUS
<1> DEFINE Inv == TurnsTogether /\ ServedInv /\ WithinBudget /\ HarmInv /\ SteadyInv
<1>1. Inv => CalmState
  BY NeverStrikes DEF CalmState, Calm, Disorder, FaultKind, TurnsTogether
<1>2. Spec => []Inv
  <2>1. Init => Inv
    <3>1. Init => WithinBudget
      BY BudgetAssumption DEF Init, WithinBudget
    <3>2. Init => HarmInv
      BY DEF Init, HarmInv
    <3> QED BY <3>1, <3>2, TypeInvInit, GroundInit, TurnsInit, OrderlyInit, ServedInit, SteadyInit
            DEF TurnsTogether
  <2>2. Inv /\ [Next]_vars => Inv'
    BY TypeInvStep, GroundStep, TurnsStep, OrderlyStep, ServedStep, WithinBudgetStep,
       HarmInvStep, SteadyStep DEF TurnsTogether
  <2> QED BY <2>1, <2>2, PTL DEF Spec
<1> HIDE DEF Inv
<1>3. CalmState /\ CalmState' /\ [Next]_vars => ServiceStep
  BY StepRefines DEF CalmState
<1>4. Spec => Service!Init
  BY ServiceInit DEF Spec
<1>5. Spec => [][Service!Next]_(Service!vars)
  BY <1>1, <1>2, <1>3, PTL DEF Spec, ServiceStep
<1> QED BY <1>4, <1>5, PTL DEF ImplementsService, Service!Spec

=============================================================================
