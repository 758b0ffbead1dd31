----------------------------- MODULE TurnsProofs ------------------------------
(***************************************************************************)
(* What TLAPS proves of logins that take turns at the lock beside one      *)
(* fixed socket, for any number of logins, agents and other paths.         *)
(*                                                                         *)
(* Three invariants carry the results.  GroundInv holds whatever happens;  *)
(* TurnsInv while no login has given up waiting for the lock; OrderlyInv   *)
(* while, besides, no login is killed, no agent stalls or exits late, and  *)
(* no other program starts one.                                            *)
(***************************************************************************)
EXTENDS EnsureAgentProofs

(* All logins share one fixed socket (their tokens agree, which is what    *)
(* SocketToken is about).  With two, a login that finds the other socket's *)
(* agent between its exec and its bind takes it for dead.                  *)
ours == CHOOSE f \in OurPath : TRUE
OneSocket == OurPath = {ours}

(***************************************************************************)
(* The invariants.                                                         *)
(***************************************************************************)

(* What lies in the file system, and whose it is.                          *)
WorldGround ==
    /\ \A p \in Pid :
        /\ stage[p] = "starting" => sock[p] \in Path
        /\ sock[p] = ours => p \in mine
        /\ p \in mine => stage[p] # "unborn"
    /\ doomed \subseteq mine
    /\ \A q \in Path :
        /\ bound[q] # NoPid => sock[bound[q]] = q /\ stage[bound[q]] \in {"up", "gone"}
        /\ link[q] # NoPath => q = ours /\ link[q] # ours /\ bound[q] = NoPid

\* A survey lists no agent of the fixed socket; a victim runs under our uid.
CallGround(l) ==
    /\ \A p \in foreign[l] : sock[p] \in Path \ {ours}
    /\ pc[l] \in {"terminate", "unlink"} => victim[l] \in mine

GroundInv ==
    /\ WorldGround
    /\ tmp[ours] # ours
    /\ \A l \in Login : CallGround(l)

(* Between the lock and the unlock.                                        *)
Critical == PC \ {"idle", "probe", "lock", "unlock", "done", "crashed"}

\* The agents that may yet bind the fixed socket.
Coming == { p \in Pid : stage[p] = "starting" /\ sock[p] = ours /\ p \notin doomed }

(* A login that has the lock keeps it, meets every agent that was coming   *)
(* before it starts one or adopts one, and finds the fixed path and        *)
(* f.adopt as its own last step left them.                                 *)
Turn(l) ==
    /\ pc[l] \in Critical => holder[ours] = l
    /\ pc[l] \in {"reap", "unlink"} => Coming \subseteq todo[l]
    /\ pc[l] = "terminate" => Coming \subseteq todo[l] \cup {victim[l]}
    /\ pc[l] \in {"survey", "startprobe", "startunlink", "spawn", "symlink", "rename"}
         => Coming = {}
    /\ pc[l] \in {"startprobe", "startunlink", "spawn"}
         => bound[ours] = NoPid /\ link[ours] = NoPath
    /\ pc[l] = "await" =>
         /\ Coming \subseteq {started[l]} /\ started[l] \in Pid
         /\ stage[started[l]] \in {"starting", "up", "gone"}
         /\ stage[started[l]] = "starting" => started[l] \in Coming
    /\ pc[l] = "symlink" => tmp[ours] = NoPath
    /\ pc[l] = "rename" => tmp[ours] # NoPath
    /\ outcome[l] = "error" => spent["io"] > 0

\* At most one agent is coming, and nothing lies in its way.
WayIsClear ==
    /\ \A p, q \in Coming : p = q
    /\ Coming # {} => bound[ours] = NoPid /\ link[ours] = NoPath

TurnsInv ==
    spent["lockTimeout"] = 0 => WayIsClear /\ \A l \in Login : Turn(l)

(***************************************************************************)
(* Facts every proof below uses.                                           *)
(***************************************************************************)

(* The one fixed socket is that of every login.                            *)
LEMMA FixedOurs ==
    ASSUME OneSocket
    PROVE  ours \in Path /\ ours \in OurPath /\ \A l \in Login : Fixed[l] = ours
  BY FixedAssumption, PathAssumption DEF OneSocket

(* What a step of one login cannot change in the call of another.          *)
LEMMA OthersKeep ==
    ASSUME TypeOK, NEW l \in Login, LoginNext(l) \/ LoginCrash(l), NEW m \in Login, m # l
    PROVE  started'[m] = started[m] /\ outcome'[m] = outcome[m]
  BY DEF TypeOK, Goto, Return, Forget, LoginCrash, LoginNext, ShellInit, FastProbe,
         AcquireLock, LockTimeout, Recheck, ReapScan, ReapProbe, Terminate, Unlink,
         SurveyScan, SurveyProbe, ClearStalePath, StartProbe, StartUnlink, Spawn, Await,
         Record, RemoveTmp, Symlink, Rename, Unlock, Fail, shared

(* Faults are counted and never forgotten.                                 *)
LEMMA SpentGrows ==
    ASSUME TypeOK, [Next]_vars, NEW k \in FaultKind
    PROVE  spent[k] \in Nat /\ spent'[k] \in Nat /\ spent'[k] >= spent[k]
<1> USE DEF TypeOK, WorldTypeOK
<1>1. CASE UNCHANGED spent
  BY <1>1
<1>2. ASSUME NEW j \in FaultKind, spent' = [spent EXCEPT ![j] = @ + 1]
      PROVE  spent[k] \in Nat /\ spent'[k] \in Nat /\ spent'[k] >= spent[k]
  BY <1>2
<1>3. UNCHANGED spent \/ \E j \in FaultKind : spent' = [spent EXCEPT ![j] = @ + 1]
  <2>1. CASE UNCHANGED vars
    BY <2>1 DEF vars, world
  <2>2. CASE WorldNext
    BY <2>2 DEF WorldNext, ForeignStart, AgentBind, AgentAborted, AgentExit, AgentCrash,
                Stall, Resume, Spend, FaultKind
  <2>3. ASSUME NEW l \in Login, LoginNext(l) \/ LoginCrash(l)
        PROVE  UNCHANGED spent \/ \E j \in FaultKind : spent' = [spent EXCEPT ![j] = @ + 1]
    BY <2>3 DEF LoginCrash, LoginNext, ShellInit, FastProbe,
         AcquireLock, LockTimeout, Recheck, ReapScan, ReapProbe, Terminate, Unlink,
         SurveyScan, SurveyProbe, ClearStalePath, StartProbe, StartUnlink, Spawn, Await,
         Record, RemoveTmp, Symlink, Rename, Unlock, Fail, Spend, FaultKind, world
  <2> QED BY <2>1, <2>2, <2>3 DEF Next, Environment, Step
<1> QED BY <1>1, <1>2, <1>3

(***************************************************************************)
(* The ground.                                                             *)
(***************************************************************************)

\* Whatever earlier sessions left, what lies in the file system is in order.
LEMMA GroundInit == ASSUME OneSocket, Init PROVE GroundInv
<1> USE FixedOurs, PathAssumption, PidAssumption DEF OneSocket
<1>1. WorldGround
  <2>1. PICK others \in SUBSET Pid :
            /\ \A p \in others : stage[p] = "up" /\ sock[p] \notin OurPath
            /\ mine = {p \in Pid \ others : stage[p] # "unborn"}
    BY DEF Init
  <2>2. \A p \in Pid : stage[p] # "starting" /\ (sock[p] = ours => p \in mine)
            /\ (p \in mine => stage[p] # "unborn")
    BY <2>1 DEF Init
  <2>3. \A q \in Path : bound[q] # NoPid => sock[bound[q]] = q /\ stage[bound[q]] \in {"up", "gone"}
    <3> TAKE q \in Path
    <3> HAVE bound[q] # NoPid
    <3>1. bound[q] \in Pid /\ stage[bound[q]] # "unborn" /\ sock[bound[q]] = q
      BY DEF Init
    <3>2. stage[bound[q]] \in {"unborn", "up", "gone"}
      BY <3>1 DEF Init
    <3> QED BY <3>1, <3>2
  <2>4. doomed \subseteq mine
    BY DEF Init
  <2>5. \A q \in Path : link[q] # NoPath => q = ours /\ link[q] # ours /\ bound[q] = NoPid
    BY DEF Init
  <2> QED BY <2>2, <2>3, <2>4, <2>5 DEF WorldGround
<1>2. tmp[ours] # ours
  BY DEF Init
<1>3. \A l \in Login : CallGround(l)
  BY DEF Init, CallGround
<1> QED BY <1>1, <1>2, <1>3 DEF GroundInv

(* Agents and other programs keep the ground.                              *)
LEMMA GroundWorldStep ==
    ASSUME OneSocket, TypeInv, GroundInv, WorldNext PROVE WorldGround'
<1> USE FixedOurs, PathAssumption, PidAssumption
    DEF GroundInv, WorldGround, TypeInv, TypeOK, WorldTypeOK, Stage, OneSocket
<1>1. CASE ForeignStart
  BY <1>1 DEF ForeignStart
<1>2. ASSUME NEW p \in Pid, AgentBind(p) PROVE WorldGround'
  <2>1. UNCHANGED <<sock, mine, doomed, link>> /\ stage[p] = "starting" /\ sock[p] \in Path
    BY <1>2 DEF AgentBind
  <2>2. CASE bound[sock[p]] = NoPid /\ link[sock[p]] = NoPath
    <3>1. stage' = [stage EXCEPT ![p] = "up"] /\ bound' = [bound EXCEPT ![sock[p]] = p]
      BY <1>2, <2>2 DEF AgentBind
    <3> QED BY <2>1, <2>2, <3>1
  <2>3. CASE ~(bound[sock[p]] = NoPid /\ link[sock[p]] = NoPath)
    <3>1. stage' = [stage EXCEPT ![p] = "failed"] /\ UNCHANGED bound
      BY <1>2, <2>3 DEF AgentBind
    <3> QED BY <2>1, <3>1
  <2> QED BY <2>2, <2>3
<1>3. ASSUME NEW p \in Pid, AgentAborted(p) PROVE WorldGround'
  BY <1>3 DEF AgentAborted
<1>4. ASSUME NEW p \in Pid, AgentExit(p) PROVE WorldGround'
  BY <1>4 DEF AgentExit, clearStalePath
<1>5. ASSUME NEW p \in Pid, AgentCrash(p) PROVE WorldGround'
  BY <1>5 DEF AgentCrash, removeSocket
<1>6. ASSUME NEW p \in Pid, Stall(p) \/ Resume(p) PROVE WorldGround'
  BY <1>6 DEF Stall, Resume
<1> QED BY <1>1, <1>2, <1>3, <1>4, <1>5, <1>6 DEF WorldNext

(* So does every step of a login.                                          *)
LEMMA GroundLoginStep ==
    ASSUME OneSocket, TypeInv, GroundInv, NEW l \in Login, LoginNext(l) \/ LoginCrash(l)
    PROVE  WorldGround' /\ tmp'[ours] # ours /\ CallGround(l)'
<1> USE FixedOurs, PathAssumption, PidAssumption
    DEF GroundInv, WorldGround, CallGround, TypeInv, TypeOK, WorldTypeOK, Stage, OneSocket,
        Goto, Return, shared
<1> DEFINE Goal == WorldGround' /\ tmp'[ours] # ours /\ CallGround(l)'
<1>1. CASE ShellInit(l)
  BY <1>1 DEF ShellInit, CleanupLegacyAgentDir
<1>2. CASE ReapProbe(l)
  BY <1>2 DEF ReapProbe, world
<1>3. CASE Terminate(l)
  <2>1. doomed' \subseteq doomed \cup {victim[l]} /\ victim[l] \in mine
    BY <1>3 DEF Terminate
  <2>2. UNCHANGED <<stage, sock, mine, bound, link, tmp, foreign, victim>>
    BY <1>3 DEF Terminate
  <2>3. WorldGround'
    BY <2>1, <2>2
  <2> QED BY <2>1, <2>2, <2>3
<1>4. CASE Unlink(l)
  BY <1>4 DEF Unlink, removeSocket, CallOK, Born
<1>5. CASE SurveyProbe(l)
  BY <1>5 DEF SurveyProbe, world
<1>6. CASE ClearStalePath(l)
  BY <1>6 DEF ClearStalePath, clearStalePath
<1>7. CASE StartUnlink(l)
  BY <1>7 DEF StartUnlink, removeSocket
<1>8. CASE Spawn(l)
  BY <1>8 DEF Spawn, CallOK, Born
<1>9. CASE Symlink(l)
  <2>1. CASE tmp[ours] = NoPath
    <3>1. Min(foreign[l]) \in foreign[l]
      BY <1>9, LowestPid DEF Symlink, CallOK
    <3>2. tmp' = [tmp EXCEPT ![ours] = sock[Min(foreign[l])]]
      BY <1>9, <2>1 DEF Symlink
    <3>3. UNCHANGED world /\ UNCHANGED foreign /\ pc'[l] \notin {"terminate", "unlink"}
      BY <1>9, <2>1 DEF Symlink
    <3>4. WorldGround'
      BY <3>3 DEF world
    <3>5. tmp'[ours] # ours
      BY <3>1, <3>2
    <3> QED BY <3>3, <3>4, <3>5 DEF world
  <2>2. CASE tmp[ours] # NoPath
    BY <1>9, <2>2 DEF Symlink, world
  <2> QED BY <2>1, <2>2
<1>10. CASE Rename(l)
  BY <1>10 DEF Rename
<1>11. CASE \/ Unlock(l) \/ LoginCrash(l) \/ Fail(l) \/ LockTimeout(l) \/ FastProbe(l)
            \/ AcquireLock(l) \/ Recheck(l) \/ ReapScan(l) \/ SurveyScan(l)
            \/ StartProbe(l) \/ Await(l) \/ Record(l) \/ RemoveTmp(l)
  <2>1. UNCHANGED <<stage, sock, mine, doomed, bound, link>>
    BY <1>11 DEF Unlock, LoginCrash, Fail, LockTimeout, FastProbe, AcquireLock, Recheck,
         ReapScan, SurveyScan, StartProbe, Await, Record, RemoveTmp, world
  <2>2. tmp'[ours] \in {tmp[ours], NoPath}
    BY <1>11 DEF Unlock, LoginCrash, Fail, LockTimeout, FastProbe, AcquireLock, Recheck,
         ReapScan, SurveyScan, StartProbe, Await, Record, RemoveTmp
  <2>3. foreign'[l] \subseteq foreign[l] /\ pc'[l] \notin {"terminate", "unlink"}
    BY <1>11 DEF Unlock, LoginCrash, Fail, LockTimeout, FastProbe, AcquireLock, Recheck,
         ReapScan, SurveyScan, StartProbe, Await, Record, RemoveTmp, Forget
  <2>4. WorldGround'
    BY <2>1
  <2> QED BY <2>1, <2>2, <2>3, <2>4
<1> QED BY <1>1, <1>2, <1>3, <1>4, <1>5, <1>6, <1>7, <1>8, <1>9, <1>10, <1>11
        DEF LoginNext

\* Every step of logins, agents and faults leaves it in order.
LEMMA GroundStep ==
    ASSUME OneSocket, TypeInv, GroundInv, [Next]_vars PROVE GroundInv'
<1>1. CASE UNCHANGED vars
  BY <1>1 DEF vars, world, login, shared, GroundInv, WorldGround, CallGround
<1>2. CASE WorldNext /\ UNCHANGED <<login, shared>>
  <2>1. WorldGround'
    BY <1>2, GroundWorldStep
  <2>2. Born \subseteq Born' /\ \A p \in Born : sock'[p] = sock[p]
    <3>1. stage \in [Pid -> Stage] /\ sock \in [Pid -> Path \cup {NoPath}]
      BY DEF TypeInv, TypeOK, WorldTypeOK
    <3> QED BY <1>2, <3>1 DEF WorldNext, ForeignStart, AgentBind, AgentAborted, AgentExit,
               AgentCrash, Stall, Resume, Born, Stage
  <2>3. mine \subseteq mine'
    BY <1>2 DEF WorldNext, ForeignStart, AgentBind, AgentAborted, AgentExit, AgentCrash,
                Stall, Resume
  <2>4. \A l \in Login : CallGround(l)'
    BY <1>2, <2>2, <2>3 DEF GroundInv, CallGround, TypeInv, CallOK, login
  <2> QED BY <1>2, <2>1, <2>4 DEF GroundInv, shared
<1>3. ASSUME NEW l \in Login, Next, LoginNext(l) \/ LoginCrash(l) PROVE GroundInv'
  <2>1. WorldGround' /\ tmp'[ours] # ours /\ CallGround(l)'
    BY <1>3, GroundLoginStep
  <2>2. Born \subseteq Born' /\ \A p \in Born : sock'[p] = sock[p]
    BY <1>3, BornStays DEF TypeInv
  <2>3. mine \subseteq mine'
    BY <1>3 DEF LoginCrash, LoginNext, ShellInit, FastProbe,
         AcquireLock, LockTimeout, Recheck, ReapScan, ReapProbe, Terminate, Unlink,
         SurveyScan, SurveyProbe, ClearStalePath, StartProbe, StartUnlink, Spawn, Await,
         Record, RemoveTmp, Symlink, Rename, Unlock, Fail, world
  <2>4. ASSUME NEW m \in Login, m # l PROVE CallGround(m)'
    <3>1. Call(m)' = Call(m)
      BY <1>3, <2>4, OthersUntouched DEF TypeInv
    <3>2. CallGround(m) /\ CallOK(m)
      BY DEF GroundInv, TypeInv
    <3> QED BY <2>2, <2>3, <3>1, <3>2 DEF CallGround, CallOK, Call
  <2> QED BY <2>1, <2>4 DEF GroundInv
<1> QED BY <1>1, <1>2, <1>3 DEF Next, Environment, Step

(***************************************************************************)
(* Taking turns.                                                           *)
(***************************************************************************)

(* A path at which nothing lies leads nowhere.                             *)
LEMMA NothingThere ==
    ASSUME NEW q \in Path, bound[q] = NoPid, link[q] = NoPath
    PROVE  ~Reachable(q)
<1>1. Trail(q) \subseteq {q}
  <2>1. \A y \in {q} : link[y] # NoPath => link[y] \in {q}
    OBVIOUS
  <2>2. {q} \in SUBSET Path /\ q \in {q}
    OBVIOUS
  <2> QED BY <2>1, <2>2 DEF Trail
<1>2. \A p \in Pid : p # NoPid
  BY PidAssumption
<1> QED BY <1>1, <1>2 DEF Reachable, Serves

(* What agents and other programs can do to the fixed socket: entries go,  *)
(* or the one agent that is coming binds it.                               *)
OursLater ==
    /\ Coming' \subseteq Coming
    /\ link'[ours] \in {link[ours], NoPath}
    /\ \/ bound'[ours] \in {bound[ours], NoPid}
       \/ \E p \in Coming : Coming' = {} /\ bound'[ours] = p
    /\ \A p \in Coming : stage'[p] \in {"starting", "up"}
    /\ \A p \in Pid : stage[p] \in {"up", "gone"} => stage'[p] \in {"up", "gone"}

(* That is all WorldNext does to it.                                       *)
LEMMA WorldAtOurs ==
    ASSUME OneSocket, TypeInv, GroundInv, WayIsClear, WorldNext
    PROVE  OursLater
<1> USE FixedOurs, PathAssumption, PidAssumption
    DEF GroundInv, WorldGround, TypeInv, TypeOK, WorldTypeOK, OneSocket, Coming, OursLater
<1>1. CASE ForeignStart
  BY <1>1 DEF ForeignStart
<1>2. ASSUME NEW p \in Pid, AgentBind(p) PROVE OursLater
  <2>1. UNCHANGED <<sock, doomed, link>> /\ stage[p] = "starting" /\ p \notin doomed
        /\ sock[p] \in Path
    BY <1>2 DEF AgentBind
  <2>2. CASE sock[p] = ours
    <3>1. p \in Coming /\ Coming = {p} /\ bound[ours] = NoPid /\ link[ours] = NoPath
      <4>1. p \in Coming
        BY <2>1, <2>2
      <4> HIDE DEF Coming
      <4> QED BY <4>1 DEF WayIsClear
    <3>2. stage' = [stage EXCEPT ![p] = "up"] /\ bound' = [bound EXCEPT ![ours] = p]
      BY <1>2, <2>2, <3>1 DEF AgentBind
    <3>3. Coming' = {} /\ bound'[ours] = p /\ link'[ours] = link[ours]
      BY <2>1, <3>1, <3>2
    <3>4. \A r \in Pid : stage[r] \in {"up", "gone"} => stage'[r] \in {"up", "gone"}
      BY <2>1, <3>2
    <3>5. \A r \in Coming : stage'[r] \in {"starting", "up"}
      BY <3>1, <3>2
    <3> HIDE DEF Coming
    <3> QED BY <3>1, <3>3, <3>4, <3>5
  <2>3. CASE sock[p] # ours
    <3>1. bound'[ours] = bound[ours] /\ \A r \in Pid \ {p} : stage'[r] = stage[r]
      BY <1>2, <2>3 DEF AgentBind
    <3>2. p \notin Coming /\ stage'[p] \in {"up", "failed"}
      BY <1>2, <2>3 DEF AgentBind
    <3> QED BY <2>1, <2>3, <3>1, <3>2
  <2> QED BY <2>2, <2>3
<1>3. ASSUME NEW p \in Pid, AgentAborted(p) PROVE OursLater
  BY <1>3 DEF AgentAborted
<1>4. ASSUME NEW p \in Pid, AgentExit(p) PROVE OursLater
  BY <1>4 DEF AgentExit, clearStalePath
<1>5. ASSUME NEW p \in Pid, AgentCrash(p) PROVE OursLater
  BY <1>5 DEF AgentCrash, removeSocket
<1>6. ASSUME NEW p \in Pid, Stall(p) \/ Resume(p) PROVE OursLater
  BY <1>6 DEF Stall, Resume
<1> QED BY <1>1, <1>2, <1>3, <1>4, <1>5, <1>6 DEF WorldNext

\* Before the first login nobody is between lock and unlock.
LEMMA TurnsInit == ASSUME Init PROVE TurnsInv
<1>1. Coming = {}
  BY DEF Init, Coming
<1> QED BY <1>1 DEF Init, TurnsInv, WayIsClear, Turn, Critical

\* Nobody acts but agents and other programs.
LEMMA TurnsWorldStep ==
    ASSUME OneSocket, TypeInv, GroundInv, WayIsClear, \A l \in Login : Turn(l),
           WorldNext, UNCHANGED <<login, shared>>, [Next]_vars
    PROVE  WayIsClear' /\ \A l \in Login : Turn(l)'
<1>1. OursLater
  BY WorldAtOurs
<1> USE DEF OursLater
<1>2. WayIsClear'
  BY <1>1 DEF WayIsClear
<1>3. ASSUME NEW l \in Login PROVE Turn(l)'
  <2>1. UNCHANGED <<pc[l], todo[l], victim[l], started[l], outcome[l], holder[ours], tmp[ours]>>
    BY DEF login, shared
  <2>2. spent["io"] \in Nat /\ spent'["io"] \in Nat /\ spent'["io"] >= spent["io"]
    BY SpentGrows DEF TypeInv, FaultKind
  <2>3. \A p \in Coming' : stage'[p] = "starting"
    BY DEF Coming
  <2>4. CASE pc[l] = "await"
    <3>1. /\ Coming \subseteq {started[l]} /\ started[l] \in Pid
          /\ stage[started[l]] \in {"starting", "up", "gone"}
          /\ stage[started[l]] = "starting" => started[l] \in Coming
      BY <2>4 DEF Turn
    <3>2. CASE stage[started[l]] = "starting"
      <4>1. started[l] \in Coming /\ stage'[started[l]] \in {"starting", "up"}
        BY <1>1, <3>1, <3>2
      <4>2. doomed' = doomed /\ sock'[started[l]] = sock[started[l]]
        BY <4>1 DEF WorldNext, ForeignStart, AgentBind, AgentAborted, AgentExit,
             AgentCrash, Stall, Resume, Coming, TypeInv, TypeOK, WorldTypeOK
      <4>3. stage'[started[l]] = "starting" => started[l] \in Coming'
        BY <3>1, <4>1, <4>2 DEF Coming
      <4> QED BY <1>1, <2>1, <2>2, <2>4, <3>1, <4>1, <4>3 DEF Turn
    <3>3. CASE stage[started[l]] # "starting"
      <4>1. stage'[started[l]] \in {"up", "gone"}
        BY <1>1, <3>1, <3>3
      <4> QED BY <1>1, <2>1, <2>2, <2>4, <3>1, <4>1 DEF Turn
    <3> QED BY <3>2, <3>3
  <2>5. CASE pc[l] # "await"
    BY <1>1, <2>1, <2>2, <2>5 DEF Turn
  <2> QED BY <2>4, <2>5
<1> QED BY <1>2, <1>3

(* A login without the lock touches nothing at the fixed socket, and takes *)
(* the lock from nobody.                                                   *)
LEMMA OutsideStep ==
    ASSUME OneSocket, TypeInv, NEW l \in Login,
           (LoginNext(l) /\ pc[l] \notin Critical) \/ LoginCrash(l)
    PROVE  /\ UNCHANGED <<stage, sock, mine, stalled, doomed, link, tmp>>
           /\ bound'[ours] = bound[ours]
           /\ LegacySock = NoPath => bound' = bound
           /\ \A m \in Login \ {l} : holder[ours] = m => holder'[ours] = m
<1> USE FixedOurs, PathAssumption, LegacyAssumption, LoginAssumption
    DEF TypeInv, TypeOK, WorldTypeOK, OneSocket, Goto, Return, Critical, PC
<1>1. CASE ShellInit(l)
  <2>1. bound'[ours] = bound[ours]
    BY <1>1 DEF ShellInit, CleanupLegacyAgentDir
  <2>2. LegacySock = NoPath => bound' = bound
    BY <1>1 DEF ShellInit, CleanupLegacyAgentDir
  <2> QED BY <1>1, <2>1, <2>2 DEF ShellInit, shared
<1>2. CASE pc[l] \notin Critical
             /\ (AcquireLock(l) \/ LockTimeout(l) \/ FastProbe(l) \/ Fail(l))
  BY <1>2 DEF AcquireLock, LockTimeout, FastProbe, Fail, world, shared
<1>3. CASE Unlock(l) \/ LoginCrash(l)
  BY <1>3 DEF Unlock, LoginCrash, Forget, world
<1>4. CASE LoginNext(l) /\ pc[l] \notin Critical
  <2>1. ShellInit(l) \/ AcquireLock(l) \/ LockTimeout(l) \/ FastProbe(l) \/ Fail(l) \/ Unlock(l)
    BY <1>4 DEF LoginNext, Recheck, ReapScan, ReapProbe, Terminate, Unlink,
         SurveyScan, SurveyProbe, ClearStalePath, StartProbe, StartUnlink, Spawn, Await,
         Record, RemoveTmp, Symlink, Rename
  <2> QED BY <1>1, <1>2, <1>3, <1>4, <2>1
<1> QED BY <1>3, <1>4

(* The steps of a login keep its own turn.                                 *)
LEMMA OwnTurn ==
    ASSUME OneSocket, TypeInv, GroundInv, WayIsClear, NEW l \in Login, Turn(l),
           [Next]_vars, LoginNext(l), spent'["lockTimeout"] = 0
    PROVE  Turn(l)' /\ WayIsClear'
<1>0. Fixed[l] = ours /\ ours \in Path /\ ours \in OurPath
  BY FixedOurs
<1>1. spent["io"] \in Nat /\ spent'["io"] \in Nat /\ spent'["io"] >= spent["io"]
  BY SpentGrows DEF TypeInv, FaultKind
<1>2. UNCHANGED <<stage, sock, doomed>> => Coming' = Coming
  BY DEF Coming
<1>3. Coming \subseteq Agents /\ Coming \subseteq Pid
  BY DEF Coming, Agents
<1> USE <1>0, <1>1, PathAssumption, PidAssumption
    DEF TypeInv, TypeOK, WorldTypeOK, Turn, WayIsClear, Goto, Return, Critical, PC, shared, world
<1>4. CASE ShellInit(l) \/ FastProbe(l) \/ Unlock(l)
  <2>0. pc[l] \notin Critical
    BY <1>4 DEF ShellInit, FastProbe, Unlock
  <2>1. UNCHANGED <<stage, sock, doomed, link>> /\ bound'[ours] = bound[ours]
    BY <1>4, <2>0, OutsideStep
  <2>2. pc'[l] \in {"probe", "lock", "unlock", "done"} /\ outcome'[l] \in {outcome[l], "healthy"}
    BY <1>4 DEF ShellInit, FastProbe, Unlock
  <2> QED BY <1>2, <2>1, <2>2
<1>5. CASE AcquireLock(l) \/ Recheck(l) \/ ReapScan(l)
  <2>1. UNCHANGED world /\ outcome'[l] \in {outcome[l], "healthy"}
    BY <1>5 DEF AcquireLock, Recheck, ReapScan
  <2>2. /\ pc'[l] \in {"recheck", "scan", "reap", "unlock"}
        /\ pc'[l] # "unlock" => holder'[ours] = l
        /\ pc'[l] = "reap" => todo'[l] = Agents
    BY <1>5 DEF AcquireLock, Recheck, ReapScan
  <2> QED BY <1>2, <1>3, <2>1, <2>2
<1>6. CASE LockTimeout(l)
  <2>1. spent'["lockTimeout"] > 0
    BY <1>6 DEF LockTimeout, Spend, FaultKind
  <2> QED BY <2>1
<1>7. CASE ReapProbe(l)
  <2>1. UNCHANGED <<world, shared, outcome>> /\ pc[l] = "reap"
    BY <1>7 DEF ReapProbe
  <2>2. PICK p \in todo[l] :
            /\ todo' = [todo EXCEPT ![l] = @ \ {p}]
            /\ IF sock[p] = NoPath \/ Reachable(sock[p]) \/ p \notin mine
                 THEN Goto(l, "reap", "reap") /\ UNCHANGED victim
                 ELSE Goto(l, "reap", "terminate") /\ victim' = [victim EXCEPT ![l] = p]
    BY <1>7 DEF ReapProbe
  <2>3. CASE p \in Coming
    <3>1. ~(sock[p] = NoPath \/ Reachable(sock[p]) \/ p \notin mine)
      BY <2>3, NothingThere DEF Coming, GroundInv, WorldGround
    <3>2. pc'[l] = "terminate" /\ victim'[l] = p /\ todo'[l] = todo[l] \ {p}
      BY <2>2, <3>1
    <3> QED BY <1>2, <2>1, <3>2
  <2>4. CASE p \notin Coming
    <3>1. pc'[l] \in {"reap", "terminate"} /\ todo'[l] = todo[l] \ {p}
      BY <2>2
    <3> QED BY <1>2, <2>1, <2>4, <3>1
  <2> QED BY <2>3, <2>4
<1>8. CASE Terminate(l)
  <2>1. /\ UNCHANGED <<stage, sock, bound, link, holder, tmp, outcome, spent, todo, victim>>
        /\ pc[l] = "terminate" /\ pc'[l] = "unlink"
        /\ doomed' = IF victim[l] \in Agents THEN doomed \cup {victim[l]} ELSE doomed
    BY <1>8 DEF Terminate
  <2>2. Coming' = Coming \ {victim[l]}
    BY <1>3, <2>1 DEF Coming
  <2> QED BY <2>1, <2>2
<1>9. CASE Unlink(l)
  <2>1. /\ UNCHANGED <<stage, sock, doomed, link, holder, tmp, outcome, spent, todo>>
        /\ pc[l] = "unlink" /\ pc'[l] = "reap"
        /\ bound' = [bound EXCEPT ![sock[victim[l]]] = NoPid]
    BY <1>9 DEF Unlink, removeSocket
  <2> QED BY <1>2, <2>1
<1>10. CASE SurveyScan(l) \/ SurveyProbe(l) \/ RemoveTmp(l)
  <2>1. UNCHANGED <<world, holder, outcome>> /\ pc[l] \in {"reap", "survey"}
        /\ (pc[l] = "reap" => todo[l] = {})
        /\ pc'[l] \in {"survey", "symlink"}
        /\ (pc'[l] = "symlink" => tmp'[ours] = NoPath)
    BY <1>10 DEF SurveyScan, SurveyProbe, RemoveTmp
  <2> QED BY <1>2, <2>1
<1>11. CASE ClearStalePath(l) \/ StartProbe(l) \/ StartUnlink(l)
  <2>1. UNCHANGED <<stage, sock, doomed, holder, tmp, outcome, spent>>
        /\ pc[l] \in {"survey", "startprobe", "startunlink"}
        /\ pc'[l] \in {"startprobe", "startunlink", "spawn"}
    BY <1>11 DEF ClearStalePath, StartProbe, StartUnlink
  <2>2. bound'[ours] = NoPid /\ link'[ours] = NoPath
    BY <1>11 DEF ClearStalePath, clearStalePath, StartProbe, StartUnlink, removeSocket
  <2> QED BY <1>2, <2>1, <2>2
<1>12. CASE Spawn(l)
  <2>1. PICK p \in Pid :
        /\ stage[p] = "unborn"
        /\ stage' = [stage EXCEPT ![p] = "starting"]
        /\ sock' = [sock EXCEPT ![p] = ours]
        /\ started' = [started EXCEPT ![l] = p]
    BY <1>12 DEF Spawn
  <2>2. UNCHANGED <<doomed, bound, link, holder, tmp, outcome, spent>>
        /\ pc[l] = "spawn" /\ pc'[l] = "await"
    BY <1>12 DEF Spawn
  <2>3. Coming' \subseteq {p}
    <3>1. Coming = {}
      BY <2>2
    <3> QED BY <2>1, <2>2, <3>1 DEF Coming
  <2>4. p \notin doomed
    BY <2>1 DEF GroundInv, WorldGround
  <2>5. p \in Coming'
    BY <2>1, <2>2, <2>4 DEF Coming
  <2>6. started'[l] = p /\ stage'[p] = "starting"
    BY <2>1
  <2> QED BY <2>2, <2>3, <2>5, <2>6
<1>13. CASE Await(l) \/ Record(l)
  <2>1. UNCHANGED <<world, shared>> /\ pc[l] \in {"await", "record"}
        /\ pc'[l] \in {"record", "unlock"}
    BY <1>13 DEF Await, Record
  <2>2. outcome'[l] \in {outcome[l], "zombie", "clean"}
    BY <1>13 DEF Await, Record
  <2> QED BY <1>2, <2>1, <2>2
<1>14. CASE Symlink(l)
  <2>1. sock[Min(foreign[l])] \in Path
    BY <1>14, LowestPid DEF Symlink, CallOK, GroundInv, CallGround
  <2>2. UNCHANGED <<world, holder, outcome>> /\ pc[l] = "symlink" /\ pc'[l] = "rename"
        /\ tmp'[ours] = sock[Min(foreign[l])]
    BY <1>14 DEF Symlink
  <2> QED BY <1>2, <2>1, <2>2
<1>15. CASE Rename(l)
  <2>1. pc[l] = "rename" /\ pc'[l] = "unlock" /\ outcome'[l] \in {"disaster", "foreign"}
    BY <1>15 DEF Rename
  <2>2. UNCHANGED <<stage, sock, doomed>>
    BY <1>15 DEF Rename
  <2> QED BY <1>2, <2>1, <2>2
<1>16. CASE Fail(l)
  <2>1. UNCHANGED <<stage, sock, doomed, bound, link>> /\ pc'[l] = "unlock"
    BY <1>16 DEF Fail
  <2>2. spent'["io"] > 0
    BY <1>16 DEF Fail, Spend, FaultKind
  <2> QED BY <1>2, <2>1, <2>2
<1> QED BY <1>4, <1>5, <1>6, <1>7, <1>8, <1>9, <1>10, <1>11, <1>12, <1>13, <1>14, <1>15,
           <1>16 DEF LoginNext

(* Nor do they end the turn of another login.                              *)
LEMMA OthersTurn ==
    ASSUME OneSocket, TypeInv, WayIsClear, \A m \in Login : Turn(m), NEW l \in Login,
           [Next]_vars, LoginNext(l) \/ LoginCrash(l), NEW m \in Login, m # l
    PROVE  Turn(m)'
<1>1. Call(m)' = Call(m) /\ started'[m] = started[m] /\ outcome'[m] = outcome[m]
  BY OthersUntouched, OthersKeep DEF TypeInv
<1>2. spent["io"] \in Nat /\ spent'["io"] \in Nat /\ spent'["io"] >= spent["io"]
  BY SpentGrows DEF TypeInv, FaultKind
<1>3. CASE pc[m] \in Critical
  <2>1. pc[l] \notin Critical
    BY <1>3 DEF Turn
  <2>2. /\ UNCHANGED <<stage, sock, doomed, link, tmp>>
        /\ bound'[ours] = bound[ours] /\ holder'[ours] = m
    BY <1>3, <2>1, OutsideStep DEF Turn
  <2>3. Coming' = Coming
    BY <2>2 DEF Coming
  <2> QED BY <1>1, <1>2, <2>2, <2>3 DEF Turn, Call
<1>4. CASE pc[m] \notin Critical
  BY <1>1, <1>2, <1>4 DEF Turn, Call, Critical, PC
<1> QED BY <1>3, <1>4

\* Every step of every login and every fault keeps the turns.
LEMMA TurnsStep ==
    ASSUME OneSocket, TypeInv, GroundInv, TurnsInv, [Next]_vars PROVE TurnsInv'
<1>0. SUFFICES ASSUME spent'["lockTimeout"] = 0
               PROVE  WayIsClear' /\ \A l \in Login : Turn(l)'
  BY DEF TurnsInv
<1>1. WayIsClear /\ \A l \in Login : Turn(l)
  <2>1. /\ spent["lockTimeout"] \in Nat /\ spent'["lockTimeout"] \in Nat
        /\ spent'["lockTimeout"] >= spent["lockTimeout"]
    BY SpentGrows DEF TypeInv, FaultKind
  <2>2. spent["lockTimeout"] = 0
    BY <1>0, <2>1
  <2> QED BY <2>2 DEF TurnsInv
<1>2. CASE UNCHANGED vars
  BY <1>1, <1>2 DEF vars, world, login, shared, WayIsClear, Turn, Coming
<1>3. CASE WorldNext /\ UNCHANGED <<login, shared>>
  BY <1>1, <1>3, TurnsWorldStep
<1>4. ASSUME NEW l \in Login, LoginNext(l) PROVE WayIsClear' /\ \A m \in Login : Turn(m)'
  BY <1>0, <1>1, <1>4, OwnTurn, OthersTurn
<1>5. ASSUME NEW l \in Login, LoginCrash(l) PROVE WayIsClear' /\ \A m \in Login : Turn(m)'
  <2>1. UNCHANGED <<stage, sock, doomed, link, outcome>> /\ bound'[ours] = bound[ours]
    BY <1>5, OutsideStep DEF LoginCrash
  <2>2. WayIsClear'
    BY <1>1, <2>1 DEF WayIsClear, Coming
  <2>3. Turn(l)'
    <3>1. pc'[l] = "crashed"
      BY <1>5 DEF LoginCrash, TypeInv, TypeOK
    <3>2. spent["io"] \in Nat /\ spent'["io"] \in Nat /\ spent'["io"] >= spent["io"]
      BY SpentGrows DEF TypeInv, FaultKind
    <3> QED BY <1>1, <2>1, <3>1, <3>2 DEF Turn, Critical
  <2> QED BY <1>1, <1>5, <2>2, <2>3, OthersTurn
<1> QED BY <1>2, <1>3, <1>4, <1>5 DEF Next, Environment, Step

\* Types, the ground and the turns, in every behaviour.
LEMMA TurnsAlways == ASSUME OneSocket PROVE Spec => [](TypeInv /\ GroundInv /\ TurnsInv)
<1>1. Init => TypeInv /\ GroundInv /\ TurnsInv
  BY TypeInvInit, GroundInit, TurnsInit
<1>2. TypeInv /\ GroundInv /\ TurnsInv /\ [Next]_vars => (TypeInv /\ GroundInv /\ TurnsInv)'
  BY TypeInvStep, GroundStep, TurnsStep
<1> QED BY <1>1, <1>2, PTL DEF Spec

(* No login beside one fixed socket fails on what earlier sessions, killed *)
(* logins, stalled agents or other programs left there, or do to it in the *)
(* meantime: EnsureAgent returns an error only when a system call fails    *)
(* under it or the lock has been given up.                                 *)
THEOREM LoginsDoNotFail == OneSocket => (Spec => []NoSpuriousError)
<1>1. TypeInv /\ TurnsInv => NoSpuriousError
  <2> SUFFICES ASSUME TypeInv, TurnsInv, NEW l \in Login, outcome[l] = "error"
               PROVE  spent["io"] + spent["lockTimeout"] > 0
    BY DEF NoSpuriousError
  <2>1. spent["io"] \in Nat /\ spent["lockTimeout"] \in Nat
    BY DEF TypeInv, TypeOK, WorldTypeOK, FaultKind
  <2>2. spent["lockTimeout"] = 0 => spent["io"] > 0
    BY DEF TurnsInv, Turn
  <2> QED BY <2>1, <2>2
<1>2. ASSUME OneSocket PROVE Spec => []NoSpuriousError
  BY <1>1, <1>2, TurnsAlways, PTL
<1> QED BY <1>2

(***************************************************************************)
(* The orderly machine.                                                    *)
(***************************************************************************)

\* No fault has struck but the death of an agent or a failing system call.
Calm == \A k \in {"lockTimeout", "loginCrash", "stall", "foreign", "lateExit"} : spent[k] = 0

(* The agent p is behind the fixed socket, bound there or linked to.       *)
AtOurs(p) == bound[ours] = p \/ (link[ours] # NoPath /\ bound[link[ours]] = p)

Unserved == \A p \in Pid : ~(Answers(p) /\ AtOurs(p))

\* The agents on the fixed socket that nobody has told to end.
Current == { p \in Agents \ doomed : sock[p] = ours }

\* From the re-check that found nobody to the step that changes that.
Silent == {"scan", "reap", "terminate", "unlink", "survey", "startprobe", "startunlink",
           "spawn", "symlink", "rename"}

(* What a login has read of the fixed socket stays true while it holds the *)
(* lock: nobody answers there, every current agent of the socket is still  *)
(* to be reaped, and the agent it started is the one that binds.           *)
Order(l) ==
    /\ pc[l] \in Silent => Unserved
    /\ pc[l] \in {"reap", "unlink"} => Current \subseteq todo[l]
    /\ pc[l] = "terminate" => Current \subseteq todo[l] \cup {victim[l]}
    /\ pc[l] \in {"survey", "startprobe", "startunlink", "spawn"} => Current = {}
    /\ pc[l] \in {"terminate", "unlink"} =>
         \A p \in Pid : Answers(p) => bound[sock[victim[l]]] # p
    /\ pc[l] \in {"await", "record"} =>
         /\ started[l] \in Pid \ doomed
         /\ sock[started[l]] = ours
         /\ stage[started[l]] \in {"starting", "up", "gone"}
         /\ pc[l] = "record" => stage[started[l]] # "starting"
         /\ stage[started[l]] = "up" => bound[ours] = started[l]
         /\ stage[started[l]] = "gone" => spent["agentCrash"] > 0
    /\ pc[l] = "rename" => tmp[ours] \in {sock[p] : p \in foreign[l]}

(* Whoever is coming is awaited, and an agent told to end serves nobody.   *)
OrderlyWorld ==
    /\ stalled = {}
    /\ \A p \in Pid : stage[p] = "starting" =>
           \E l \in Login : pc[l] = "await" /\ started[l] = p
    /\ \A p \in doomed : sock[p] \in Path /\ (stage[p] = "up" => bound[sock[p]] # p)

OrderlyInv == Calm => OrderlyWorld /\ \A l \in Login : Order(l)

(* A trail has one step at most: only the fixed path is ever a symlink,    *)
(* and it never leads to itself.                                           *)
LEMMA ShortTrails ==
    ASSUME OneSocket, TypeInv, GroundInv, NEW p \in Pid
    PROVE  /\ Serves(ours, p) <=> Answers(p) /\ AtOurs(p)
           /\ \A q \in Path \ {ours} : Serves(q, p) <=> Answers(p) /\ bound[q] = p
<1> USE FixedOurs, PathAssumption DEF GroundInv, WorldGround, TypeInv, TypeOK, WorldTypeOK
<1>1. \A q \in Path : q \in Trail(q)
  BY DEF Trail
<1>2. ASSUME NEW q \in Path \ {ours} PROVE Trail(q) = {q}
  <2>1. link[q] = NoPath
    OBVIOUS
  <2>2. Trail(q) \subseteq {q}
    <3>1. \A y \in {q} : link[y] # NoPath => link[y] \in {q}
      BY <2>1
    <3>2. {q} \in SUBSET Path /\ q \in {q}
      OBVIOUS
    <3> QED BY <3>1, <3>2 DEF Trail
  <2> QED BY <1>1, <2>2
<1>3. link[ours] # NoPath => link[ours] \in Trail(ours)
  BY DEF Trail
<1>4. Trail(ours) \subseteq {ours, link[ours]}
  <2> DEFINE S == {ours, link[ours]} \cap Path
  <2>1. S \in SUBSET Path /\ ours \in S
    OBVIOUS
  <2>2. \A y \in S : link[y] # NoPath => link[y] \in S
    OBVIOUS
  <2>3. Trail(ours) \subseteq S
    <3> HIDE DEF S
    <3> QED BY <2>1, <2>2 DEF Trail
  <2> QED BY <2>3
<1>5. Trail(ours) \subseteq Path
  BY DEF Trail
<1>6. Serves(ours, p) <=> Answers(p) /\ AtOurs(p)
  BY <1>1, <1>3, <1>4, <1>5 DEF Serves, AtOurs
<1>7. \A q \in Path \ {ours} : Serves(q, p) <=> Answers(p) /\ bound[q] = p
  BY <1>2 DEF Serves
<1> QED BY <1>6, <1>7

\* The probe of the fixed socket finds whoever answers behind it.
LEMMA ReachableOurs ==
    ASSUME OneSocket, TypeInv, GroundInv PROVE Reachable(ours) <=> ~Unserved
  BY ShortTrails DEF Reachable, Unserved

(* A path that does not answer holds the socket of no agent that does.     *)
LEMMA SilentPath ==
    ASSUME NEW q \in Path, ~Reachable(q), NEW p \in Pid, Answers(p)
    PROVE  bound[q] # p
<1>1. q \in Trail(q)
  BY DEF Trail
<1> QED BY <1>1 DEF Reachable, Serves

(* The calm is over at the first fault that ends it.                       *)
LEMMA CalmBefore ==
    ASSUME TypeInv, [Next]_vars, Calm' PROVE Calm
<1>1. \A k \in FaultKind : spent[k] \in Nat /\ spent'[k] \in Nat /\ spent'[k] >= spent[k]
  BY SpentGrows DEF TypeInv
<1> QED BY <1>1 DEF Calm, FaultKind

(* What is left for agents to do while it is calm: the one that is coming  *)
(* binds the fixed socket, one that was told to end does, one dies.        *)
Rises(p) ==
    /\ stage[p] = "starting" /\ sock[p] = ours
    /\ bound[ours] = NoPid /\ link[ours] = NoPath
    /\ stage' = [stage EXCEPT ![p] = "up"]
    /\ bound' = [bound EXCEPT ![ours] = p]
    /\ UNCHANGED spent

Ends(p) ==
    /\ stage[p] = "up" /\ p \in doomed
    /\ stage' = [stage EXCEPT ![p] = "gone"]
    /\ UNCHANGED <<bound, spent>>

Dies(p) ==
    /\ AgentCrash(p)
    /\ stage[p] = "up"
    /\ stage' = [stage EXCEPT ![p] = "gone"]
    /\ bound' \in {bound, [q \in Path |-> IF bound[q] = p THEN NoPid ELSE bound[q]]}
    /\ spent'["agentCrash"] > 0

CalmWorldStep ==
    /\ UNCHANGED <<sock, mine, stalled, doomed, link>>
    /\ \E p \in Pid : Rises(p) \/ Ends(p) \/ Dies(p)

(* It does nothing else.                                                   *)
LEMMA CalmWorld ==
    ASSUME OneSocket, TypeInv, GroundInv, TurnsInv, OrderlyInv, [Next]_vars, WorldNext, Calm'
    PROVE  CalmWorldStep
<1>1. Calm /\ OrderlyWorld /\ \A l \in Login : Order(l)
  BY CalmBefore DEF OrderlyInv
<1>2. WayIsClear /\ \A l \in Login : Turn(l)
  BY <1>1 DEF TurnsInv, Calm
<1>3. \A k \in {"lockTimeout", "loginCrash", "stall", "foreign", "lateExit"} : ~Spend(k)
  <2> TAKE k \in {"lockTimeout", "loginCrash", "stall", "foreign", "lateExit"}
  <2>1. spent[k] = 0 /\ spent'[k] = 0 /\ k \in FaultKind
    BY <1>1 DEF Calm, FaultKind
  <2> QED BY <2>1 DEF Spend, TypeInv, TypeOK, WorldTypeOK
<1> USE FixedOurs, PathAssumption, PidAssumption, <1>1
    DEF GroundInv, WorldGround, TypeInv, TypeOK, WorldTypeOK, OrderlyWorld, CalmWorldStep
<1>4. ~ForeignStart
  BY <1>3 DEF ForeignStart
<1>5. ASSUME NEW p \in Pid, stage[p] = "starting"
      PROVE  p \in Coming /\ p \notin doomed /\ sock[p] = ours /\ bound[ours] = NoPid /\ link[ours] = NoPath
  <2>1. PICK l \in Login : pc[l] = "await" /\ started[l] = p
    BY <1>5
  <2>2. p \notin doomed /\ sock[p] = ours
    BY <2>1 DEF Order
  <2>3. p \in Coming
    BY <1>5, <2>2 DEF Coming
  <2> QED BY <1>2, <2>2, <2>3 DEF WayIsClear
<1>6. ASSUME NEW p \in Pid, AgentBind(p) PROVE CalmWorldStep
  <2>1. Rises(p)
    BY <1>5, <1>6 DEF AgentBind, Rises
  <2> QED BY <1>6, <2>1 DEF AgentBind
<1>7. ASSUME NEW p \in Pid PROVE ~AgentAborted(p)
  BY <1>5 DEF AgentAborted
<1>8. ASSUME NEW p \in Pid, AgentExit(p) PROVE CalmWorldStep
  <2>1. stage[p] = "up" /\ p \in doomed /\ bound[sock[p]] # p
    BY <1>8 DEF AgentExit
  <2>2. ~Spend("lateExit")
    BY <1>3
  <2>3. UNCHANGED <<link, spent>>
    BY <1>8, <2>2 DEF AgentExit
  <2>4. UNCHANGED bound
    <3>1. CASE sock[p] \in Path /\ (bound[sock[p]] \notin {p, NoPid} \/ link[sock[p]] # NoPath)
      BY <1>8, <2>2, <3>1 DEF AgentExit
    <3>2. CASE ~(sock[p] \in Path /\ (bound[sock[p]] \notin {p, NoPid} \/ link[sock[p]] # NoPath))
      <4>1. bound' = [q \in Path |-> IF q = sock[p] THEN NoPid ELSE bound[q]]
        BY <1>8, <3>2 DEF AgentExit
      <4>2. sock[p] \in Path => bound[sock[p]] = NoPid
        BY <2>1, <3>2
      <4> QED BY <4>1, <4>2
    <3> QED BY <3>1, <3>2
  <2>5. Ends(p)
    BY <1>8, <2>1, <2>3, <2>4 DEF AgentExit, Ends
  <2> QED BY <1>8, <2>3, <2>5 DEF AgentExit
<1>9. ASSUME NEW p \in Pid, AgentCrash(p) PROVE CalmWorldStep
  <2>1. stage[p] = "up" /\ stage' = [stage EXCEPT ![p] = "gone"]
        /\ UNCHANGED <<sock, mine, stalled, doomed, link>>
    BY <1>9 DEF AgentCrash
  <2>2. spent'["agentCrash"] > 0
    BY <1>9 DEF AgentCrash, Spend, FaultKind
  <2>3. bound' \in {bound, [q \in Path |-> IF bound[q] = p THEN NoPid ELSE bound[q]]}
    <3>1. CASE p \in HealthyAgents /\ bound' = [bound EXCEPT ![sock[p]] = NoPid]
      <4>1. sock[p] \in Path /\ bound[sock[p]] = p
        BY <3>1 DEF HealthyAgents
      <4>2. \A q \in Path : bound[q] = p <=> q = sock[p]
        BY <4>1
      <4>3. bound' = [q \in Path |-> IF q = sock[p] THEN NoPid ELSE bound[q]]
        BY <3>1, <4>1
      <4>4. bound' = [q \in Path |-> IF bound[q] = p THEN NoPid ELSE bound[q]]
        BY <4>2, <4>3
      <4> QED BY <4>4
    <3> QED BY <1>9, <3>1 DEF AgentCrash, removeSocket
  <2>4. Dies(p)
    BY <1>9, <2>1, <2>2, <2>3 DEF Dies
  <2> QED BY <2>1, <2>4
<1>10. ASSUME NEW p \in Pid PROVE ~Stall(p) /\ ~Resume(p)
  BY <1>3 DEF Stall, Resume
<1> HIDE DEF CalmWorldStep
<1> QED BY <1>4, <1>6, <1>7, <1>8, <1>9, <1>10 DEF WorldNext

(* A step of a login binds nothing, and starts no agent that answers yet.  *)
LEMMA LoginFrame ==
    ASSUME OneSocket, TypeInv, GroundInv, NEW l \in Login, LoginNext(l) \/ LoginCrash(l)
    PROVE  /\ \A q \in Path : bound'[q] \in {bound[q], NoPid}
           /\ UNCHANGED stalled
           /\ \A p \in Pid : Answers(p)' <=> Answers(p)
           /\ \A p \in Pid : stage'[p] # stage[p] =>
                 stage[p] = "unborn" /\ stage'[p] = "starting" /\ Spawn(l)
<1> USE FixedOurs DEF TypeInv, TypeOK, WorldTypeOK, GroundInv, WorldGround
<1>1. CASE Spawn(l)
  <2>1. UNCHANGED <<bound, stalled>>
    BY <1>1 DEF Spawn
  <2>2. PICK p \in Pid :
          /\ stage[p] = "unborn" /\ stage' = [stage EXCEPT ![p] = "starting"]
          /\ mine' = mine \cup {p}
    BY <1>1 DEF Spawn
  <2> QED BY <1>1, <2>1, <2>2 DEF Answers
<1>2. CASE ~Spawn(l)
  <2>1. UNCHANGED <<stage, mine, stalled>>
    BY <1>2 DEF LoginCrash, LoginNext, ShellInit, FastProbe,
         AcquireLock, LockTimeout, Recheck, ReapScan, ReapProbe, Terminate, Unlink,
         SurveyScan, SurveyProbe, ClearStalePath, StartProbe, StartUnlink, Await,
         Record, RemoveTmp, Symlink, Rename, Unlock, Fail, world
  <2>2. \A q \in Path : bound'[q] \in {bound[q], NoPid}
    BY <1>2 DEF LoginCrash, LoginNext, ShellInit, FastProbe,
         AcquireLock, LockTimeout, Recheck, ReapScan, ReapProbe, Terminate, Unlink,
         SurveyScan, SurveyProbe, ClearStalePath, StartProbe, StartUnlink, Await,
         Record, RemoveTmp, Symlink, Rename, Unlock, Fail, world, removeSocket,
         clearStalePath, CleanupLegacyAgentDir
  <2> QED BY <2>1, <2>2 DEF Answers
<1> QED BY <1>1, <1>2

\* Before the first login nobody has read anything.
LEMMA OrderlyInit == ASSUME Init PROVE OrderlyInv
<1>1. OrderlyWorld
  BY DEF Init, OrderlyWorld
<1>2. \A l \in Login : Order(l)
  BY DEF Init, Order, Silent
<1> QED BY <1>1, <1>2 DEF OrderlyInv

(* While a login is at work with the lock, and not awaiting its own agent, *)
(* nobody is coming.                                                       *)
LEMMA NobodyComes ==
    ASSUME OneSocket, TypeInv, OrderlyWorld, \A m \in Login : Turn(m),
           NEW l \in Login, pc[l] \in Critical \ {"await"}, NEW p \in Pid
    PROVE  stage[p] # "starting"
<1>1. SUFFICES ASSUME stage[p] = "starting" PROVE FALSE
  OBVIOUS
<1>2. PICK m \in Login : pc[m] = "await" /\ started[m] = p
  BY <1>1 DEF OrderlyWorld
<1>3. holder[ours] = m /\ holder[ours] = l
  BY <1>2 DEF Turn, Critical, PC
<1> QED BY <1>2, <1>3

\* Nobody acts but agents.
LEMMA OrderlyWorldStep ==
    ASSUME OneSocket, TypeInv, GroundInv, TurnsInv, Calm, OrderlyWorld,
           \A l \in Login : Order(l), [Next]_vars, CalmWorldStep, UNCHANGED <<login, shared>>
    PROVE  OrderlyWorld' /\ \A l \in Login : Order(l)'
<1>0. WayIsClear /\ \A l \in Login : Turn(l)
  BY DEF TurnsInv, Calm
<1>1. PICK p \in Pid : Rises(p) \/ Ends(p) \/ Dies(p)
  BY DEF CalmWorldStep
<1> USE FixedOurs, PidAssumption DEF TypeInv, TypeOK, WorldTypeOK, CalmWorldStep
<1>2. \A q \in Path : bound'[q] \in {bound[q], NoPid} \/ (Rises(p) /\ q = ours /\ bound'[q] = p)
  <2>1. CASE Rises(p)
    BY <2>1 DEF Rises
  <2>2. CASE Ends(p)
    BY <2>2 DEF Ends
  <2>3. CASE Dies(p)
    BY <2>3 DEF Dies
  <2> QED BY <1>1, <2>1, <2>2, <2>3
<1>3. /\ stage'[p] \in {"up", "gone"} /\ stage[p] \in {"starting", "up"}
      /\ \A r \in Pid \ {p} : stage'[r] = stage[r]
      /\ stage'[p] = "up" => Rises(p)
  BY <1>1 DEF Rises, Ends, Dies
<1>4. \A r \in Pid : Answers(r)' => Answers(r) \/ Rises(p)
  BY <1>3 DEF Answers
<1>5. OrderlyWorld'
  <2>1. \A r \in Pid : stage'[r] = "starting" =>
           \E l \in Login : pc'[l] = "await" /\ started'[l] = r
    BY <1>3 DEF OrderlyWorld, login
  <2>2. ASSUME NEW r \in doomed, stage'[r] = "up" PROVE bound'[sock[r]] # r
    <3>1. CASE r = p
      <4>1. stage[p] = "starting"
        BY <1>3, <2>2, <3>1 DEF Rises
      <4>2. p \notin doomed
        BY <4>1 DEF OrderlyWorld, Order
      <4> QED BY <2>2, <3>1, <4>2
    <3>2. CASE r # p
      <4>1. r \in Pid /\ stage[r] = "up" /\ bound[sock[r]] # r /\ sock[r] \in Path
        BY <1>3, <2>2, <3>2 DEF OrderlyWorld
      <4> QED BY <1>2, <3>2, <4>1
    <3> QED BY <3>1, <3>2
  <2> QED BY <2>1, <2>2 DEF OrderlyWorld
<1>6. ASSUME NEW l \in Login PROVE Order(l)'
  <2>1. UNCHANGED <<pc, todo, victim, started, foreign, tmp>>
    BY DEF login, shared
  <2>2. spent["agentCrash"] \in Nat /\ spent'["agentCrash"] \in Nat
        /\ spent'["agentCrash"] >= spent["agentCrash"]
    BY SpentGrows DEF FaultKind
  <2>3. CASE pc[l] \in {"await", "record"}
    <3>1. /\ started[l] \in Pid \ doomed /\ sock[started[l]] = ours
          /\ stage[started[l]] \in {"starting", "up", "gone"}
          /\ pc[l] = "record" => stage[started[l]] # "starting"
          /\ stage[started[l]] = "up" => bound[ours] = started[l]
          /\ stage[started[l]] = "gone" => spent["agentCrash"] > 0
      BY <2>3 DEF Order
    <3>2. CASE started[l] # p
      <4>1. stage'[started[l]] = stage[started[l]]
        BY <1>3, <3>1, <3>2
      <4>2. stage[started[l]] = "up" => bound'[ours] = started[l]
        <5>1. CASE Rises(p)
          BY <3>1, <5>1 DEF Rises
        <5>2. CASE Ends(p)
          BY <3>1, <5>2 DEF Ends
        <5>3. CASE Dies(p)
          BY <3>1, <3>2, <5>3 DEF Dies
        <5> QED BY <1>1, <5>1, <5>2, <5>3
      <4> QED BY <2>1, <2>2, <2>3, <3>1, <4>1, <4>2 DEF Order, Silent
    <3>3. CASE started[l] = p
      <4>1. stage'[p] = "up" => bound'[ours] = p
        BY <1>3 DEF Rises
      <4>2. stage'[p] = "gone" => spent'["agentCrash"] > 0
        BY <1>1, <3>1, <3>3 DEF Rises, Ends, Dies
      <4> QED BY <1>3, <2>1, <2>3, <3>1, <3>3, <4>1, <4>2 DEF Order, Silent
    <3> QED BY <3>2, <3>3
  <2>4. CASE pc[l] \in Silent
    <3>1. ~Rises(p)
      BY <1>0, <2>4, NobodyComes DEF Rises, Silent, Critical, PC
    <3>2. Current' \subseteq Current
      BY <1>3 DEF Current, Agents
    <3>3. Unserved'
      <4>1. Unserved
        BY <2>4 DEF Order
      <4>2. \A q \in Path : bound'[q] \in {bound[q], NoPid}
        BY <1>2, <3>1
      <4>3. link[ours] # NoPath => link[ours] \in Path
        OBVIOUS
      <4> QED BY <1>4, <3>1, <4>1, <4>2, <4>3 DEF Unserved, AtOurs
    <3>4. pc[l] \in {"terminate", "unlink"} =>
             \A r \in Pid : Answers(r)' => bound'[sock'[victim'[l]]] # r
      <4> SUFFICES ASSUME pc[l] \in {"terminate", "unlink"}, NEW r \in Pid, Answers(r)'
                   PROVE  bound'[sock[victim[l]]] # r
        BY <2>1
      <4>1. Answers(r) /\ bound[sock[victim[l]]] # r
        BY <1>4, <3>1 DEF Order
      <4>2. sock[victim[l]] \in Path
        BY DEF CallOK
      <4> QED BY <1>2, <3>1, <4>1, <4>2
    <3> QED BY <2>1, <2>4, <3>2, <3>3, <3>4 DEF Order, Silent
  <2>5. CASE pc[l] \notin Silent \cup {"await", "record"}
    BY <2>1, <2>5 DEF Order, Silent
  <2> QED BY <2>3, <2>4, <2>5
<1> QED BY <1>5, <1>6

(* The steps of a login that change neither the world nor who is due.      *)
LEMMA QuietStep ==
    ASSUME TypeInv, NEW l \in Login, Order(l), UNCHANGED <<stage, sock, mine, stalled, doomed>>,
           \A q \in Path : bound'[q] \in {bound[q], NoPid}, link'[ours] \in {link[ours], NoPath},
           Fixed[l] = ours, ours \in Path
    PROVE  /\ Unserved => Unserved'
           /\ Current' = Current
           /\ \A q \in Path, p \in Pid : bound[q] # p => bound'[q] # p
           /\ \A p \in Pid : Answers(p)' <=> Answers(p)
<1> USE PidAssumption, PathAssumption DEF TypeInv, TypeOK, WorldTypeOK
<1>1. \A p \in Pid : Answers(p)' <=> Answers(p)
  BY DEF Answers
<1>2. \A q \in Path, p \in Pid : bound[q] # p => bound'[q] # p
  OBVIOUS
<1>3. Unserved => Unserved'
  <2>1. link[ours] # NoPath => link[ours] \in Path
    OBVIOUS
  <2> QED BY <1>1, <1>2, <2>1 DEF Unserved, AtOurs
<1> QED BY <1>1, <1>2, <1>3 DEF Current, Agents

(* A login's own steps keep the order of its turn.                         *)
LEMMA OwnOrder ==
    ASSUME OneSocket, TypeInv, GroundInv, OrderlyWorld, NEW l \in Login, Order(l), Turn(l),
           [Next]_vars, LoginNext(l), Calm'
    PROVE  Order(l)'
<1>0. Fixed[l] = ours /\ ours \in Path /\ ours \in OurPath
  BY FixedOurs
<1>1. \A q \in Path : bound'[q] \in {bound[q], NoPid}
  BY LoginFrame
<1>2. spent["agentCrash"] \in Nat /\ spent'["agentCrash"] \in Nat
      /\ spent'["agentCrash"] >= spent["agentCrash"]
  BY SpentGrows DEF FaultKind, TypeInv
<1> DEFINE Quiet == /\ UNCHANGED <<stage, sock, mine, stalled, doomed>>
                    /\ link'[ours] \in {link[ours], NoPath}
<1>3. Quiet => /\ Unserved => Unserved'
               /\ Current' = Current
               /\ \A q \in Path, p \in Pid : bound[q] # p => bound'[q] # p
               /\ \A p \in Pid : Answers(p)' <=> Answers(p)
  BY <1>0, <1>1, QuietStep
<1> USE <1>0, PathAssumption, PidAssumption
    DEF TypeInv, TypeOK, WorldTypeOK, Order, Silent, Goto, Return, PC, shared
<1>4. CASE ShellInit(l) \/ FastProbe(l) \/ AcquireLock(l) \/ LockTimeout(l) \/ Unlock(l)
           \/ Record(l) \/ Fail(l) \/ Rename(l)
  BY <1>4 DEF ShellInit, FastProbe, AcquireLock, LockTimeout, Unlock, Record, Fail, Rename
<1>5. CASE Recheck(l)
  <2>1. UNCHANGED world /\ pc'[l] \in {"scan", "unlock"}
        /\ (pc'[l] = "scan" => ~Reachable(ours))
    BY <1>5 DEF Recheck
  <2>2. pc'[l] = "scan" => Unserved'
    BY <1>3, <2>1, ReachableOurs DEF world
  <2> QED BY <2>1, <2>2
<1>6. CASE ReapScan(l)
  <2>1. UNCHANGED world /\ pc[l] = "scan" /\ pc'[l] = "reap" /\ todo'[l] = Agents
    BY <1>6 DEF ReapScan
  <2>2. Current \subseteq Agents
    BY DEF Current
  <2> QED BY <1>3, <2>1, <2>2 DEF world
<1>7. CASE ReapProbe(l)
  <2>1. UNCHANGED world /\ pc[l] = "reap" /\ Quiet
    BY <1>7 DEF ReapProbe, world
  <2>2. PICK p \in todo[l] :
            /\ todo' = [todo EXCEPT ![l] = @ \ {p}]
            /\ IF sock[p] = NoPath \/ Reachable(sock[p]) \/ p \notin mine
                 THEN Goto(l, "reap", "reap") /\ UNCHANGED victim
                 ELSE Goto(l, "reap", "terminate") /\ victim' = [victim EXCEPT ![l] = p]
    BY <1>7 DEF ReapProbe
  <2>3. CASE sock[p] = NoPath \/ Reachable(sock[p]) \/ p \notin mine
    <3>1. pc'[l] = "reap" /\ todo'[l] = todo[l] \ {p}
      BY <2>1, <2>2, <2>3
    <3>2. p \notin Current
      BY <2>1, <2>3, ReachableOurs DEF Current, GroundInv, WorldGround
    <3> QED BY <1>3, <2>1, <3>1, <3>2
  <2>4. CASE ~(sock[p] = NoPath \/ Reachable(sock[p]) \/ p \notin mine)
    <3>1. pc'[l] = "terminate" /\ todo'[l] = todo[l] \ {p} /\ victim'[l] = p
      BY <2>1, <2>2, <2>4
    <3>2. sock[p] \in Path /\ p \in Pid
      BY <2>4
    <3>3. \A r \in Pid : Answers(r) => bound[sock[p]] # r
      BY <2>4, <3>2, SilentPath
    <3>4. \A r \in Pid : Answers(r)' => bound'[sock'[p]] # r
      BY <1>3, <2>1, <3>2, <3>3 DEF world
    <3>5. Unserved' /\ Current' \subseteq todo'[l] \cup {p}
      BY <1>3, <2>1, <3>1
    <3> QED BY <3>1, <3>4, <3>5
  <2> QED BY <2>3, <2>4
<1>8. CASE Terminate(l)
  <2>1. /\ UNCHANGED <<stage, sock, mine, stalled, bound, link, todo, victim>>
        /\ pc[l] = "terminate" /\ pc'[l] = "unlink"
        /\ doomed' = IF victim[l] \in Agents THEN doomed \cup {victim[l]} ELSE doomed
    BY <1>8 DEF Terminate
  <2>2. Current' = Current \ {victim[l]}
    BY <2>1 DEF Current, Agents
  <2>3. Unserved'
    BY <2>1 DEF Unserved, AtOurs, Answers
  <2>4. \A p \in Pid : Answers(p)' => bound'[sock'[victim'[l]]] # p
    BY <2>1 DEF Answers
  <2> QED BY <2>1, <2>2, <2>3, <2>4
<1>9. CASE Unlink(l)
  <2>1. Quiet /\ pc[l] = "unlink" /\ pc'[l] = "reap" /\ UNCHANGED todo
    BY <1>9 DEF Unlink
  <2> QED BY <1>3, <2>1
<1>10. CASE SurveyScan(l) \/ SurveyProbe(l)
  <2>1. Quiet /\ pc[l] \in {"reap", "survey"} /\ pc'[l] = "survey"
        /\ (pc[l] = "reap" => todo[l] = {})
    BY <1>10 DEF SurveyScan, SurveyProbe, world
  <2> QED BY <1>3, <2>1
<1>11. CASE ClearStalePath(l) \/ StartProbe(l) \/ StartUnlink(l) \/ RemoveTmp(l)
  <2>1. Quiet /\ pc[l] \in {"survey", "startprobe", "startunlink"}
        /\ pc'[l] \in {"startprobe", "startunlink", "spawn", "symlink"}
    BY <1>11 DEF ClearStalePath, clearStalePath, StartProbe, StartUnlink, RemoveTmp, world
  <2> QED BY <1>3, <2>1
<1>12. CASE Spawn(l)
  <2>1. PICK p \in Pid :
        /\ stage[p] = "unborn"
        /\ stage' = [stage EXCEPT ![p] = "starting"]
        /\ sock' = [sock EXCEPT ![p] = ours]
        /\ started' = [started EXCEPT ![l] = p]
    BY <1>12 DEF Spawn
  <2>2. UNCHANGED doomed /\ pc'[l] = "await"
    BY <1>12 DEF Spawn
  <2>3. p \notin doomed
    BY <2>1 DEF GroundInv, WorldGround
  <2>4. started'[l] = p /\ stage'[p] = "starting" /\ sock'[p] = ours
    BY <2>1
  <2> QED BY <2>2, <2>3, <2>4
<1>13. CASE Await(l)
  <2>1. UNCHANGED <<world, started>> /\ pc[l] = "await" /\ pc'[l] \in {"record", "unlock"}
        /\ (pc'[l] = "record" => stage[started[l]] \in {"up", "gone"})
    BY <1>13 DEF Await
  <2> QED BY <2>1 DEF world
<1>14. CASE Symlink(l)
  <2>1. Min(foreign[l]) \in foreign[l]
    BY <1>14, LowestPid DEF Symlink, CallOK
  <2>2. Quiet /\ pc[l] = "symlink" /\ pc'[l] \in {"rename", "unlock"} /\ UNCHANGED <<foreign, sock>>
        /\ (pc'[l] = "rename" => tmp'[ours] = sock[Min(foreign[l])])
    BY <1>14 DEF Symlink, world
  <2> QED BY <1>3, <2>1, <2>2
<1> QED BY <1>4, <1>5, <1>6, <1>7, <1>8, <1>9, <1>10, <1>11, <1>12, <1>13, <1>14
        DEF LoginNext

(* Nor do they disturb what another login has read.                        *)
LEMMA OthersOrder ==
    ASSUME OneSocket, TypeInv, GroundInv, \A m \in Login : Order(m) /\ Turn(m),
           NEW l \in Login, [Next]_vars, LoginNext(l), NEW m \in Login, m # l
    PROVE  Order(m)'
<1>0. Fixed[l] = ours /\ ours \in Path
  BY FixedOurs
<1>1. Call(m)' = Call(m) /\ started'[m] = started[m]
  BY OthersUntouched, OthersKeep DEF TypeInv
<1>2. spent["agentCrash"] \in Nat /\ spent'["agentCrash"] \in Nat
      /\ spent'["agentCrash"] >= spent["agentCrash"]
  BY SpentGrows DEF FaultKind, TypeInv
<1>3. CASE pc[m] \in Critical
  <2>1. pc[l] \notin Critical
    BY <1>3 DEF Turn
  <2>2. UNCHANGED <<stage, sock, mine, stalled, doomed, link, tmp>> /\ bound'[ours] = bound[ours]
    BY <2>1, OutsideStep
  <2>3. /\ Unserved => Unserved'
        /\ Current' = Current
        /\ \A q \in Path, p \in Pid : bound[q] # p => bound'[q] # p
        /\ \A p \in Pid : Answers(p)' <=> Answers(p)
    BY <1>0, <2>2, LoginFrame, QuietStep
  <2>4. pc[m] \in {"terminate", "unlink"} => sock[victim[m]] \in Path
    BY DEF TypeInv, CallOK
  <2> QED BY <1>1, <1>2, <2>2, <2>3, <2>4 DEF Order, Call, Silent
<1>4. CASE pc[m] \notin Critical
  BY <1>1, <1>4 DEF Order, Call, Critical, Silent, PC
<1> QED BY <1>3, <1>4

\* A step of a login leaves the agents in order.
LEMMA OrderlyLoginStep ==
    ASSUME OneSocket, TypeInv, GroundInv, OrderlyWorld, \A m \in Login : Order(m) /\ Turn(m),
           NEW l \in Login, LoginNext(l)
    PROVE  OrderlyWorld'
<1>1. /\ \A q \in Path : bound'[q] \in {bound[q], NoPid}
      /\ UNCHANGED stalled
      /\ \A p \in Pid : stage'[p] # stage[p] =>
             stage[p] = "unborn" /\ stage'[p] = "starting" /\ Spawn(l)
  BY LoginFrame
<1> USE PidAssumption DEF TypeInv, TypeOK, WorldTypeOK
<1>2. ASSUME NEW p \in Pid, stage'[p] = "starting"
      PROVE  \E m \in Login : pc'[m] = "await" /\ started'[m] = p
  <2>1. CASE stage[p] = "starting"
    <3>1. PICK m \in Login : pc[m] = "await" /\ started[m] = p
      BY <2>1 DEF OrderlyWorld
    <3>2. CASE m = l
      <4>1. Await(l)
        BY <3>1, <3>2 DEF LoginNext, ShellInit, FastProbe,
         AcquireLock, LockTimeout, Recheck, ReapScan, ReapProbe, Terminate, Unlink,
         SurveyScan, SurveyProbe, ClearStalePath, StartProbe, StartUnlink, Spawn,
         Record, RemoveTmp, Symlink, Rename, Unlock, Fail, Goto, Return
      <4> QED BY <2>1, <3>1, <3>2, <4>1 DEF Await
    <3>3. CASE m # l
      BY <3>1, <3>3, OthersUntouched, OthersKeep DEF Call
    <3> QED BY <3>2, <3>3
  <2>2. CASE stage[p] # "starting"
    <3>1. Spawn(l) /\ stage[p] = "unborn"
      BY <1>1, <1>2, <2>2
    <3>2. pc'[l] = "await" /\ started'[l] = p
      BY <1>2, <2>2, <3>1 DEF Spawn, Goto
    <3> QED BY <3>2
  <2> QED BY <2>1, <2>2
<1>3. ASSUME NEW p \in doomed' PROVE sock'[p] \in Path /\ (stage'[p] = "up" => bound'[sock'[p]] # p)
  <2>1. CASE p \in doomed
    <3>1. p \in Pid /\ stage[p] # "unborn" /\ sock[p] \in Path
      BY <2>1 DEF GroundInv, WorldGround, OrderlyWorld
    <3>2. sock'[p] = sock[p]
      <4>1. CASE Spawn(l)
        BY <3>1, <4>1 DEF Spawn
      <4>2. CASE ~Spawn(l)
        BY <4>2 DEF LoginNext, ShellInit, FastProbe,
         AcquireLock, LockTimeout, Recheck, ReapScan, ReapProbe, Terminate, Unlink,
         SurveyScan, SurveyProbe, ClearStalePath, StartProbe, StartUnlink, Await,
         Record, RemoveTmp, Symlink, Rename, Unlock, Fail, world
      <4> QED BY <4>1, <4>2
    <3> QED BY <1>1, <2>1, <3>1, <3>2 DEF OrderlyWorld
  <2>2. CASE p \notin doomed
    <3>1. Terminate(l)
      BY <1>3, <2>2 DEF LoginNext, ShellInit, FastProbe,
         AcquireLock, LockTimeout, Recheck, ReapScan, ReapProbe, Unlink,
         SurveyScan, SurveyProbe, ClearStalePath, StartProbe, StartUnlink, Spawn, Await,
         Record, RemoveTmp, Symlink, Rename, Unlock, Fail, world
    <3>2. p = victim[l] /\ pc[l] = "terminate" /\ UNCHANGED <<stage, sock, bound>>
      BY <1>3, <2>2, <3>1 DEF Terminate, Goto
    <3>3. p \in Pid /\ sock[p] \in Path /\ p \in mine
      BY <3>2 DEF CallOK, GroundInv, CallGround
    <3>4. stage[p] = "up" => Answers(p)
      BY <3>3 DEF Answers, OrderlyWorld
    <3>5. Answers(p) => bound[sock[p]] # p
      BY <3>2, <3>3 DEF Order
    <3> QED BY <3>2, <3>3, <3>4, <3>5
  <2> QED BY <2>1, <2>2
<1> QED BY <1>1, <1>2, <1>3 DEF OrderlyWorld

\* Every step of an orderly machine keeps the order.
LEMMA OrderlyStep ==
    ASSUME OneSocket, TypeInv, GroundInv, TurnsInv, OrderlyInv, [Next]_vars PROVE OrderlyInv'
<1>0. SUFFICES ASSUME Calm' PROVE OrderlyWorld' /\ \A l \in Login : Order(l)'
  BY DEF OrderlyInv
<1>1. Calm /\ OrderlyWorld /\ \A l \in Login : Order(l)
  BY <1>0, CalmBefore DEF OrderlyInv
<1>2. \A l \in Login : Turn(l)
  BY <1>1 DEF TurnsInv, Calm
<1>3. CASE UNCHANGED vars
  BY <1>1, <1>3 DEF vars, world, login, shared, OrderlyWorld, Order, Unserved, AtOurs, Answers,
                    Current, Agents
<1>4. CASE WorldNext /\ UNCHANGED <<login, shared>>
  BY <1>0, <1>1, <1>4, CalmWorld, OrderlyWorldStep
<1>5. ASSUME NEW l \in Login, LoginNext(l) PROVE OrderlyWorld' /\ \A m \in Login : Order(m)'
  BY <1>0, <1>1, <1>2, <1>5, OrderlyLoginStep, OwnOrder, OthersOrder
<1>6. ASSUME NEW l \in Login PROVE ~LoginCrash(l)
  BY <1>0, <1>1 DEF LoginCrash, Spend, Calm, TypeInv, TypeOK, WorldTypeOK, FaultKind
<1> QED BY <1>3, <1>4, <1>5, <1>6 DEF Next, Environment, Step

(***************************************************************************)
(* What is served stays served.                                            *)
(***************************************************************************)

(* The agent a shell was given is still behind its fixed path while it     *)
(* lives; the agents a survey found, and the one a login returns with, are *)
(* there as long as no agent has died.                                     *)
ShellKept(l) ==
    \A p \in Pid : serving[l] = p =>
        stage[p] \in {"up", "gone"} /\ (Answers(p) => AtOurs(p))

SurveyKept(l) ==
    spent["agentCrash"] = 0 =>
        \A p \in foreign[l] : \E a \in Pid : Answers(a) /\ bound[sock[p]] = a

ReturnKept(l) ==
    (pc[l] = "unlock" /\ outcome[l] # "error" /\ spent["agentCrash"] = 0) => ~Unserved

Kept(l) == ShellKept(l) /\ SurveyKept(l) /\ ReturnKept(l)

ServedInv == (Calm /\ LegacySock = NoPath) => \A l \in Login : Kept(l)

\* The three invariants so far.
TurnsTogether == TypeInv /\ GroundInv /\ TurnsInv /\ OrderlyInv

(* Nothing but its death takes an answering agent from the path it bound.  *)
LEMMA AgentKept ==
    ASSUME OneSocket, TurnsTogether, LegacySock = NoPath, [Next]_vars, Calm',
           NEW q \in Path, NEW a \in Pid, Answers(a), bound[q] = a
    PROVE  \/ Answers(a)' /\ bound'[q] = a
           \/ ~Answers(a)' /\ spent'["agentCrash"] > 0
<1> USE DEF TurnsTogether
<1>1. Calm /\ OrderlyWorld /\ \A l \in Login : Order(l)
  BY CalmBefore DEF OrderlyInv
<1> USE FixedOurs, PidAssumption DEF TypeInv, TypeOK, WorldTypeOK
<1>2. sock[a] = q /\ stage[a] = "up"
  BY DEF GroundInv, WorldGround, Answers
<1>3. CASE UNCHANGED vars
  BY <1>3 DEF vars, world, Answers
<1>4. CASE WorldNext
  <2>1. CalmWorldStep
    BY <1>4, CalmWorld
  <2>2. UNCHANGED <<mine, stalled>>
    BY <2>1 DEF CalmWorldStep
  <2>3. PICK p \in Pid : Rises(p) \/ Ends(p) \/ Dies(p)
    BY <2>1 DEF CalmWorldStep
  <2>4. CASE Rises(p)
    BY <1>2, <2>2, <2>4 DEF Rises, Answers
  <2>5. CASE Ends(p)
    BY <1>1, <1>2, <2>2, <2>5 DEF Ends, Answers, OrderlyWorld
  <2>6. CASE Dies(p) /\ p = a
    BY <2>6 DEF Dies, Answers
  <2>7. CASE Dies(p) /\ p # a
    BY <2>2, <2>7 DEF Dies, Answers
  <2> QED BY <2>3, <2>4, <2>5, <2>6, <2>7
<1>5. ASSUME NEW l \in Login, LoginNext(l) PROVE Answers(a)' /\ bound'[q] = a
  <2>1. Answers(a)'
    BY <1>5, LoginFrame
  <2>2. pc[l] \in Silent => q # ours
    BY <1>1 DEF Order, Unserved, AtOurs
  <2>3. pc[l] = "unlink" => sock[victim[l]] # q
    BY <1>1 DEF Order
  <2>4. CASE ShellInit(l)
    BY <2>1, <2>4, PathAssumption DEF ShellInit, CleanupLegacyAgentDir
  <2>5. CASE Unlink(l)
    BY <2>1, <2>3, <2>5 DEF Unlink, removeSocket, Goto
  <2>6. CASE ClearStalePath(l) \/ StartUnlink(l) \/ Rename(l)
    <3>1. pc[l] \in Silent
      BY <2>6 DEF ClearStalePath, StartUnlink, Rename, Goto, Silent
    <3> QED BY <2>1, <2>2, <2>6, <3>1 DEF ClearStalePath, clearStalePath, StartUnlink,
                removeSocket, Rename
  <2>7. CASE ~(ShellInit(l) \/ Unlink(l) \/ ClearStalePath(l) \/ StartUnlink(l) \/ Rename(l))
    <3>1. UNCHANGED bound
      BY <1>5, <2>7 DEF LoginNext, FastProbe, AcquireLock, LockTimeout, Recheck, ReapScan,
         ReapProbe, Terminate, SurveyScan, SurveyProbe, StartProbe, Spawn, Await,
         Record, RemoveTmp, Symlink, Unlock, Fail, world
    <3> QED BY <2>1, <3>1
  <2> QED BY <2>4, <2>5, <2>6, <2>7
<1>6. ASSUME NEW l \in Login PROVE ~LoginCrash(l)
  BY <1>1 DEF LoginCrash, Spend, Calm, FaultKind
<1> QED BY <1>3, <1>4, <1>5, <1>6 DEF Next, Environment, Step

(* Nor from behind the fixed socket.                                       *)
LEMMA ServedStays ==
    ASSUME OneSocket, TurnsTogether, LegacySock = NoPath, [Next]_vars, Calm',
           NEW a \in Pid, Answers(a), AtOurs(a)
    PROVE  \/ Answers(a)' /\ AtOurs(a)'
           \/ ~Answers(a)' /\ spent'["agentCrash"] > 0
<1>0. ours \in Path /\ link \in [Path -> Path \cup {NoPath}]
  BY FixedOurs DEF TurnsTogether, TypeInv, TypeOK, WorldTypeOK
<1>1. PICK q \in {ours, link[ours]} \cap Path : bound[q] = a
  BY <1>0 DEF AtOurs
<1>2. \/ Answers(a)' /\ bound'[q] = a
      \/ ~Answers(a)' /\ spent'["agentCrash"] > 0
  BY <1>1, AgentKept
<1>3. link'[ours] = link[ours]
  <2>1. Calm /\ \A l \in Login : Order(l)
    BY CalmBefore DEF OrderlyInv, TurnsTogether
  <2>2. \A l \in Login : pc[l] \notin Silent
    BY <2>1 DEF Order, Unserved
  <2>3. CASE WorldNext
    BY <2>3, CalmWorld DEF CalmWorldStep, TurnsTogether
  <2>4. ASSUME NEW l \in Login, LoginNext(l) PROVE UNCHANGED link
    BY <2>2, <2>4 DEF LoginNext, ShellInit, FastProbe,
         AcquireLock, LockTimeout, Recheck, ReapScan, ReapProbe, Terminate, Unlink,
         SurveyScan, SurveyProbe, ClearStalePath, StartProbe, StartUnlink, Spawn, Await,
         Record, RemoveTmp, Symlink, Rename, Unlock, Fail, world, Goto, Silent
  <2>5. CASE (\E l \in Login : LoginCrash(l)) \/ UNCHANGED vars
    BY <2>5 DEF LoginCrash, vars, world
  <2> QED BY <2>3, <2>4, <2>5 DEF Next, Environment, Step
<1> QED BY <1>0, <1>1, <1>2, <1>3, PathAssumption DEF AtOurs

(* An agent that has been up never starts to answer again.                 *)
LEMMA NotRevived ==
    ASSUME OneSocket, TurnsTogether, [Next]_vars, Calm', NEW p \in Pid, stage[p] \in {"up", "gone"}
    PROVE  stage'[p] \in {"up", "gone"} /\ (Answers(p)' => Answers(p))
<1> USE DEF TurnsTogether, TypeInv, TypeOK, WorldTypeOK
<1>1. CASE UNCHANGED vars
  BY <1>1 DEF vars, world, Answers
<1>2. CASE WorldNext
  <2>1. CalmWorldStep
    BY <1>2, CalmWorld
  <2>2. PICK r \in Pid : Rises(r) \/ Ends(r) \/ Dies(r)
    BY <2>1 DEF CalmWorldStep
  <2> QED BY <2>1, <2>2 DEF CalmWorldStep, Rises, Ends, Dies, Answers
<1>3. ASSUME NEW l \in Login, LoginNext(l) \/ LoginCrash(l)
      PROVE  stage'[p] \in {"up", "gone"} /\ (Answers(p)' => Answers(p))
  BY <1>3, LoginFrame
<1> QED BY <1>1, <1>2, <1>3 DEF Next, Environment, Step

(* The first of the three: the agent a shell was given.                    *)
LEMMA ShellKeptStep ==
    ASSUME OneSocket, TurnsTogether, LegacySock = NoPath, [Next]_vars, Calm',
           NEW l \in Login, ShellKept(l)
    PROVE  ShellKept(l)'
<1> USE DEF TurnsTogether
<1> SUFFICES ASSUME NEW p \in Pid, serving'[l] = p
             PROVE  stage'[p] \in {"up", "gone"} /\ (Answers(p)' => AtOurs(p)')
  BY DEF ShellKept
<1>1. stage[p] \in {"up", "gone"} /\ (Answers(p) => AtOurs(p))
  <2>1. CASE serving[l] = p
    BY <2>1 DEF ShellKept
  <2>2. CASE serving[l] # p
    <3>1. Remember
      BY <2>2 DEF Next, Environment, Step, vars, history
    <3>2. Serves(Fixed[l], p)
      BY <2>2, <3>1 DEF Remember, TypeInv, TypeOK
    <3>3. Answers(p) /\ AtOurs(p)
      BY <3>2, FixedOurs, ShortTrails
    <3> QED BY <3>3 DEF Answers
  <2> QED BY <2>1, <2>2
<1>2. stage'[p] \in {"up", "gone"} /\ (Answers(p)' => Answers(p))
  BY <1>1, NotRevived
<1>3. ASSUME Answers(p)' PROVE AtOurs(p)'
  BY <1>1, <1>2, <1>3, ServedStays
<1> QED BY <1>2, <1>3

(* The second: the agents its survey found.                                *)
LEMMA SurveyKeptStep ==
    ASSUME OneSocket, TurnsTogether, LegacySock = NoPath, [Next]_vars, Calm',
           NEW l \in Login, SurveyKept(l)
    PROVE  SurveyKept(l)'
<1> USE DEF TurnsTogether, TypeInv, TypeOK
<1> SUFFICES ASSUME spent'["agentCrash"] = 0, NEW p \in foreign'[l]
             PROVE  \E a \in Pid : Answers(a)' /\ bound'[sock'[p]] = a
  BY DEF SurveyKept
<1>1. spent["agentCrash"] = 0
  BY SpentGrows DEF FaultKind
<1>2. \E a \in Pid : Answers(a) /\ bound[sock[p]] = a /\ sock[p] \in Path /\ p \in Born
  <2>1. CASE p \in foreign[l]
    BY <1>1, <2>1 DEF SurveyKept, GroundInv, CallGround, CallOK
  <2>2. CASE p \notin foreign[l]
    <3>1. SurveyProbe(l)
      <4>1. foreign'[l] # foreign[l]
        BY <2>2
      <4>2. LoginNext(l) \/ LoginCrash(l)
        BY <4>1, OthersUntouched DEF Next, Environment, Step, Call, vars, login
      <4> QED BY <2>2, <4>2 DEF LoginCrash, LoginNext, ShellInit, FastProbe,
         AcquireLock, LockTimeout, Recheck, ReapScan, ReapProbe, Terminate, Unlink,
         SurveyScan, ClearStalePath, StartProbe, StartUnlink, Spawn, Await,
         Record, RemoveTmp, Symlink, Rename, Unlock, Fail, Forget
    <3>2. p \in todo[l] /\ sock[p] \notin {NoPath, Fixed[l]} /\ Reachable(sock[p])
      BY <2>2, <3>1 DEF SurveyProbe
    <3>3. p \in Born /\ sock[p] \in Path \ {ours}
      BY <3>2, FixedOurs DEF CallOK, Born, WorldTypeOK
    <3>4. PICK a \in Pid : Serves(sock[p], a)
      BY <3>2 DEF Reachable
    <3>5. Answers(a) /\ bound[sock[p]] = a
      BY <3>3, <3>4, ShortTrails
    <3> QED BY <3>3, <3>5
  <2> QED BY <2>1, <2>2
<1>3. PICK a \in Pid : Answers(a) /\ bound[sock[p]] = a
  BY <1>2
<1>4. sock'[p] = sock[p]
  <2>1. CASE UNCHANGED vars
    BY <2>1 DEF vars, world
  <2> QED BY <1>2, <2>1, BornStays
<1>5. PICK q \in Path : q = sock[p]
  BY <1>2
<1>6. Answers(a)' /\ bound'[q] = a
  BY <1>1, <1>3, <1>5, AgentKept
<1> QED BY <1>4, <1>5, <1>6

(* The third: the agent it is about to return with.                        *)
LEMMA ReturnKeptStep ==
    ASSUME OneSocket, TurnsTogether, LegacySock = NoPath, [Next]_vars, Calm',
           NEW l \in Login, SurveyKept(l), ReturnKept(l)
    PROVE  ReturnKept(l)'
<1>0. Fixed[l] = ours /\ ours \in Path /\ ours \in OurPath
  BY FixedOurs
<1>1. TypeInv /\ GroundInv /\ TypeOK /\ WorldTypeOK /\ Calm /\ Order(l) /\ Turn(l) /\ stalled = {}
  BY CalmBefore DEF TurnsTogether, OrderlyInv, OrderlyWorld, TurnsInv, Calm, TypeInv, TypeOK
<1> SUFFICES ASSUME pc'[l] = "unlock", outcome'[l] # "error", spent'["agentCrash"] = 0
             PROVE  \E p \in Pid : Answers(p)' /\ AtOurs(p)'
  BY DEF ReturnKept, Unserved
<1>2. spent["agentCrash"] = 0
  BY <1>1, SpentGrows DEF FaultKind
<1>3. ASSUME NEW p \in Pid, Answers(p), AtOurs(p)
      PROVE  \E r \in Pid : Answers(r)' /\ AtOurs(r)'
  BY <1>3, ServedStays
<1>4. CASE ~Unserved
  BY <1>3, <1>4 DEF Unserved
<1>5. CASE Unserved
  <2>1. pc[l] # "unlock" \/ outcome'[l] # outcome[l]
    BY <1>2, <1>5 DEF ReturnKept
  <2>2. LoginNext(l) \/ LoginCrash(l)
    <3>1. CASE UNCHANGED <<pc, outcome>>
      BY <2>1, <3>1
    <3>2. ASSUME NEW m \in Login, m # l, LoginNext(m) \/ LoginCrash(m) PROVE FALSE
      BY <1>1, <2>1, <3>2, OthersUntouched, OthersKeep DEF Call
    <3> QED BY <3>1, <3>2 DEF Next, Environment, Step, vars, login
  <2>3. ~Reachable(ours)
    BY <1>1, <1>5, ReachableOurs
  <2>4. Record(l) \/ Rename(l)
    BY <1>0, <1>1, <2>2, <2>3 DEF LoginCrash, LoginNext, ShellInit, FastProbe,
         AcquireLock, LockTimeout, Recheck, ReapScan, ReapProbe, Terminate, Unlink,
         SurveyScan, SurveyProbe, ClearStalePath, StartProbe, StartUnlink, Spawn, Await,
         RemoveTmp, Symlink, Unlock, Fail, Forget, Goto, Return, TypeOK
  <2>5. CASE Record(l)
    <3>1. pc[l] = "record"
      BY <2>5 DEF Record, Return, Goto
    <3>2. /\ started[l] \in Pid /\ sock[started[l]] = ours
          /\ stage[started[l]] = "up" /\ bound[ours] = started[l]
      BY <1>1, <1>2, <3>1 DEF Order
    <3>3. Answers(started[l]) /\ AtOurs(started[l])
      BY <1>1, <3>2 DEF Answers, AtOurs, GroundInv, WorldGround
    <3> QED BY <3>2, <3>3, <1>5 DEF Unserved
  <2>6. CASE Rename(l)
    <3>1. pc[l] = "rename" /\ UNCHANGED <<stage, mine, stalled>>
      BY <2>6 DEF Rename
    <3>2. tmp[ours] # NoPath
      BY <1>1, <3>1 DEF Turn
    <3>3. PICK p \in foreign[l] : tmp[ours] = sock[p]
      BY <1>1, <3>1 DEF Order
    <3>4. sock[p] \in Path \ {ours}
      BY <1>1 DEF GroundInv, CallGround
    <3>5. PICK a \in Pid : Answers(a) /\ bound[sock[p]] = a
      BY <1>2 DEF SurveyKept
    <3>6. link'[ours] = sock[p] /\ bound'[sock[p]] = a
      BY <1>0, <1>1, <2>6, <3>2, <3>3, <3>4, <3>5 DEF Rename, TypeOK, WorldTypeOK
    <3>7. Answers(a)' /\ AtOurs(a)'
      BY <3>1, <3>4, <3>5, <3>6, PathAssumption DEF Answers, AtOurs
    <3> QED BY <3>7
  <2> QED BY <2>4, <2>5, <2>6
<1> QED BY <1>4, <1>5

\* Before the first login no shell has been given an agent.
LEMMA ServedInit == ASSUME Init PROVE ServedInv
  BY PidAssumption DEF Init, ServedInv, Kept, ShellKept, SurveyKept, ReturnKept

\* Every step of an orderly machine keeps what shells were given.
LEMMA ServedStep ==
    ASSUME OneSocket, TurnsTogether, ServedInv, [Next]_vars PROVE ServedInv'
<1> SUFFICES ASSUME Calm', LegacySock = NoPath, NEW l \in Login PROVE Kept(l)'
  BY DEF ServedInv
<1>1. Kept(l)
  BY CalmBefore DEF ServedInv, TurnsTogether
<1> QED BY <1>1, ShellKeptStep, SurveyKeptStep, ReturnKeptStep DEF Kept

(***************************************************************************)
(* The results.                                                            *)
(***************************************************************************)

\* No fault of these kinds can strike.
Never(kinds) == \A k \in kinds : Budget[k] = 0

\* No more faults strike than the bound allows.
WithinBudget == \A k \in FaultKind : spent[k] <= Budget[k]

\* No fault strikes beyond its budget.
LEMMA WithinBudgetStep == ASSUME TypeInv, WithinBudget, [Next]_vars PROVE WithinBudget'
<1> USE BudgetAssumption DEF TypeInv, TypeOK, WorldTypeOK, WithinBudget
<1>1. CASE UNCHANGED spent
  BY <1>1
<1>2. ASSUME NEW k \in FaultKind, Spend(k) PROVE WithinBudget'
  BY <1>2 DEF Spend
<1>3. UNCHANGED spent \/ \E k \in FaultKind : Spend(k)
  <2>1. CASE UNCHANGED vars
    BY <2>1 DEF vars, world
  <2>2. CASE WorldNext
    BY <2>2 DEF WorldNext, ForeignStart, AgentBind, AgentAborted, AgentExit, AgentCrash,
                Stall, Resume, FaultKind
  <2>3. ASSUME NEW l \in Login, LoginNext(l) \/ LoginCrash(l)
        PROVE  UNCHANGED spent \/ \E k \in FaultKind : Spend(k)
    BY <2>3 DEF LoginCrash, LoginNext, ShellInit, FastProbe,
         AcquireLock, LockTimeout, Recheck, ReapScan, ReapProbe, Terminate, Unlink,
         SurveyScan, SurveyProbe, ClearStalePath, StartProbe, StartUnlink, Spawn, Await,
         Record, RemoveTmp, Symlink, Rename, Unlock, Fail, FaultKind, world
  <2> QED BY <2>1, <2>2, <2>3 DEF Next, Environment, Step
<1> QED BY <1>1, <1>2, <1>3

\* All the invariants, in every behaviour.
LEMMA OrderlyAlways ==
    ASSUME OneSocket PROVE Spec => [](TurnsTogether /\ ServedInv /\ WithinBudget)
<1>1. Init => TurnsTogether /\ ServedInv /\ WithinBudget
  <2>1. Init => WithinBudget
    BY BudgetAssumption DEF Init, WithinBudget
  <2> QED BY <2>1, TypeInvInit, GroundInit, TurnsInit, OrderlyInit, ServedInit DEF TurnsTogether
<1>2. TurnsTogether /\ ServedInv /\ WithinBudget /\ [Next]_vars
         => (TurnsTogether /\ ServedInv /\ WithinBudget)'
  BY TypeInvStep, GroundStep, TurnsStep, OrderlyStep, ServedStep, WithinBudgetStep DEF TurnsTogether
<1> QED BY <1>1, <1>2, PTL DEF Spec

Disorder == {"lockTimeout", "loginCrash", "stall", "foreign", "lateExit"}

\* A budget without a kind of fault rules it out.
LEMMA NeverStrikes ==
    ASSUME TypeInv, WithinBudget, NEW kinds \in SUBSET FaultKind, Never(kinds)
    PROVE  \A k \in kinds : spent[k] = 0
  BY BudgetAssumption DEF TypeInv, TypeOK, WorldTypeOK, WithinBudget, Never

(* However many logins race through probe, lock and re-check, whatever     *)
(* agents die and system calls fail: a login that starts an agent is alone *)
(* to do so, and every earlier agent on the socket has ended or been told  *)
(* to (Reap before Start, under the lock of EnsureAgent).                  *)
THEOREM LoginsStartOneAgent ==
    (OneSocket /\ Never(Disorder)) => (Spec => []OneOfOurs)
<1> SUFFICES ASSUME OneSocket, Never(Disorder) PROVE Spec => []OneOfOurs
  OBVIOUS
<1>1. TurnsTogether /\ WithinBudget => OneOfOurs
  <2> SUFFICES ASSUME TurnsTogether, WithinBudget, NEW l \in Login, pc[l] = "spawn",
                      NEW p \in Agents \ doomed
               PROVE  sock[p] # Fixed[l]
    BY DEF OneOfOurs
  <2>1. Calm
    BY NeverStrikes DEF Calm, Disorder, FaultKind, TurnsTogether
  <2>2. Current = {}
    BY <2>1 DEF TurnsTogether, OrderlyInv, Order
  <2> QED BY <2>2, FixedOurs DEF Current
<1> QED BY <1>1, OrderlyAlways, PTL

(* The agent a shell was given stays behind its fixed path for as long as  *)
(* it answers, through every later login's probes, reaping, unlinking and  *)
(* renaming.                                                               *)
THEOREM LoginsStrandNoShell ==
    (OneSocket /\ LegacySock = NoPath /\ Never(Disorder)) => (Spec => []NoShellStranded)
<1> SUFFICES ASSUME OneSocket, LegacySock = NoPath, Never(Disorder) PROVE Spec => []NoShellStranded
  OBVIOUS
<1>1. TurnsTogether /\ ServedInv /\ WithinBudget => NoShellStranded
  <2> SUFFICES ASSUME TurnsTogether, ServedInv, WithinBudget, NEW l \in Login,
                      serving[l] # NoPid, Answers(serving[l])
               PROVE  Reachable(Fixed[l])
    BY DEF NoShellStranded
  <2>1. Calm
    BY NeverStrikes DEF Calm, Disorder, FaultKind, TurnsTogether
  <2>2. serving[l] \in Pid /\ AtOurs(serving[l])
    BY <2>1 DEF TurnsTogether, TypeInv, TypeOK, ServedInv, Kept, ShellKept
  <2>3. ~Unserved
    BY <2>2 DEF Unserved
  <2> QED BY <2>3, FixedOurs, ReachableOurs DEF TurnsTogether
<1> QED BY <1>1, OrderlyAlways, PTL

(* "On success, never leaves the shell pointed at a dead socket"           *)
(* (ensure.go:73-74): a call that returns without an error returns a live  *)
(* fixed socket, unless an agent has died or stalled, or a signal, a       *)
(* killed login, a login without the lock or another program's new agent   *)
(* was in the way.                                                         *)
THEOREM LoginsSucceedLive ==
    (OneSocket /\ LegacySock = NoPath /\ Never(Disorder \ {"stall"})) => (Spec => SuccessIsLive)
<1> SUFFICES ASSUME OneSocket, LegacySock = NoPath, Never(Disorder \ {"stall"})
             PROVE  Spec => SuccessIsLive
  OBVIOUS
<1> DEFINE Live == \A l \in Login :
         (pc[l] = "unlock" /\ pc'[l] = "done" /\ outcome[l] # "error"
            /\ spent["agentCrash"] + spent["stall"] = 0)
            => Reachable(Fixed[l])
<1>1. TurnsTogether /\ ServedInv /\ WithinBudget => Live
  <2> SUFFICES ASSUME TurnsTogether, ServedInv, WithinBudget, NEW l \in Login,
                      pc[l] = "unlock", outcome[l] # "error",
                      spent["agentCrash"] + spent["stall"] = 0
               PROVE  Reachable(Fixed[l])
    OBVIOUS
  <2>1. spent["agentCrash"] = 0 /\ spent["stall"] = 0
    BY DEF TurnsTogether, TypeInv, TypeOK, WorldTypeOK, FaultKind
  <2>2. \A k \in Disorder \ {"stall"} : spent[k] = 0
    BY NeverStrikes DEF Disorder, FaultKind, TurnsTogether
  <2>3. Calm
    BY <2>1, <2>2 DEF Calm, Disorder
  <2>4. ~Unserved
    BY <2>1, <2>3 DEF ServedInv, Kept, ReturnKept
  <2> QED BY <2>4, FixedOurs, ReachableOurs DEF TurnsTogether
<1> HIDE DEF Live
<1>2. TurnsTogether /\ ServedInv /\ WithinBudget => [Live]_vars
  BY <1>1
<1>3. Spec => [][Live]_vars
  BY <1>2, OrderlyAlways, PTL
<1> QED BY <1>3 DEF SuccessIsLive, Live

=============================================================================
