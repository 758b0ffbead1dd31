----------------------------- MODULE AgentWorld -----------------------------
(***************************************************************************)
(* What sshakku acts upon and does not own: the ssh-agent processes of a   *)
(* machine and the file-system entries at the paths of their sockets.      *)
(*                                                                         *)
(* internal/agent reads this world through procfs (inspect.go) and through *)
(* a ping on a socket (reach.go); everything in it can change between two  *)
(* of its reads.  The processes themselves are OpenSSH's, modelled from    *)
(* how the code uses them: an agent is started with -a <path>, binds that  *)
(* path, answers a ping, and on SIGTERM unlinks its path by name.          *)
(***************************************************************************)
EXTENDS Integers, FiniteSets, Functions

CONSTANTS
    Pid,        \* process ids; each is used at most once
    Path,       \* the paths sockets are bound at
    OurPath,    \* those that are some login's fixed socket
    NoPath,     \* "no path": not a member of Path
    Budget,     \* bound: how often each kind of fault may strike
    MaxFaults   \* bound: how often faults may strike in all

(* Everything the environment does that a login cannot rule out.           *)
FaultKind ==
    { "agentCrash",     \* an agent dies without having been signalled
      "stall",          \* an agent stops answering (SIGSTOP, swap, load)
      "loginCrash",     \* a login process is killed half way
      "lockTimeout",    \* a login gives up waiting for the start lock
      "io",             \* a system call of a login fails
      "foreign",        \* another program starts an agent
      "lateExit" }      \* a signalled agent unlinks a path it has lost

NoPid == 0

ASSUME PidAssumption == Pid \subseteq Nat \ {NoPid} /\ IsFiniteSet(Pid)
ASSUME PathAssumption == OurPath \subseteq Path /\ NoPath \notin Path
ASSUME BudgetAssumption == Budget \in [FaultKind -> Nat] /\ MaxFaults \in Nat

VARIABLES
    stage,      \* stage[p]: the life of process p
    sock,       \* sock[p]: the -a argument of p, NoPath without one
    mine,       \* the processes that run under our uid
    stalled,    \* the agents that do not get to run
    doomed,     \* the processes that have been sent SIGTERM
    bound,      \* bound[q]: the agent whose socket inode lies at q
    link,       \* link[q]: the target of the symlink at q
    spent       \* spent[k]: faults of kind k so far

world == <<stage, sock, mine, stalled, doomed, bound, link, spent>>

Stage == {"unborn", "starting", "up", "gone", "failed"}

WorldTypeOK ==
    /\ stage \in [Pid -> Stage]
    /\ sock \in [Pid -> Path \cup {NoPath}]
    /\ mine \in SUBSET Pid
    /\ stalled \in SUBSET Pid
    /\ doomed \in SUBSET Pid
    /\ bound \in [Path -> Pid \cup {NoPid}]
    /\ link \in [Path -> Path \cup {NoPath}]
    /\ spent \in [FaultKind -> Nat]

(***************************************************************************)
(* Reading the world.                                                      *)
(***************************************************************************)

(* The paths a lookup of q passes through: q, then the target of each      *)
(* symlink on the way.  It is the least set with q that links do not leave.*)
Trail(q) ==
    { x \in Path :
        \A S \in SUBSET Path :
            (q \in S /\ \A y \in S : link[y] # NoPath => link[y] \in S) => x \in S }

(* The agent replies to a ping: it is running, and it accepts our uid.     *)
Answers(p) == stage[p] = "up" /\ p \notin stalled /\ p \in mine

(* Reachable: some agent answers behind the path.  A path holds a socket   *)
(* or a symlink and never both, so a trail meets at most one socket.       *)
Serves(q, p) == Answers(p) /\ \E x \in Trail(q) : bound[x] = p
Reachable(q) == \E p \in Pid : Serves(q, p)

(* What procfs lists as ssh-agent: a process that has been exec'd and has  *)
(* not ended, whether or not it has bound its socket yet.                  *)
Agents == { p \in Pid : stage[p] \in {"starting", "up"} }

(* An agent that nobody has a reason to touch: it answers on the socket it *)
(* was started with and has not been told to end.                          *)
HealthyAgents == { p \in Pid : /\ Answers(p)
                               /\ p \notin doomed
                               /\ sock[p] \in Path
                               /\ bound[sock[p]] = p }

(***************************************************************************)
(* Changing the file system.                                               *)
(***************************************************************************)

\* Lstat says socket: unlink it.  A symlink or nothing is left alone.
removeSocket(q) == bound' = [bound EXCEPT ![q] = NoPid]

\* Lstat says socket or symlink: unlink it.
clearStalePath(q) ==
    /\ bound' = [bound EXCEPT ![q] = NoPid]
    /\ link' = [link EXCEPT ![q] = NoPath]

\* To stop waiting is a login's own choice, which no other fault uses up.
Faults == SumFunctionOnSet(spent, FaultKind \ {"lockTimeout"})

Spend(k) ==
    /\ spent[k] < Budget[k]
    /\ k # "lockTimeout" => Faults < MaxFaults
    /\ spent' = [spent EXCEPT ![k] = @ + 1]

(***************************************************************************)
(* The environment.                                                        *)
(***************************************************************************)

(* Another program starts an agent: on a path of its own, or without -a;   *)
(* under our uid or another one.                                           *)
ForeignStart ==
    /\ Spend("foreign")
    /\ \E p \in Pid, q \in (Path \ OurPath) \cup {NoPath}, ours \in BOOLEAN :
        /\ stage[p] = "unborn"
        /\ stage' = [stage EXCEPT ![p] = IF q = NoPath THEN "up" ELSE "starting"]
        /\ sock' = [sock EXCEPT ![p] = q]
        /\ mine' = IF ours THEN mine \cup {p} ELSE mine
    /\ UNCHANGED <<stalled, doomed, bound, link>>

(* The agent binds its path.  bind(2) refuses a path at which anything     *)
(* lies, a dangling symlink included; the agent then exits with an error.  *)
AgentBind(p) ==
    /\ stage[p] = "starting" /\ p \notin doomed
    /\ IF bound[sock[p]] = NoPid /\ link[sock[p]] = NoPath
         THEN /\ stage' = [stage EXCEPT ![p] = "up"]
              /\ bound' = [bound EXCEPT ![sock[p]] = p]
         ELSE /\ stage' = [stage EXCEPT ![p] = "failed"]
              /\ UNCHANGED bound
    /\ UNCHANGED <<sock, mine, stalled, doomed, link, spent>>

(* SIGTERM before the agent has bound: it ends and leaves nothing behind.  *)
AgentAborted(p) ==
    /\ stage[p] = "starting" /\ p \in doomed
    /\ stage' = [stage EXCEPT ![p] = "failed"]
    /\ UNCHANGED <<sock, mine, stalled, doomed, bound, link, spent>>

(* A running agent acts on SIGTERM and unlinks its path, by name.  When    *)
(* the path has changed hands in the meantime, either the new entry goes   *)
(* (a lateExit), or the agent had unlinked its own before that.            *)
AgentExit(p) ==
    LET lost == sock[p] \in Path /\ (bound[sock[p]] \notin {p, NoPid} \/ link[sock[p]] # NoPath)
    IN
    /\ stage[p] = "up" /\ p \in doomed \ stalled
    /\ stage' = [stage EXCEPT ![p] = "gone"]
    /\ \/ /\ ~lost
          /\ bound' = [q \in Path |-> IF q = sock[p] THEN NoPid ELSE bound[q]]
          /\ UNCHANGED <<link, spent>>
       \/ /\ lost
          /\ Spend("lateExit")
          /\ clearStalePath(sock[p])
       \/ /\ lost
          /\ UNCHANGED <<bound, link, spent>>
    /\ UNCHANGED <<sock, mine, stalled, doomed>>

(* The agent dies by other hands; its socket stays behind as a stale file, *)
(* or goes with it.                                                        *)
AgentCrash(p) ==
    /\ stage[p] = "up"
    /\ Spend("agentCrash")
    /\ stage' = [stage EXCEPT ![p] = "gone"]
    /\ \/ UNCHANGED bound
       \/ /\ p \in HealthyAgents
          /\ removeSocket(sock[p])
    /\ UNCHANGED <<sock, mine, stalled, doomed, link>>

Stall(p) ==
    /\ stage[p] = "up" /\ p \notin stalled
    /\ Spend("stall")
    /\ stalled' = stalled \cup {p}
    /\ UNCHANGED <<stage, sock, mine, doomed, bound, link>>

Resume(p) ==
    /\ p \in stalled
    /\ stalled' = stalled \ {p}
    /\ UNCHANGED <<stage, sock, mine, doomed, bound, link, spent>>

WorldNext ==
    \/ ForeignStart
    \/ \E p \in Pid :
        \/ AgentBind(p)
        \/ AgentAborted(p)
        \/ AgentExit(p)
        \/ AgentCrash(p)
        \/ Stall(p)
        \/ Resume(p)
=============================================================================
