---------------------------- MODULE AgentService ----------------------------
(***************************************************************************)
(* What internal/agent EnsureAgent promises the shells that call it, with  *)
(* no word about locks, probes, procfs or signals: while logins on a fixed *)
(* socket take turns at its lock and agents fail only by dying,            *)
(*                                                                         *)
(*   - a call that succeeds leaves its socket served, unless an agent died;*)
(*   - a call that fails had a system call fail under it;                  *)
(*   - no socket loses its agent, or is led elsewhere, but by a death;     *)
(*   - an agent is started only for a socket that is not served, by a call *)
(*     during which no agent was there to adopt all along.                 *)
(***************************************************************************)
EXTENDS Integers

CONSTANTS
    Client,     \* who calls EnsureAgent, once each
    Sock,       \* socket paths
    NoSock      \* "no path": not a member of Sock

VARIABLES
    up,         \* the paths at which a healthy agent has its socket
    link,       \* link[f]: the target of the symlink at f
    call,       \* call[c]: the state of the call of c
    target,     \* target[c]: the fixed socket c asks for
    seen,       \* seen[c]: the sockets served since the call of c began
    deaths,     \* agents that have died
    failures    \* system calls that have failed

vars == <<up, link, call, target, seen, deaths, failures>>

Served(f) == f \in up \/ link[f] \in up

Init ==
    /\ up \in SUBSET Sock
    /\ link \in [Sock -> Sock \cup {NoSock}]
    /\ \A f \in up : link[f] = NoSock
    /\ call = [c \in Client |-> "idle"]
    /\ target \in [Client -> Sock]
    /\ seen = [c \in Client |-> {}]
    /\ deaths = 0 /\ failures = 0

Pending(c) == call[c] = "pending"

Begin(c, f) ==
    /\ call[c] = "idle"
    /\ call' = [call EXCEPT ![c] = "pending"]
    /\ target' = [target EXCEPT ![c] = f]
    /\ seen' = [seen EXCEPT ![c] = up]
    /\ UNCHANGED <<up, link, deaths, failures>>

\* Mutant: the path is cleared whatever lies there.
Clear_Blind(c) ==
    /\ Pending(c)
    /\ link' = [link EXCEPT ![target[c]] = NoSock]
    /\ UNCHANGED <<up, call, target, seen, deaths, failures>>

(* A link that leads nowhere may go at any time of a call for its socket.  *)
Clear(c) ==
    /\ Pending(c) /\ ~Served(target[c])
    /\ link' = [link EXCEPT ![target[c]] = NoSock]
    /\ UNCHANGED <<up, call, target, seen, deaths, failures>>

(* Lead the socket to an agent that is there; it may have died just now.   *)
Adopt(c) ==
    /\ Pending(c) /\ ~Served(target[c])
    /\ \E q \in Sock \ {target[c]} :
        /\ q \in up \/ deaths > 0
        /\ link' = [link EXCEPT ![target[c]] = q]
    /\ UNCHANGED <<up, call, target, seen, deaths, failures>>

\* Mutant: no look for an agent to adopt.
Start_Unsurveyed(c) ==
    /\ Pending(c) /\ ~Served(target[c]) /\ link[target[c]] = NoSock
    /\ up' = up \cup {target[c]}
    /\ UNCHANGED <<link, call, target, seen, deaths, failures>>

Start(c) ==
    /\ Pending(c) /\ ~Served(target[c]) /\ link[target[c]] = NoSock
    /\ seen[c] = {}
    /\ up' = up \cup {target[c]}
    /\ UNCHANGED <<link, call, target, seen, deaths, failures>>

Over(c, result) ==
    /\ Pending(c)
    /\ call' = [call EXCEPT ![c] = result]
    /\ seen' = [seen EXCEPT ![c] = {}]
    /\ UNCHANGED <<up, link, target, deaths, failures>>

Return(c) ==
    \/ Served(target[c]) /\ Over(c, "ok")
    \/ deaths > 0 /\ Over(c, "ok")
    \/ failures > 0 /\ Over(c, "error")

(* An agent dies: of those behind a socket at most one goes.               *)
Die ==
    /\ deaths' = deaths + 1
    /\ \E gone \in {{}} \cup {{f} : f \in up} :
        /\ up' = up \ gone
        /\ seen' = [c \in Client |-> seen[c] \ gone]
    /\ UNCHANGED <<link, call, target, failures>>

CallFails ==
    /\ failures' = failures + 1
    /\ UNCHANGED <<up, link, call, target, seen, deaths>>

Next ==
    \/ \E c \in Client :
        \/ \E f \in Sock : Begin(c, f)
        \/ Clear(c) \/ Adopt(c) \/ Start(c) \/ Return(c)
    \/ Die
    \/ CallFails

Spec == Init /\ [][Next]_vars
=============================================================================
