-------------------------- MODULE AgentRefinement ---------------------------
(***************************************************************************)
(* EnsureAgent implements AgentService.                                    *)
(***************************************************************************)
EXTENDS EnsureAgent

(* The paths at which a healthy agent has its socket.                      *)
HealthyPaths == {q \in Path : bound[q] \in HealthyAgents}

(* What the caller of each login sees of its call.                         *)
CallState ==
    [l \in Login |-> CASE pc[l] = "idle" -> "idle"
                       [] Running(l)     -> "pending"
                       [] OTHER -> IF outcome[l] = "error" THEN "error" ELSE "ok"]

(* The paths that have been served since the call began.                   *)
SeenPaths == [l \in Login |-> {sock[p] : p \in steady[l]}]

Service == INSTANCE AgentService WITH
    Client <- Login,
    Sock <- Path,
    NoSock <- NoPath,
    up <- HealthyPaths,
    call <- CallState,
    target <- Fixed,
    seen <- SeenPaths,
    deaths <- spent["agentCrash"],
    failures <- spent["io"]

(* Every step of racing logins and of dying agents is a step of the        *)
(* service or invisible to it: seen from outside, EnsureAgent only adopts, *)
(* starts and returns, and a served socket stays served until its agent    *)
(* dies, while logins respect the lock, none is killed in the middle, and  *)
(* no agent stalls or exits late.  (EnsureAgent with all it calls.)        *)
ImplementsService == Service!Spec
=============================================================================
