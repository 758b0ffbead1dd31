------------------------- MODULE LoginSessionProofs -------------------------
(***************************************************************************)
(* What TLAPS proves of LoginSession, for any number of shells,            *)
(* directories and faults.                                                 *)
(***************************************************************************)
EXTENDS LoginSession, SocketTokenProofs, FiniteSetTheorems

(***************************************************************************)
(* The invariants.                                                         *)
(***************************************************************************)

(* The types, with those of the agent service; the hook's first load of    *)
(* keys and its first record of give-ups come after the agent.             *)
SessionTypeInv ==
    /\ SessionTypeOK
    /\ call \in [Shell -> {"idle", "pending", "ok", "error"}]
    /\ seen \in [Shell -> SUBSET Sock]
    /\ deaths \in Nat /\ moves \in Nat
    /\ gone \in BOOLEAN /\ overlapped \in BOOLEAN
    /\ sure \in SUBSET Shell

\* Where a shell is before, in and after its call of the agent service.
Before == {"closed", "broker", "token"}
After  == {"loadkeys", "askpass", "ready"}

(* The call of a shell is over when its shell-init is.                     *)
CallInStep ==
    \A s \in Shell :
        /\ pc[s] \in Before => call[s] = "idle"
        /\ pc[s] = "agent" => step[s] = "done" /\ call[s] # "idle"
        /\ pc[s] \in Before \cup {"agent"} => giveup[s] = NoSock /\ s \notin sure
        /\ pc[s] \in After => call[s] # "pending"

\* The directory that the commands of a shell resolve to as things are.
Place(s) == resolveRuntimeDir(env[s], Probe)

(* While the keyring works and the directories stay, a shell at work uses  *)
(* its directory, asks for the socket in it that goes with its token, and  *)
(* a sure one is pinned to the socket that goes with the key.              *)
OnePlace ==
    failures = 0 /\ moves = 0 =>
        \A s \in Shell :
            /\ pc[s] \in {"token", "agent", "loadkeys"} => base[s] = Place(s)
            /\ pc[s] = "agent" => base[s] \in owned /\ target[s] = <<base[s], token[s]>>
            /\ s \in sure => /\ s \in settled /\ Place(s) \in owned
                             /\ env[s].AuthSock = <<Place(s), key>>
                             /\ giveup[s] \in {NoSock, <<Place(s), key>>}

(* A socket that a call returned, or that a shell is pinned to, is served. *)
StaysServed ==
    deaths = 0 /\ ~gone =>
        \A s \in Shell :
            /\ call[s] = "ok" => Agent!Served(target[s])
            /\ Pinned(s) => Agent!Served(env[s].AuthSock)

(* A call that saw no agent when it began is the only one since, and what  *)
(* has come up since is its own.                                           *)
OneAtATime ==
    deaths = 0 /\ ~gone /\ ~overlapped =>
        /\ \A f, g \in up : f = g
        /\ \A s, t \in Shell : Agent!Pending(s) /\ Agent!Pending(t) => s = t
        /\ \A s \in Shell : Agent!Pending(s) /\ seen[s] = {} => up \subseteq {target[s]}

SessionInv ==
    SessionTypeInv /\ TokenInv /\ CallInStep /\ OnePlace /\ StaysServed /\ OneAtATime

(***************************************************************************)
(* Types.                                                                  *)
(***************************************************************************)

\* A command resolves its base directory to one there is, or to the cache.
LEMMA ResolvesToDir ==
    ASSUME NEW e \in Env, SessionTypeInv PROVE resolveRuntimeDir(e, Probe) \in Dir
BY DirAssumption, SessionAssumption DEF resolveRuntimeDir, ProbeDir, Probe, Env, SessionTypeInv, SessionTypeOK

\* Before the first shell opens, everything is well typed.
LEMMA SessionTypeInit == ASSUME SessionInit PROVE SessionTypeInv
<1> USE TokenAssumption, DirAssumption, SessionAssumption
<1>1. TypeOK
  BY InitToken DEF SessionInit, TokenInv
<1>2. <<HomeCache, NoToken>> \in Sock
  BY DEF Sock, Token
<1>3. LoggedOut \in Env
  BY DEF LoggedOut, Env
<1> QED BY <1>1, <1>2, <1>3 DEF SessionInit, SessionTypeInv, SessionTypeOK, Token

\* A call of SocketToken keeps the types of SocketToken.
LEMMA TokenStepType ==
    ASSUME TokenInv, NEW s \in Shell, TokenStep(s) PROVE TokenInv'
<1>1. ShellStep(s)
  BY DEF TokenStep, ShellStep
<1> QED BY <1>1, StepType, StepReaders, StepSettled DEF TokenInv

\* So does everything else: only load-keys begins another call.
LEMMA OtherStepToken ==
    ASSUME TokenInv, NEW s \in Shell,
           \/ UNCHANGED <<key, step, token, settled>> /\ (UNCHANGED failures \/ Failing)
           \/ /\ step[s] = "done" /\ step' = [step EXCEPT ![s] = "search"]
              /\ UNCHANGED <<key, token, settled, failures>>
    PROVE  TokenInv'
<1> USE TokenAssumption DEF TokenInv, TypeOK, Steps, Token, Failing
<1>1. CASE UNCHANGED <<key, step, token, settled>> /\ (UNCHANGED failures \/ Failing)
  <2>1. TypeOK' /\ ReadersFind'
    BY <1>1 DEF ReadersFind
  <2>2. StaysSettled'
    BY <1>1 DEF StaysSettled, Settled
  <2> QED BY <2>1, <2>2
<1>2. CASE /\ step[s] = "done" /\ step' = [step EXCEPT ![s] = "search"]
           /\ UNCHANGED <<key, token, settled, failures>>
  <2>1. TypeOK' /\ ReadersFind'
    BY <1>2 DEF ReadersFind
  <2>2. StaysSettled'
    BY <1>2 DEF StaysSettled, Settled
  <2> QED BY <2>1, <2>2
<1> QED BY <1>1, <1>2

(* What SocketToken says of its shells holds of the shells of the hook,    *)
(* which call it twice each.                                               *)
LEMMA TokenInvStep ==
    ASSUME SessionInv, [SessionNext]_allVars PROVE TokenInv'
<1> USE DEF SessionInv
<1>1. CASE UNCHANGED allVars
  BY <1>1, Stutter DEF allVars
<1>2. ASSUME NEW s \in Shell, Hook(s) PROVE TokenInv'
  <2>1. CASE TokenStep(s)
    BY <2>1, TokenStepType
  <2>2. CASE Pin(s)
    <3>1. pc[s] = "agent" /\ step[s] = "done"
      BY <2>2 DEF Pin, LoadKeys, Advance, CallInStep
    <3> QED BY <2>2, <3>1, OtherStepToken DEF Pin, LoadKeys
  <2>3. CASE Ensure(s)
    BY <2>3, OtherStepToken DEF Ensure
  <2>4. CASE CallFails(s)
    BY <2>4, OtherStepToken DEF CallFails
  <2>5. CASE Login(s) \/ Nested(s) \/ BrokerAnswers(s) \/ AgentStep(s) \/ DirectoryGone(s)
             \/ NotPinned(s) \/ KeysLoaded(s) \/ AskpassEnv(s)
    <3>1. UNCHANGED vars \/ UNCHANGED <<key, step, token, settled, failures>>
      BY <2>5 DEF Login, Nested, Open, BrokerAnswers, AgentStep, DirectoryGone, NotPinned, KeysLoaded,
                  AskpassEnv, Agent!Clear, Agent!Start, Agent!Return, Agent!Adopt, Agent!Over
    <3> QED BY <3>1, OtherStepToken DEF vars
  <2> QED BY <1>2, <2>1, <2>2, <2>3, <2>4, <2>5 DEF Hook
<1>3. CASE AgentDies
  BY <1>3, Stutter DEF AgentDies, Agent!Die, vars
<1>4. CASE RuntimeDirMoves
  BY <1>4, Stutter DEF RuntimeDirMoves
<1> QED BY <1>1, <1>2, <1>3, <1>4 DEF SessionNext

\* A shell that opens has an environment, and begins in a directory.
LEMMA OpenType ==
    ASSUME SessionInv, NEW s \in Shell, NEW e \in Env, Open(s, e)
    PROVE  SessionTypeInv'
<1>1. resolveRuntimeDir(e, Probe) \in Dir
  BY ResolvesToDir DEF SessionInv
<1>2. UNCHANGED <<key, step, token, settled, failures>>
  BY DEF Open, vars
<1>3. TypeOK'
  BY <1>2 DEF SessionInv, TokenInv, TypeOK
<1>4. pc' \in [Shell -> {"closed", "broker", "token", "agent", "loadkeys", "askpass", "ready"}]
      /\ base' \in [Shell -> Dir]
  BY <1>1 DEF SessionInv, SessionTypeInv, SessionTypeOK, Open, ShellInit, Advance
<1>5. env' \in [Shell -> Env]
  BY DEF SessionInv, SessionTypeInv, SessionTypeOK, Open
<1> QED BY <1>3, <1>4, <1>5
        DEF SessionInv, SessionTypeInv, SessionTypeOK, Open, service, machine, history

\* The environment a shell opens with is one that sshakku reads.
LEMMA OpensWithEnv ==
    ASSUME SessionTypeInv, NEW s \in Shell, Login(s) \/ Nested(s)
    PROVE  \E e \in Env : Open(s, e)
<1>1. CASE Login(s)
  <2>1. PICK d \in Named \cup {NoDir} : Open(s, [LoggedOut EXCEPT !.RuntimeDir = d])
    BY <1>1 DEF Login
  <2>2. [LoggedOut EXCEPT !.RuntimeDir = d] \in Env
    BY DEF LoggedOut, Env
  <2> QED BY <2>1, <2>2
<1>2. CASE Nested(s)
  BY <1>2 DEF Nested, SessionTypeInv, SessionTypeOK
<1> QED BY <1>1, <1>2

\* Every step of hooks, agents and directories keeps the types.
LEMMA SessionTypeStep ==
    ASSUME SessionInv, [SessionNext]_allVars PROVE SessionTypeInv'
<1>0. TypeOK'
  BY TokenInvStep DEF TokenInv
<1> USE DEF SessionInv
<1>1. CASE UNCHANGED allVars
  BY <1>0, <1>1 DEF SessionTypeInv, SessionTypeOK, allVars, service, shell, machine, history
<1>2. ASSUME NEW s \in Shell, Hook(s) PROVE SessionTypeInv'
  <2>1. CASE Login(s) \/ Nested(s)
    BY <2>1, OpensWithEnv, OpenType
  <2>2. CASE BrokerAnswers(s)
    BY <1>0, <2>2 DEF BrokerAnswers, Advance, SessionTypeInv, SessionTypeOK, service, machine, history
  <2>3. CASE TokenStep(s)
    BY <1>0, <2>3 DEF TokenStep, SessionTypeInv, SessionTypeOK, service, shell, machine, history
  <2>4. CASE Ensure(s)
    <3>1. Socket(s) \in Sock
      BY DEF Socket, WithSocketToken, Sock, SessionTypeInv, SessionTypeOK, TypeOK
    <3>2. pc' \in [Shell -> {"closed", "broker", "token", "agent", "loadkeys", "askpass", "ready"}]
      BY <2>4 DEF Ensure, Advance, SessionTypeInv, SessionTypeOK
    <3>3. /\ up' \in SUBSET Sock /\ link' \in [Sock -> Sock \cup {NoSock}]
          /\ target' \in [Shell -> Sock] /\ seen' \in [Shell -> SUBSET Sock] /\ deaths' \in Nat
          /\ call' \in [Shell -> {"idle", "pending", "ok", "error"}]
          /\ overlapped' \in BOOLEAN
      BY <2>4, <3>1 DEF Ensure, Agent!Begin, Agent!Pending, service, SessionTypeInv, SessionTypeOK
    <3> QED BY <1>0, <2>4, <3>2, <3>3 DEF Ensure, SessionTypeInv, SessionTypeOK, machine
  <2>5. CASE AgentStep(s)
    <3>1. /\ up' \in SUBSET Sock /\ link' \in [Sock -> Sock \cup {NoSock}]
          /\ target' \in [Shell -> Sock] /\ seen' \in [Shell -> SUBSET Sock] /\ deaths' \in Nat
          /\ call' \in [Shell -> {"idle", "pending", "ok", "error"}]
      BY <2>5 DEF AgentStep, Agent!Clear, Agent!Start, Agent!Return, Agent!Adopt, Agent!Over,
                  SessionTypeInv, SessionTypeOK
    <3> QED BY <1>0, <2>5, <3>1 DEF AgentStep, SessionTypeInv, SessionTypeOK, shell, machine, history
  <2>6. CASE CallFails(s)
    BY <1>0, <2>6 DEF CallFails, Agent!CallFails, SessionTypeInv, SessionTypeOK, shell, machine, history
  <2>7. CASE DirectoryGone(s)
    BY <1>0, <2>7 DEF DirectoryGone, Agent!Over, SessionTypeInv, SessionTypeOK, shell, machine, history
  <2>8. CASE Pin(s)
    <3>1. resolveRuntimeDir(env[s], Probe) \in Dir
      BY ResolvesToDir DEF SessionTypeInv, SessionTypeOK
    <3>2. base' \in [Shell -> Dir]
          /\ pc' \in [Shell -> {"closed", "broker", "token", "agent", "loadkeys", "askpass", "ready"}]
      BY <2>8, <3>1 DEF Pin, LoadKeys, Advance, SessionTypeInv, SessionTypeOK
    <3>3. env' \in [Shell -> Env]
      BY <2>8 DEF Pin, Env, SessionTypeInv, SessionTypeOK
    <3> QED BY <1>0, <2>8, <3>2, <3>3 DEF Pin, SessionTypeInv, SessionTypeOK, service, machine
  <2>9. CASE NotPinned(s)
    BY <1>0, <2>9 DEF NotPinned, Advance, SessionTypeInv, SessionTypeOK, service, machine, history
  <2>10. CASE KeysLoaded(s)
    <3>1. GiveupDir(s) \in Sock
      BY DEF GiveupDir, Socket, WithSocketToken, Sock, SessionTypeInv, SessionTypeOK, TypeOK
    <3> QED BY <1>0, <2>10, <3>1
            DEF KeysLoaded, Advance, SessionTypeInv, SessionTypeOK, service, machine, history
  <2>11. CASE AskpassEnv(s)
    <3>1. env' \in [Shell -> Env]
      BY <2>11 DEF AskpassEnv, Env, SessionTypeInv, SessionTypeOK
    <3> QED BY <1>0, <2>11, <3>1
            DEF AskpassEnv, Advance, SessionTypeInv, SessionTypeOK, service, machine, history
  <2> QED BY <1>2, <2>1, <2>2, <2>3, <2>4, <2>5, <2>6, <2>7, <2>8, <2>9, <2>10, <2>11 DEF Hook
<1>3. CASE AgentDies
  BY <1>0, <1>3 DEF AgentDies, Agent!Die, SessionTypeInv, SessionTypeOK, shell, machine, history
<1>4. CASE RuntimeDirMoves
  <2>1. /\ up' \in SUBSET Sock /\ link' \in [Sock -> Sock \cup {NoSock}]
        /\ target' \in [Shell -> Sock] /\ seen' \in [Shell -> SUBSET Sock] /\ deaths' \in Nat
        /\ call' \in [Shell -> {"idle", "pending", "ok", "error"}]
    BY <1>4 DEF RuntimeDirMoves, service, Within, SessionTypeInv, SessionTypeOK
  <2>2. /\ exists' = exists \cup {RunUser} \/ exists' = exists \ {RunUser}
        /\ gone' = gone \/ gone' = TRUE
        /\ moves' = moves + 1
    BY <1>4 DEF RuntimeDirMoves
  <2>3. exists' \in SUBSET Dir /\ gone' \in BOOLEAN /\ moves' \in Nat
    <3>1. exists' \in SUBSET Dir /\ moves' \in Nat
      BY <2>2, DirAssumption DEF SessionTypeInv, SessionTypeOK
    <3>2. gone' \in BOOLEAN
      BY <2>2, Zenon DEF SessionTypeInv
    <3> QED BY <3>1, <3>2
  <2> QED BY <1>0, <1>4, <2>1, <2>3 DEF RuntimeDirMoves, SessionTypeInv, SessionTypeOK, shell, history
<1> QED BY <1>1, <1>2, <1>3, <1>4 DEF SessionNext

(***************************************************************************)
(* The hook calls the agent service once, in the middle.                   *)
(***************************************************************************)

\* The calls of SocketToken are the shell's own.
LEMMA OwnToken ==
    ASSUME NEW s \in Shell, TokenStep(s), TypeOK
    PROVE  \A t \in Shell \ {s} : step'[t] = step[t] /\ token'[t] = token[t]
BY DEF TokenStep, Search, Read, Create, ReadBack, Return, Goto, TypeOK

\* Every step keeps the call of the service within shell-init.
LEMMA CallInStepStep ==
    ASSUME SessionInv, [SessionNext]_allVars PROVE CallInStep'
<1> USE DEF SessionInv, SessionTypeInv, SessionTypeOK, TypeOK, CallInStep, Before, After
<1>1. CASE UNCHANGED allVars
  BY <1>1 DEF allVars, vars, service, shell, machine, history
<1>2. ASSUME NEW s \in Shell, Hook(s) PROVE CallInStep'
  <2>1. CASE Login(s) \/ Nested(s)
    <3>1. PICK e \in Env : Open(s, e)
      BY <2>1, OpensWithEnv
    <3>2. /\ UNCHANGED <<call, step, giveup, sure>>
          /\ pc[s] = "closed" /\ pc' \in {[pc EXCEPT ![s] = "broker"], [pc EXCEPT ![s] = "token"]}
      BY <3>1 DEF Open, ShellInit, Advance, vars, service, history
    <3>3. \/ pc'[s] = "broker" \/ pc'[s] = "token"
      BY <3>2
    <3> QED BY <3>2, <3>3
  <2>2. CASE BrokerAnswers(s)
    BY <2>2 DEF BrokerAnswers, Advance, vars, service, history
  <2>3. CASE TokenStep(s)
    BY <2>3, OwnToken DEF TokenStep, service, shell, history
  <2>4. CASE Ensure(s)
    BY <2>4 DEF Ensure, Advance, Agent!Begin, service
  <2>5. CASE AgentStep(s)
    BY <2>5 DEF AgentStep, Agent!Clear, Agent!Start, Agent!Return, Agent!Adopt, Agent!Over,
                Agent!Pending, shell, history
  <2>6. CASE CallFails(s)
    BY <2>6 DEF CallFails, Agent!CallFails, shell, history
  <2>7. CASE DirectoryGone(s)
    BY <2>7 DEF DirectoryGone, Agent!Over, shell, history
  <2>8. CASE Pin(s)
    <3>1. pc[s] = "agent" /\ (pc'[s] = "loadkeys" \/ pc'[s] = "ready") /\ call[s] = "ok"
          /\ pc' = [pc EXCEPT ![s] = pc'[s]]
      BY <2>8 DEF Pin, LoadKeys, Advance
    <3>2. (step' = step \/ step' = [step EXCEPT ![s] = "search"]) /\ (sure' = sure \/ sure' = sure \cup {s})
      BY <2>8 DEF Pin, LoadKeys
    <3> QED BY <2>8, <3>1, <3>2 DEF Pin, service
  <2>9. CASE NotPinned(s)
    BY <2>9 DEF NotPinned, Advance, vars, service, history
  <2>10. CASE KeysLoaded(s)
    BY <2>10 DEF KeysLoaded, Advance, vars, service, history
  <2>11. CASE AskpassEnv(s)
    BY <2>11 DEF AskpassEnv, Advance, vars, service, history
  <2> QED BY <1>2, <2>1, <2>2, <2>3, <2>4, <2>5, <2>6, <2>7, <2>8, <2>9, <2>10, <2>11 DEF Hook
<1>3. CASE AgentDies
  BY <1>3 DEF AgentDies, Agent!Die, shell, history
<1>4. CASE RuntimeDirMoves
  BY <1>4 DEF RuntimeDirMoves, vars, service, shell, history
<1> QED BY <1>1, <1>2, <1>3, <1>4 DEF SessionNext

(***************************************************************************)
(* One agent behind every socket that was given out.                       *)
(***************************************************************************)

\* Serving sockets goes on: no step of a call takes an agent or moves a link to one.
LEMMA ServiceKeeps ==
    ASSUME SessionTypeInv, NEW s \in Shell,
           Agent!Clear(s) \/ Agent!Start(s) \/ Agent!Return(s) \/ Agent!Adopt(s),
           NEW f \in Sock, Agent!Served(f)
    PROVE  Agent!Served(f)'
<1> USE SessionAssumption DEF SessionTypeInv, SessionTypeOK, Agent!Served
<1>1. CASE Agent!Clear(s)
  BY <1>1 DEF Agent!Clear
<1>2. CASE Agent!Adopt(s)
  BY <1>2 DEF Agent!Adopt
<1>3. CASE Agent!Start(s)
  BY <1>3 DEF Agent!Start
<1>4. CASE Agent!Return(s)
  BY <1>4 DEF Agent!Return, Agent!Over
<1> QED BY <1>1, <1>2, <1>3, <1>4

\* No step takes the agent from a socket that was given out.
LEMMA StaysServedStep ==
    ASSUME SessionInv, [SessionNext]_allVars PROVE StaysServed'
<1> USE DEF SessionInv
<1>0. SUFFICES ASSUME deaths' = 0, ~gone',
                      NEW t \in Shell
               PROVE  /\ call'[t] = "ok" => Agent!Served(target[t])'
                      /\ Pinned(t)' => Agent!Served(env[t].AuthSock)'
  BY DEF StaysServed
<1>1. CASE UNCHANGED <<deaths, gone, call, target, env, up, link>>
  BY <1>0, <1>1 DEF StaysServed, Pinned, Agent!Served
<1>2. ASSUME NEW s \in Shell, Hook(s)
      PROVE  /\ call'[t] = "ok" => Agent!Served(target[t])'
             /\ Pinned(t)' => Agent!Served(env[t].AuthSock)'
  <2>0. /\ env \in [Shell -> Env] /\ target \in [Shell -> Sock] /\ t \in Shell
        /\ call \in [Shell -> {"idle", "pending", "ok", "error"}]
    BY DEF SessionTypeInv, SessionTypeOK
  <2>1. CASE Login(s) \/ Nested(s)
    <3>1. PICK e \in Env : Open(s, e) /\ (e.AuthSock = NoSock \/ \E p \in Shell : e = env[p])
      <4>1. CASE Login(s)
        <5>1. PICK d \in Named \cup {NoDir} : Open(s, [LoggedOut EXCEPT !.RuntimeDir = d])
          BY <4>1 DEF Login
        <5>2. [LoggedOut EXCEPT !.RuntimeDir = d] \in Env
              /\ [LoggedOut EXCEPT !.RuntimeDir = d].AuthSock = NoSock
          BY DEF LoggedOut, Env
        <5> QED BY <5>1, <5>2
      <4>2. CASE Nested(s)
        BY <2>0, <4>2 DEF Nested
      <4> QED BY <2>1, <4>1, <4>2
    <3>2. UNCHANGED <<call, target, up, link, deaths, gone>> /\ env' = [env EXCEPT ![s] = e]
      BY <3>1 DEF Open, service, machine
    <3>3. \A p \in Shell : Pinned(p) => Agent!Served(env[p].AuthSock)
      BY <1>0, <3>2 DEF StaysServed
    <3>4. env'[t] = env[t] \/ env'[t] = e
      BY <2>0, <3>2
    <3>5. env'[t].AuthSock # NoSock => Agent!Served(env'[t].AuthSock)
      BY <3>1, <3>3, <3>4 DEF Pinned
    <3> QED BY <1>0, <3>2, <3>5 DEF StaysServed, Pinned, Agent!Served
  <2>2. CASE AgentStep(s)
    <3>1. Agent!Clear(s) \/ Agent!Start(s) \/ Agent!Return(s) \/ Agent!Adopt(s)
      BY <2>2 DEF AgentStep
    <3>2. UNCHANGED <<env, gone, target, deaths>>
      BY <2>2, <3>1 DEF AgentStep, shell, machine, Agent!Clear, Agent!Start, Agent!Return, Agent!Adopt,
                        Agent!Over
    <3>3. Pinned(t) => env[t].AuthSock \in Sock
      BY <2>0 DEF Pinned, Env
    <3>4. call[t] # "ok" /\ call'[t] = "ok" => Agent!Served(target[t])
      BY <1>0, <2>0, <3>1, <3>2 DEF Agent!Clear, Agent!Start, Agent!Return, Agent!Adopt, Agent!Over
    <3>5. \A f \in Sock : Agent!Served(f) => Agent!Served(f)'
      BY <3>1, ServiceKeeps
    <3>6. call'[t] = "ok" => Agent!Served(target[t])
      BY <1>0, <3>2, <3>4 DEF StaysServed
    <3>7. Pinned(t) => Agent!Served(env[t].AuthSock)
      BY <1>0, <3>2 DEF StaysServed
    <3>8. target[t] \in Sock /\ target'[t] = target[t] /\ env'[t] = env[t]
      BY <2>0, <3>2
    <3> QED BY <3>3, <3>5, <3>6, <3>7, <3>8 DEF Pinned, Agent!Served
  <2>3. CASE Pin(s)
    <3>1. UNCHANGED <<call, target, up, link, deaths, gone>> /\ env' = [env EXCEPT ![s].AuthSock = target[s]]
          /\ call[s] = "ok"
      BY <2>3 DEF Pin, service, machine
    <3>2. env'[t].AuthSock = env[t].AuthSock \/ env'[t].AuthSock = target[s]
      BY <2>0, <3>1 DEF Env
    <3>3. Agent!Served(target[s])
      BY <1>0, <3>1 DEF StaysServed
    <3>4. env'[t].AuthSock # NoSock => Agent!Served(env'[t].AuthSock)
      BY <1>0, <3>1, <3>2, <3>3 DEF StaysServed, Pinned
    <3> QED BY <1>0, <3>1, <3>4 DEF StaysServed, Pinned, Agent!Served
  <2>4. CASE AskpassEnv(s)
    <3>1. UNCHANGED <<call, target, up, link, deaths, gone>>
      BY <2>4 DEF AskpassEnv, service, machine
    <3>2. env'[t].AuthSock = env[t].AuthSock
      BY <2>0, <2>4 DEF AskpassEnv, Env
    <3> QED BY <1>0, <3>1, <3>2 DEF StaysServed, Pinned, Agent!Served
  <2>5. CASE Ensure(s)
    <3>1. UNCHANGED <<up, link, deaths, gone, env>>
      BY <2>5 DEF Ensure, Agent!Begin, service, machine
    <3>2. call'[t] = "ok" => call[t] = "ok" /\ target'[t] = target[t]
      BY <2>0, <2>5 DEF Ensure, Agent!Begin, service
    <3> QED BY <1>0, <3>1, <3>2 DEF StaysServed, Pinned, Agent!Served
  <2>6. CASE DirectoryGone(s)
    <3>1. UNCHANGED <<up, link, deaths, gone, env, target>> /\ (call'[t] = "ok" => call[t] = "ok")
      BY <2>0, <2>6 DEF DirectoryGone, Agent!Over, shell, machine
    <3> QED BY <1>0, <3>1 DEF StaysServed, Pinned, Agent!Served
  <2>7. CASE BrokerAnswers(s) \/ TokenStep(s) \/ CallFails(s) \/ NotPinned(s) \/ KeysLoaded(s)
    <3>1. UNCHANGED <<deaths, gone, call, target, env, up, link>>
      BY <2>7 DEF BrokerAnswers, TokenStep, CallFails, NotPinned, KeysLoaded, Agent!CallFails,
                  service, shell, machine
    <3> QED BY <1>1, <3>1
  <2> QED BY <1>2, <2>1, <2>2, <2>3, <2>4, <2>5, <2>6, <2>7 DEF Hook
<1>3. CASE AgentDies
  <2>1. deaths' = deaths + 1 /\ deaths \in Nat
    BY <1>3 DEF AgentDies, Agent!Die, SessionTypeInv
  <2> QED BY <1>0, <2>1
<1>4. CASE RuntimeDirMoves
  BY <1>0, <1>1, <1>4 DEF RuntimeDirMoves, service, shell
<1>5. CASE UNCHANGED allVars
  BY <1>1, <1>5 DEF allVars, service, shell, machine
<1> QED BY <1>2, <1>3, <1>4, <1>5 DEF SessionNext

(***************************************************************************)
(* One agent.                                                              *)
(***************************************************************************)

\* A step of a call that is alone starts an agent only where there is none.
LEMMA AloneStep ==
    ASSUME SessionTypeInv, OneAtATime, deaths = 0, ~gone, ~overlapped,
           NEW s \in Shell,
           Agent!Clear(s) \/ Agent!Start(s) \/ Agent!Return(s) \/ Agent!Adopt(s)
    PROVE  /\ \A f, g \in up' : f = g
           /\ \A t, r \in Shell : Agent!Pending(t)' /\ Agent!Pending(r)' => t = r
           /\ \A t \in Shell : Agent!Pending(t)' /\ seen'[t] = {} => up' \subseteq {target'[t]}
<1> USE DEF SessionTypeInv, SessionTypeOK, OneAtATime, Agent!Pending
<1>1. CASE Agent!Clear(s) \/ Agent!Adopt(s)
  BY <1>1 DEF Agent!Clear, Agent!Adopt
<1>2. CASE Agent!Start(s)
  <2>1. up = {}
    BY <1>2 DEF Agent!Start, Agent!Served
  <2> QED BY <1>2, <2>1 DEF Agent!Start
<1>3. CASE Agent!Return(s)
  <2>1. Agent!Over(s, "ok") \/ Agent!Over(s, "error")
    BY <1>3 DEF Agent!Return
  <2> QED BY <2>1 DEF Agent!Over
<1> QED BY <1>1, <1>2, <1>3

\* No step makes a second agent while calls do not overlap.
LEMMA OneAtATimeStep ==
    ASSUME SessionInv, [SessionNext]_allVars PROVE OneAtATime'
<1> USE DEF SessionInv
<1>0. SUFFICES ASSUME deaths' = 0, ~gone', ~overlapped'
               PROVE  /\ \A f, g \in up' : f = g
                      /\ \A t, r \in Shell : Agent!Pending(t)' /\ Agent!Pending(r)' => t = r
                      /\ \A t \in Shell : Agent!Pending(t)' /\ seen'[t] = {} => up' \subseteq {target'[t]}
  BY DEF OneAtATime
<1>1. CASE UNCHANGED <<deaths, gone, overlapped, call, seen, target, up>>
  BY <1>0, <1>1 DEF OneAtATime, Agent!Pending
<1>2. ASSUME NEW s \in Shell, Hook(s)
      PROVE  /\ \A f, g \in up' : f = g
             /\ \A t, r \in Shell : Agent!Pending(t)' /\ Agent!Pending(r)' => t = r
             /\ \A t \in Shell : Agent!Pending(t)' /\ seen'[t] = {} => up' \subseteq {target'[t]}
  <2>1. CASE AgentStep(s)
    <3>1. Agent!Clear(s) \/ Agent!Start(s) \/ Agent!Return(s) \/ Agent!Adopt(s)
      BY <2>1 DEF AgentStep
    <3>2. deaths = 0 /\ ~gone /\ ~overlapped
      BY <1>0, <2>1, <3>1 DEF AgentStep, machine, history, Agent!Clear, Agent!Start, Agent!Return,
                              Agent!Adopt, Agent!Over
    <3> QED BY <3>1, <3>2, AloneStep
  <2>2. CASE Ensure(s)
    <3>1. CASE UNCHANGED <<service, overlapped>>
      BY <1>1, <2>2, <3>1 DEF Ensure, service, machine
    <3>2. CASE ~ UNCHANGED <<service, overlapped>>
      <4>1. /\ Agent!Begin(s, Socket(s)) /\ UNCHANGED gone
            /\ overlapped' = (overlapped \/ \E t \in Shell : Agent!Pending(t))
        BY <2>2, <3>2 DEF Ensure, machine
      <4>2. deaths = 0 /\ ~gone /\ ~overlapped /\ \A t \in Shell : ~Agent!Pending(t)
        BY <1>0, <4>1 DEF Agent!Begin
      <4>3. \A f, g \in up : f = g
        BY <4>2 DEF OneAtATime
      <4>4. /\ \A t \in Shell : call'[t] = "pending" => t = s
            /\ up' = up /\ seen'[s] = up
        BY <4>1, <4>2 DEF Agent!Begin, Agent!Pending, SessionTypeInv, SessionTypeOK
      <4> QED BY <4>3, <4>4 DEF Agent!Pending
    <3> QED BY <3>1, <3>2
  <2>3. CASE DirectoryGone(s)
    <3>1. UNCHANGED <<up, target, deaths, gone, overlapped>> /\ Agent!Over(s, "error")
      BY <2>3 DEF DirectoryGone, Agent!Over, machine, history
    <3>2. \A t \in Shell : call'[t] = "pending" => call[t] = "pending" /\ seen'[t] = seen[t]
      BY <3>1 DEF Agent!Over, SessionTypeInv, SessionTypeOK
    <3> QED BY <1>0, <3>1, <3>2 DEF OneAtATime, Agent!Pending
  <2>4. CASE Login(s) \/ Nested(s) \/ BrokerAnswers(s) \/ TokenStep(s) \/ CallFails(s) \/ Pin(s)
             \/ NotPinned(s) \/ KeysLoaded(s) \/ AskpassEnv(s)
    <3>1. UNCHANGED <<deaths, gone, overlapped, call, seen, target, up>>
      BY <2>4 DEF Login, Nested, Open, BrokerAnswers, TokenStep, CallFails, Pin, NotPinned, KeysLoaded,
                  AskpassEnv, Agent!CallFails, service, machine, history
    <3> QED BY <1>1, <3>1
  <2> QED BY <1>2, <2>1, <2>2, <2>3, <2>4 DEF Hook
<1>3. CASE AgentDies
  <2>1. deaths' = deaths + 1 /\ deaths \in Nat
    BY <1>3 DEF AgentDies, Agent!Die, SessionTypeInv
  <2> QED BY <1>0, <2>1
<1>4. CASE RuntimeDirMoves
  BY <1>0, <1>1, <1>4 DEF RuntimeDirMoves, service, history
<1>5. CASE UNCHANGED allVars
  BY <1>1, <1>5 DEF allVars, service, machine, history
<1> QED BY <1>2, <1>3, <1>4, <1>5 DEF SessionNext

(***************************************************************************)
(* One place.                                                              *)
(***************************************************************************)

\* A shell has its place from XDG_RUNTIME_DIR and the directories there are.
LEMMA PlaceStays ==
    ASSUME NEW s \in Shell, UNCHANGED <<exists, owned>>, env'[s].RuntimeDir = env[s].RuntimeDir
    PROVE  Place(s)' = Place(s)
BY DEF Place, resolveRuntimeDir, ProbeDir, Probe

\* Whether or not the environment names the runtime directory, it is found.
LEMMA PlacesMeet ==
    ASSUME NEW s \in Shell, NEW t \in Shell, SameBase(s, t),
           Place(s) \in owned, Place(t) \in owned
    PROVE  Place(s) = Place(t)
BY DirAssumption DEF SameBase, Place, resolveRuntimeDir, ProbeDir, Probe

\* Once a shell has settled, nobody writes the key, and a settled shell holds it.
LEMMA SettledKey ==
    ASSUME TokenInv, failures = 0, failures' = 0, NEW r \in settled, NEW s \in Shell, TokenStep(s)
    PROVE  key' = key /\ settled \subseteq settled'
<1>1. step[s] # "create"
  BY DEF TokenInv, StaysSettled, Settled
<1>2. key' = key
  BY <1>1 DEF TokenStep, Search, Read, Create, ReadBack, Goto
<1>3. settled \subseteq settled'
  BY <1>1 DEF TokenStep, Search, Read, Create, ReadBack, Return, Goto
<1> QED BY <1>2, <1>3

\* Every step of a working keyring, in directories that stay, keeps shells together.
LEMMA OnePlaceStep ==
    ASSUME SessionInv, [SessionNext]_allVars PROVE OnePlace'
<1> USE DEF SessionInv
<1>0. SUFFICES ASSUME failures' = 0, moves' = 0, NEW t \in Shell
               PROVE  /\ pc'[t] \in {"token", "agent", "loadkeys"} => base'[t] = Place(t)'
                      /\ pc'[t] = "agent" => base'[t] \in owned' /\ target'[t] = <<base'[t], token'[t]>>
                      /\ t \in sure' => /\ t \in settled' /\ Place(t)' \in owned'
                                        /\ env'[t].AuthSock = <<Place(t)', key'>>
                                        /\ giveup'[t] \in {NoSock, <<Place(t)', key'>>}
  BY DEF OnePlace
<1>01. /\ env \in [Shell -> Env] /\ pc \in [Shell -> {"closed", "broker", "token", "agent", "loadkeys",
                                                     "askpass", "ready"}]
       /\ target \in [Shell -> Sock] /\ base \in [Shell -> Dir] /\ giveup \in [Shell -> Sock \cup {NoSock}]
       /\ token \in [Shell -> Token] /\ failures \in Nat /\ moves \in Nat
       /\ sure \subseteq Shell /\ settled \subseteq Shell
  BY TokenAssumption DEF SessionTypeInv, SessionTypeOK, TypeOK
<1> DEFINE Placed == /\ pc[t] \in {"token", "agent", "loadkeys"} => base[t] = Place(t)
                     /\ pc[t] = "agent" => base[t] \in owned /\ target[t] = <<base[t], token[t]>>
                     /\ t \in sure => /\ t \in settled /\ Place(t) \in owned
                                      /\ env[t].AuthSock = <<Place(t), key>>
                                      /\ giveup[t] \in {NoSock, <<Place(t), key>>}
<1>02. failures = 0 /\ moves = 0 => Placed
  BY DEF OnePlace
<1>1. CASE UNCHANGED <<pc, base, target, token, sure, settled, env, giveup, key, exists, owned, failures, moves>>
  BY <1>0, <1>02, <1>1, PlaceStays
<1>2. ASSUME NEW s \in Shell, Hook(s), ~ UNCHANGED allVars PROVE Placed'
  <2>0. failures = 0 /\ moves = 0 /\ UNCHANGED <<exists, owned>>
    <3>1. UNCHANGED <<moves, exists, owned>>
      BY <1>2 DEF Hook, Login, Nested, Open, BrokerAnswers, TokenStep, Ensure, AgentStep, CallFails,
                  DirectoryGone, Pin, NotPinned, KeysLoaded, AskpassEnv, machine
    <3>2. UNCHANGED failures \/ Failing
      BY <1>2 DEF Hook, Login, Nested, Open, BrokerAnswers, TokenStep, Search, Read, Create, ReadBack,
                  Ensure, AgentStep, CallFails, DirectoryGone, Pin, NotPinned, KeysLoaded, AskpassEnv,
                  Agent!Begin, Agent!Clear, Agent!Start, Agent!Return, Agent!Adopt, Agent!Over, vars
    <3> QED BY <1>0, <1>01, <3>1, <3>2 DEF Failing
  <2>00. Placed /\ owned' = owned
    BY <1>02, <2>0
  <2>01. env'[t].RuntimeDir = env[t].RuntimeDir => Place(t)' = Place(t)
    BY <2>0, PlaceStays
  <2>1. CASE Login(s) \/ Nested(s)
    <3>1. PICK e \in Env : Open(s, e)
      BY <2>1, OpensWithEnv
    <3>2. /\ UNCHANGED <<key, token, settled, target, giveup, sure>>
          /\ pc[s] = "closed" /\ env' = [env EXCEPT ![s] = e]
          /\ \/ pc' = [pc EXCEPT ![s] = "broker"] /\ UNCHANGED base
             \/ pc' = [pc EXCEPT ![s] = "token"] /\ base' = [base EXCEPT ![s] = resolveRuntimeDir(e, Probe)]
      BY <3>1 DEF Open, ShellInit, Advance, vars, service, history
    <3>3. s \notin sure
      BY <3>2 DEF CallInStep, Before
    <3>4. CASE t = s
      <4>1. Place(t)' = resolveRuntimeDir(e, Probe)
        BY <1>01, <2>0, <3>2, <3>4 DEF Place, Probe
      <4> QED BY <1>01, <2>00, <3>2, <3>3, <3>4, <4>1
    <3>5. CASE t # s
      BY <1>01, <2>00, <2>01, <3>2, <3>5
    <3> QED BY <3>4, <3>5
  <2>2. CASE TokenStep(s)
    <3>1. UNCHANGED <<pc, base, target, sure, env, giveup>> /\ pc[s] \in {"token", "loadkeys"}
      BY <2>2 DEF TokenStep, service, shell, history
    <3>2. pc'[t] = "agent" => token'[t] = token[t]
      BY <2>2, <3>1, OwnToken DEF TokenInv
    <3>3. t \in sure => t \in settled' /\ key' = key
      BY <1>0, <2>0, <2>00, <2>2, SettledKey
    <3> QED BY <2>00, <2>01, <3>1, <3>2, <3>3
  <2>3. CASE Ensure(s)
    <3>1. UNCHANGED <<key, token, settled, env, base, giveup, sure>> /\ pc[s] = "token"
      BY <2>3 DEF Ensure, Advance
    <3>2. CASE /\ pc' = [pc EXCEPT ![s] = "agent"] /\ Agent!Begin(s, Socket(s))
               /\ base[s] \in owned
      BY <1>01, <2>00, <2>01, <3>1, <3>2 DEF Agent!Begin, Socket, WithSocketToken
    <3>3. CASE pc' = [pc EXCEPT ![s] = "ready"] /\ UNCHANGED target
      BY <1>01, <2>00, <2>01, <3>1, <3>3
    <3> QED BY <2>3, <3>2, <3>3 DEF Ensure, Advance, Creatable, Probe, service
  <2>4. CASE AgentStep(s) \/ CallFails(s) \/ DirectoryGone(s)
    <3>1. UNCHANGED <<pc, base, target, token, sure, settled, env, giveup, key>>
      BY <2>4 DEF AgentStep, CallFails, DirectoryGone, Agent!Clear, Agent!Start, Agent!Return,
                  Agent!Adopt, Agent!Over, Agent!CallFails, shell, history
    <3> QED BY <2>00, <2>01, <3>1
  <2>5. CASE Pin(s)
    <3>1. /\ UNCHANGED <<key, token, settled, target, giveup>> /\ pc[s] = "agent"
          /\ env' = [env EXCEPT ![s].AuthSock = target[s]]
          /\ sure' = IF s \in settled THEN sure \cup {s} ELSE sure
          /\ \/ pc' = [pc EXCEPT ![s] = "loadkeys"] /\ base' = [base EXCEPT ![s] = Place(s)]
             \/ pc' = [pc EXCEPT ![s] = "ready"] /\ UNCHANGED base
      BY <1>01, <2>5 DEF Pin, LoadKeys, Place, Advance, service
    <3>2. giveup[s] = NoSock /\ s \notin sure
      BY <3>1 DEF CallInStep
    <3>3. CASE t = s
      <4>1. target[s] = <<Place(s), token[s]>> /\ Place(s) \in owned
        BY <2>00, <3>1, <3>3
      <4>2. s \in settled => token[s] = key
        BY <2>0 DEF TokenInv, StaysSettled
      <4>3. env'[s].AuthSock = target[s] /\ env'[s].RuntimeDir = env[s].RuntimeDir
        BY <1>01, <3>1 DEF Env
      <4>4. pc'[s] \in {"loadkeys", "ready"} /\ (pc'[s] = "loadkeys" => base'[s] = Place(s))
        BY <1>01, <3>1
      <4>5. s \in sure' => s \in settled
        BY <3>1, <3>2
      <4> QED BY <2>00, <2>01, <3>1, <3>2, <3>3, <4>1, <4>2, <4>3, <4>4, <4>5
    <3>4. CASE t # s
      <4>1. pc'[t] = pc[t] /\ base'[t] = base[t] /\ env'[t] = env[t] /\ (t \in sure' => t \in sure)
        BY <1>01, <3>1, <3>4
      <4> QED BY <2>00, <2>01, <3>1, <4>1
    <3> QED BY <3>3, <3>4
  <2>6. CASE KeysLoaded(s)
    <3>1. /\ UNCHANGED <<key, token, settled, target, env, base, sure>> /\ pc[s] = "loadkeys"
          /\ pc' = [pc EXCEPT ![s] = "askpass"] /\ giveup' = [giveup EXCEPT ![s] = <<base[s], token[s]>>]
      BY <2>6 DEF KeysLoaded, Advance, GiveupDir, Socket, WithSocketToken, vars, service, history
    <3>2. s \in settled => token[s] = key
      BY <2>0 DEF TokenInv, StaysSettled
    <3>3. CASE t = s
      BY <1>01, <2>00, <2>01, <3>1, <3>2, <3>3
    <3>4. CASE t # s
      BY <1>01, <2>00, <2>01, <3>1, <3>4
    <3> QED BY <3>3, <3>4
  <2>7. CASE AskpassEnv(s)
    <3>1. /\ UNCHANGED <<key, token, settled, target, giveup, base, sure>>
          /\ pc' = [pc EXCEPT ![s] = "ready"]
      BY <2>7 DEF AskpassEnv, Advance, vars, service, history
    <3>2. env'[t].AuthSock = env[t].AuthSock /\ env'[t].RuntimeDir = env[t].RuntimeDir
      BY <1>01, <2>7 DEF AskpassEnv, Env
    <3>3. pc'[t] = pc[t] \/ pc'[t] = "ready"
      BY <1>01, <3>1
    <3> QED BY <2>00, <2>01, <3>1, <3>2, <3>3
  <2>8. CASE BrokerAnswers(s) \/ NotPinned(s)
    <3>1. /\ UNCHANGED <<key, token, settled, target, giveup, base, sure, env>>
          /\ pc' = [pc EXCEPT ![s] = "ready"]
      BY <2>8 DEF BrokerAnswers, NotPinned, Advance, vars, service, history
    <3>3. pc'[t] = pc[t] \/ pc'[t] = "ready"
      BY <1>01, <3>1
    <3> QED BY <2>00, <2>01, <3>1, <3>3
  <2> QED BY <1>2, <2>1, <2>2, <2>3, <2>4, <2>5, <2>6, <2>7, <2>8 DEF Hook
<1>3. CASE AgentDies
  BY <1>1, <1>3 DEF AgentDies, Agent!Die, shell, machine, history
<1>4. CASE RuntimeDirMoves
  BY <1>0, <1>01, <1>4 DEF RuntimeDirMoves
<1>5. CASE UNCHANGED allVars
  BY <1>1, <1>5 DEF allVars, vars, service, shell, machine, history
<1> QED BY <1>2, <1>3, <1>4, <1>5 DEF SessionNext

(***************************************************************************)
(* The theorems.                                                           *)
(***************************************************************************)

\* The invariants, in every behaviour.
LEMMA SessionInvariant == SessionSpec => []SessionInv
<1>1. SessionInit => SessionInv
  <2> SUFFICES ASSUME SessionInit PROVE SessionInv
    OBVIOUS
  <2>1. TokenInv
    BY InitToken DEF SessionInit
  <2>2. CallInStep
    BY DEF SessionInit, CallInStep, Before, After
  <2>3. OnePlace
    BY DEF SessionInit, OnePlace
  <2>4. StaysServed
    BY DEF SessionInit, StaysServed, Pinned, LoggedOut
  <2>5. OneAtATime
    BY DEF SessionInit, OneAtATime, Agent!Pending
  <2> QED BY SessionTypeInit, <2>1, <2>2, <2>3, <2>4, <2>5 DEF SessionInv
<1>2. SessionInv /\ [SessionNext]_allVars => SessionInv'
  BY SessionTypeStep, TokenInvStep, CallInStepStep, OnePlaceStep, StaysServedStep, OneAtATimeStep
     DEF SessionInv
<1> QED BY <1>1, <1>2, PTL DEF SessionSpec

(* Every variable keeps its type in every order of hooks, deaths and       *)
(* directories: a shell's socket is one of a directory that it can ask     *)
(* for.  (nn-ssh-init-linux.sh with all it runs.)                          *)
THEOREM SessionTypeCorrect == SessionSpec => []SessionTypeOK
BY SessionInvariant, PTL DEF SessionInv, SessionTypeInv

(* What SocketToken promises stands when its shells are those of a session,*)
(* nested ones and later system calls that fail included.                  *)
THEOREM ShellsAgreeOnToken == SessionSpec => []SettledShellsAgree
<1>1. SessionInv => SettledShellsAgree
  BY DEF SessionInv, TokenInv, StaysSettled, SettledShellsAgree
<1> QED BY <1>1, SessionInvariant, PTL

(* The shells that found the token settled are pinned to one socket, in    *)
(* any number, nested or not, with or without XDG_RUNTIME_DIR, unless it   *)
(* names another directory.  (Resolve, SocketToken and the export of the   *)
(* hook.)                                                                  *)
THEOREM ShellsPinTogether == SessionSpec => []PinnedTogether
<1>1. SessionInv => PinnedTogether
  BY PlacesMeet DEF SessionInv, SessionTypeInv, OnePlace, PinnedTogether
<1> QED BY <1>1, SessionInvariant, PTL

(* load-keys, a process of its own, looks for give-up records beside the   *)
(* socket its shell is pinned to.  (main.go giveupDir, Resolve.)           *)
THEOREM GiveupsFollowSocket == SessionSpec => []GiveupBesideSocket
<1>1. SessionInv => GiveupBesideSocket
  BY DEF SessionInv, SessionTypeInv, OnePlace, GiveupBesideSocket
<1> QED BY <1>1, SessionInvariant, PTL

(* An SSH_AUTH_SOCK that was exported leads to a live agent whatever later *)
(* shells do, for as long as no agent ends and the directory stays.        *)
THEOREM PinnedShellsStayServed == SessionSpec => []PinnedStaysServed
<1>1. SessionInv => PinnedStaysServed
  BY DEF SessionInv, StaysServed, PinnedStaysServed
<1> QED BY <1>1, SessionInvariant, PTL

(* Shells that come one after the other share one agent, whatever tokens   *)
(* and directories they find.                                              *)
THEOREM ShellsShareOneAgent == SessionSpec => []OneAgent
<1>1. SessionInv => OneAgent
  <2> SUFFICES ASSUME SessionInv, deaths = 0, ~gone, ~overlapped PROVE Cardinality(up) <= 1
    BY DEF OneAgent
  <2>1. \A f, g \in up : f = g
    BY DEF SessionInv, OneAtATime
  <2>2. CASE up = {}
    BY <2>2, FS_EmptySet
  <2>3. CASE up # {}
    <3>1. PICK f \in up : up = {f}
      BY <2>1, <2>3
    <3>2. Cardinality({f}) = 1
      BY FS_Singleton
    <3> QED BY <3>1, <3>2
  <2> QED BY <2>2, <2>3
<1> QED BY <1>1, SessionInvariant, PTL
=============================================================================
