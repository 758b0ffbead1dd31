---------------------------- MODULE LoginSession ----------------------------
(***************************************************************************)
(* The login hook (nn-ssh-init-linux.sh) in the shells of a user, each an  *)
(* environment that shell-init, load-keys and askpass-env read and extend  *)
(* and that nested shells inherit.                                         *)
(*                                                                         *)
(* It composes the other parts: every command asks SocketToken for the     *)
(* token, Paths for the base directory, and shell-init then asks the agent *)
(* service for an agent on the socket the two make.                        *)
(***************************************************************************)
EXTENDS SocketToken, Paths

CONSTANTS
    Named,      \* directories that XDG_RUNTIME_DIR may name
    Machines,   \* bound: what Probe may find in the beginning
    NoSock,     \* SSH_AUTH_SOCK is not set: not a socket
    AtOnce,     \* bound: shells inside the hook at a time
    MaxEvents   \* bound: system calls that fail, agents that die and times
                \*   that /run/user/UID comes or goes, in all

Sock == Dir \X Token

ASSUME SessionAssumption ==
    /\ Named \subseteq Dir /\ Machines \subseteq [exists : SUBSET Dir, owned : SUBSET Dir]
    /\ NoSock \notin Sock /\ MaxEvents \in Nat /\ AtOnce \in Nat

VARIABLES
    up, link, call, target, seen, deaths,   \* the agent service
    exists,     \* the base directories that exist
    owned,      \* those that are the user's own; they do not change hands
    pc,         \* pc[s]: the next step of the hook in shell s
    env,        \* env[s]: the environment of s, as far as sshakku reads it
    base,       \* base[s]: the base directory the running command resolved
    giveup,     \* giveup[s]: the socket beside which load-keys keeps records
    moves,      \* how often /run/user/UID has come or gone
    \* History variables.  They record and influence nothing.
    gone,       \* /run/user/UID has gone, with all sockets in it
    overlapped, \* two calls of the agent service were pending at once
    sure        \* the shells pinned to a token that was settled

service == <<up, link, call, target, seen, deaths>>
shell   == <<pc, env, base, giveup>>
machine == <<exists, owned, moves, gone>>
history == <<overlapped, sure>>
allVars == <<vars, service, shell, machine, history>>

Agent == INSTANCE AgentService WITH Client <- Shell

Env == [RuntimeDir : Named \cup {NoDir}, Askpass : BOOLEAN, AuthSock : Sock \cup {NoSock}]

(* The types of what the hook adds to SocketToken and the service.         *)
SessionTypeOK ==
    /\ TypeOK
    /\ up \in SUBSET Sock
    /\ link \in [Sock -> Sock \cup {NoSock}]
    /\ target \in [Shell -> Sock]
    /\ exists \in SUBSET Dir /\ owned \in SUBSET Dir
    /\ pc \in [Shell -> {"closed", "broker", "token", "agent", "loadkeys", "askpass",
                         "ready"}]
    /\ env \in [Shell -> Env]
    /\ base \in [Shell -> Dir]
    /\ giveup \in [Shell -> Sock \cup {NoSock}]

LoggedOut == [RuntimeDir |-> NoDir, Askpass |-> FALSE, AuthSock |-> NoSock]

SessionInit ==
    /\ Init
    /\ up = {} /\ link = [f \in Sock |-> NoSock]
    /\ call = [s \in Shell |-> "idle"]
    /\ target = [s \in Shell |-> <<HomeCache, NoToken>>]
    /\ seen = [s \in Shell |-> {}] /\ deaths = 0
    /\ \E probe \in Machines : exists = probe.exists /\ owned = probe.owned
    /\ pc = [s \in Shell |-> "closed"]
    /\ env = [s \in Shell |-> LoggedOut]
    /\ base = [s \in Shell |-> HomeCache]
    /\ giveup = [s \in Shell |-> NoSock]
    /\ moves = 0 /\ gone = FALSE /\ overlapped = FALSE /\ sure = {}

Advance(s, from, to) == pc[s] = from /\ pc' = [pc EXCEPT ![s] = to]

Eventful == failures + deaths + moves < MaxEvents

Probe == [exists |-> exists, owned |-> owned]

(***************************************************************************)
(* Shells open, and shell-init begins.                                     *)
(***************************************************************************)

(* main: under SSHAKKU_ASKPASS every command is the askpass broker, else   *)
(* shell-init resolves its base directory, then its token.                 *)
ShellInit(s, e) ==
    IF e.Askpass
      THEN Advance(s, "closed", "broker") /\ UNCHANGED base
      ELSE /\ Advance(s, "closed", "token")
           /\ base' = [base EXCEPT ![s] = resolveRuntimeDir(e, Probe)]

Open(s, e) ==
    /\ Cardinality({t \in Shell : pc[t] \notin {"closed", "ready"}}) < AtOnce
    /\ ShellInit(s, e)
    /\ env' = [env EXCEPT ![s] = e]
    /\ UNCHANGED <<vars, service, giveup, machine, history>>

(* A login: from a console, a display manager or sshd, with or without a   *)
(* session manager that sets XDG_RUNTIME_DIR; or a shell of su, which      *)
(* keeps the one of another user.                                          *)
Login(s) ==
    \E d \in Named \cup {NoDir} : Open(s, [LoggedOut EXCEPT !.RuntimeDir = d])

(* A login shell inside another one (tmux, bash -l): it inherits the       *)
(* environment.                                                            *)
Nested(s) == \E parent \in Shell : pc[parent] = "ready" /\ Open(s, env[parent])

(* The broker takes the command's name for a prompt that is no passphrase  *)
(* prompt, asks it on the terminal and prints the answer; no socket comes  *)
(* of it, and the hook returns.                                            *)
BrokerAnswers(s) ==
    /\ Advance(s, "broker", "ready")
    /\ UNCHANGED <<vars, service, env, base, giveup, machine, history>>

(***************************************************************************)
(* shell-init.                                                             *)
(***************************************************************************)
TokenStep(s) ==
    /\ pc[s] \in {"token", "loadkeys"}
    /\ Search(s) \/ Read(s) \/ Create(s) \/ ReadBack(s)
    /\ failures' # failures => Eventful
    /\ UNCHANGED <<service, shell, machine, history>>

Socket(s) == WithSocketToken(base[s], token[s])

(* paths.Ensure makes the directories, and EnsureAgent begins.  When they  *)
(* cannot be made shell-init exits and the hook returns.                   *)
Ensure(s) ==
    /\ step[s] = "done"
    /\ \/ /\ Creatable(Probe, base[s])
          /\ Advance(s, "token", "agent")
          /\ Agent!Begin(s, Socket(s))
          /\ overlapped' = (overlapped \/ \E t \in Shell : Agent!Pending(t))
          /\ UNCHANGED failures
       \/ /\ Advance(s, "token", "ready")
          /\ Creatable(Probe, base[s]) => Failing /\ Eventful
          /\ ~Creatable(Probe, base[s]) => UNCHANGED failures
          /\ UNCHANGED <<service, overlapped>>
    /\ UNCHANGED <<key, step, token, settled, env, base, giveup, machine, sure>>

(* EnsureAgent at work in a directory that is still there.  The agents     *)
(* there are to adopt are those that the hook has started.                 *)
AgentStep(s) ==
    /\ pc[s] = "agent" /\ base[s] \in exists
    /\ \/ Agent!Clear(s) \/ Agent!Start(s) \/ Agent!Return(s)
       \/ /\ Agent!Adopt(s)
          /\ \E t \in Shell : call[t] # "idle" /\ link'[target[s]] = target[t]
    /\ UNCHANGED <<key, step, token, settled, shell, machine, history>>

(* A system call of EnsureAgent fails, or the agent it is starting ends: a *)
(* call for another socket, made at the same time, took it for dead before *)
(* it had bound its socket.                                                *)
CallFails(s) ==
    /\ pc[s] = "agent" /\ Agent!Pending(s)
    /\ Failing /\ Eventful
    /\ Agent!CallFails
    /\ UNCHANGED <<key, step, token, settled, shell, machine, history>>

(* The directory of the socket is no longer there.                         *)
DirectoryGone(s) ==
    /\ pc[s] = "agent" /\ base[s] \notin exists
    /\ Agent!Over(s, "error")
    /\ UNCHANGED <<key, step, token, settled, shell, machine, history>>

(* load-keys is a process of its own: it resolves everything again.        *)
LoadKeys(s) ==
    /\ Advance(s, "agent", "loadkeys")
    /\ base' = [base EXCEPT ![s] = resolveRuntimeDir(env[s], Probe)]
    /\ step' = [step EXCEPT ![s] = "search"]

(* The hook evals the assignments and pins the shell; an interactive shell *)
(* goes on to load keys.                                                   *)
Pin(s) ==
    /\ call[s] = "ok"
    /\ env' = [env EXCEPT ![s].AuthSock = target[s]]
    /\ sure' = IF s \in settled THEN sure \cup {s} ELSE sure
    /\ LoadKeys(s) \/ (Advance(s, "agent", "ready") /\ UNCHANGED <<base, step>>)
    /\ UNCHANGED <<key, token, failures, settled, service, giveup, machine, overlapped>>

(* No assignments: the hook returns.                                       *)
NotPinned(s) ==
    /\ call[s] = "error"
    /\ Advance(s, "agent", "ready")
    /\ UNCHANGED <<vars, service, env, base, giveup, machine, history>>

(***************************************************************************)
(* The rest of load-keys, and askpass-env.                                 *)
(***************************************************************************)

\* Mutant: the records lie in the base directory, without the token.
GiveupDir_NoToken(s) == WithSocketToken(base[s], NoToken)

GiveupDir(s) == Socket(s)

(* What KeyLoader models goes on here, with its records beside the socket. *)
KeysLoaded(s) ==
    /\ step[s] = "done"
    /\ Advance(s, "loadkeys", "askpass")
    /\ giveup' = [giveup EXCEPT ![s] = GiveupDir(s)]
    /\ UNCHANGED <<vars, service, env, base, machine, history>>

(* GUIAvailable: a display that answers and an installed prompter, or not. *)
AskpassEnv(s) ==
    /\ Advance(s, "askpass", "ready")
    /\ \E available \in BOOLEAN : env' = [env EXCEPT ![s].Askpass = available]
    /\ UNCHANGED <<vars, service, base, giveup, machine, history>>

(***************************************************************************)
(* The machine.                                                            *)
(***************************************************************************)
(* An agent dies, or ends on the signal of a call for another socket that  *)
(* took it for dead while it was coming up.                                *)
AgentDies ==
    /\ Eventful
    /\ Agent!Die
    /\ UNCHANGED <<key, step, token, settled, shell, machine, history>>

\* Sockets in the directory d.
Within(d) == {f \in Sock : f[1] = d}

(* The session manager makes the user's /run/user/UID, or removes it and   *)
(* its sockets; the agents behind them go on unreachable.                  *)
RuntimeDirMoves ==
    /\ Eventful
    /\ RunUser \in owned
    /\ moves' = moves + 1
    /\ UNCHANGED owned
    /\ \/ /\ RunUser \notin exists
          /\ exists' = exists \cup {RunUser}
          /\ UNCHANGED <<service, gone>>
       \/ /\ RunUser \in exists
          /\ exists' = exists \ {RunUser}
          /\ gone' = TRUE
          /\ up' = up \ Within(RunUser)
          /\ link' = [f \in Sock |-> IF f \in Within(RunUser) THEN NoSock ELSE link[f]]
          /\ seen' = [s \in Shell |-> seen[s] \ Within(RunUser)]
          /\ UNCHANGED <<call, target, deaths>>
    /\ UNCHANGED <<vars, shell, history>>

Hook(s) ==
    \/ Login(s) \/ Nested(s)
    \/ BrokerAnswers(s) \/ TokenStep(s) \/ Ensure(s)
    \/ AgentStep(s) \/ CallFails(s) \/ DirectoryGone(s) \/ Pin(s) \/ NotPinned(s)
    \/ KeysLoaded(s) \/ AskpassEnv(s)

SessionNext == (\E s \in Shell : Hook(s)) \/ AgentDies \/ RuntimeDirMoves

SessionSpec == SessionInit /\ [][SessionNext]_allVars

(***************************************************************************)
(* Properties.                                                             *)
(***************************************************************************)
Pinned(s) == env[s].AuthSock # NoSock

\* XDG_RUNTIME_DIR is the same in s and t, or in each the user's canonical
\* directory or not set.
SameBase(s, t) ==
    \/ env[s].RuntimeDir = env[t].RuntimeDir
    \/ {env[s].RuntimeDir, env[t].RuntimeDir} = {NoDir, RunUser}

(* Shells that found the token settled are pinned to one socket, whether   *)
(* or not their environment names the runtime directory, as long as that   *)
(* directory neither comes nor goes.  One that names any other existing    *)
(* directory is taken at its word, and parts from them.                    *)
(* (Resolve, SocketToken and the export of the hook.)                      *)
PinnedTogether ==
    failures = 0 /\ moves = 0 =>
        \A s, t \in sure : SameBase(s, t) => env[s].AuthSock = env[t].AuthSock

(* Whatever later shells do, an SSH_AUTH_SOCK that was exported leads to a *)
(* live agent, nested shells included, until an agent ends or the runtime  *)
(* directory goes.  (The agent service under changing sockets.)            *)
PinnedStaysServed ==
    deaths = 0 /\ ~gone => \A s \in Shell : Pinned(s) => Agent!Served(env[s].AuthSock)

(* Shells that come one after the other share one agent, although they may *)
(* disagree on the token or on the base directory: a failing keyring or a  *)
(* runtime directory that appears late costs a link, not an agent.         *)
OneAgent ==
    deaths = 0 /\ ~gone /\ ~overlapped => Cardinality(up) <= 1

(* load-keys, a process of its own, finds the give-up records beside the   *)
(* socket its shell is pinned to, and so do all such shells: KeyLoader may *)
(* take the records for shared.                                            *)
GiveupBesideSocket ==
    failures = 0 /\ moves = 0 =>
        \A s \in sure : giveup[s] \in {NoSock, env[s].AuthSock}

(***************************************************************************)
(* A statement of the sources that the code does not live up to.           *)
(***************************************************************************)

(* nn-ssh-init-linux.sh:5-7, "`sshakku shell-init`, evaluated below, keeps *)
(* an ssh-agent healthy on a fixed socket": when the hook has run in a     *)
(* shell and nothing failed, shell-init has seen to the agent.             *)
EveryShellEnsures ==
    failures = 0 /\ moves = 0 =>
        \A s \in Shell : pc[s] = "ready" => call[s] = "ok"
=============================================================================
