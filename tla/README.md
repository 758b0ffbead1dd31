# TLA+ models of sshakku

sshakku is a login helper: it keeps one `ssh-agent` per login healthy on a
fixed socket, loads the user's keys into it, and answers ssh's passphrase
prompts from the wallet. This directory holds TLA+ models of its core, the TLC
configurations that check them on small instances, and theorems with proofs
that TLAPS checks.

Every shell that starts runs sshakku. Shells start at the same moment (a
terminal that restores its tabs, a graphical session, an ssh login), they are
closed at any moment, and what they share is owned by nobody: agent processes,
socket files, the kernel keyring, the wallet, small files. That is where the
code is hard, and what the models are about.

## The system

| Part | State | Operations | Interacts through |
| --- | --- | --- | --- |
| agent lifecycle, `internal/agent/ensure.go`, `manage.go` | locals of one call | `EnsureAgent`, `Reap`, `healthyForeign`, `Start`, `adoptSymlink`, `clearStalePath` | processes, signals, socket files |
| start lock, `lock_unix.go` | flock on `.start.lock` | `Lock`, unlock | other logins |
| inspector and prober, `inspect.go`, `reach.go` | none | `Agents`, `Reachable` | procfs, sockets |
| socket token, `internal/paths/token_linux.go` | one entry of the user keyring | `SocketToken` | the shells of a login |
| key loader, `internal/keys/load.go` | locals of one call | `LoadKeys` and what it calls | agent, wallet, give-up records |
| handoff to ssh-add, `keyadd_unix.go`, `cmd/sshakku/main.go` | one keyring entry per attempt | `AddWithAskpass`, `askpassFromKeyring` | ssh-add, kernel keyring |
| give-up store, `internal/giveup` | one file per key | `GivenUp`, `Record`, `Clear` | other shells |
| askpass broker, `internal/keys/askpass.go` | none | `Answer` | wallet, terminal |
| wallet backend, `internal/keys/secret.go` | the Secret Service | `Lookup`, `Store` | loader, broker |
| session log, `internal/sessionlog` | one file of at most 100 lines | `Log`, `trim` | every process |
| configuration, `internal/config` | none | `Resolve` | environment, TOML file |
| runtime paths, `internal/paths` | directories | `Resolve`, `Ensure`, `CleanupLegacyAgentDir` | environment, file system |
| login hook, `nn-ssh-init-linux.sh` | the environment of a shell | `shell-init`, `load-keys`, `askpass-env` | everything above |

What makes each part correct:

- *agent lifecycle*: no healthy agent is harmed; no competitor is started beside
  one; one agent of ours per socket; a shell is not left on a dead socket; a
  login ends, whatever hangs, and does not fail on another one's debris;
- *socket token*: the shells of a login agree on one token;
- *key loader and its stores*: a key whose passphrase is known is loaded
  silently; retries are bounded; a key given up is left alone and a give-up
  record lasts; the wallet holds working passphrases; a passphrase handed over
  through the keyring does not stay there;
- *session log*: a line is lost only to newer ones, or to a race at the cut;
- *login hook*: the shells of a login share one socket, one agent and one place for
  give-up records, and a socket that was exported stays served.

## The modules

| Module | What it is |
| --- | --- |
| `AgentWorld` | what sshakku acts upon: agent processes, socket files, symlinks, and the faults. It also holds the ways the code reads them (`Agents`, `Reachable`) and changes the file system (`removeSocket`, `clearStalePath`). |
| `EnsureAgent` | `EnsureAgent` and `shell-init` as a process per login; extends `AgentWorld` |
| `AgentService` | what `EnsureAgent` promises its callers: the abstract specification |
| `AgentRefinement` | the mapping under which `EnsureAgent` implements `AgentService` |
| `SocketToken` | `SocketToken` as a process per shell |
| `Paths` | the choice of the base directory and the socket in it, as functions |
| `LoginSession` | the login hook of every shell: composes `SocketToken`, `Paths` and `AgentService` |
| `Settings` | `config.Load` and `Resolve` as functions |
| `KeyLoader` | `load-keys` as a process per shell, with ssh-add and its askpass helper, the give-up store, and the broker as a process per ssh client; extends `Settings` |
| `SessionLog` | `Log` and `trim` as a process per command |
| `EnsureAgentProofs`, `SocketTokenProofs`, `SettingsProofs`, `KeyLoaderProofs`, `LoginSessionProofs`, `SessionLogProofs` | theorems about the module each is named for |
| `TurnsProofs` | theorems about `EnsureAgent` that rest on its lock; extends `EnsureAgentProofs` |
| `AgentRefinementProofs` | the theorem that `EnsureAgent` implements `AgentService`; extends `TurnsProofs` |
| `MCEnsureAgent`, `MCLoginSession`, `MCKeyLoader`, `MCSessionLog` | instances for TLC |

### AgentWorld and EnsureAgent

A login is a program counter `pc[l]` and the locals of the call: `todo` (the
procfs entries its current loop has not reached), `victim`, `reaped`, `foreign`,
`started`. A step is one read or one change of the world, so everything else
comes between a probe and what the login does about its answer:

| `pc` | Actions | Code |
| --- | --- | --- |
| idle | `ShellInit` | `shellInit` up to `runEnsure`, with `CleanupLegacyAgentDir` |
| probe | `FastProbe` | the probe before the lock |
| lock | `AcquireLock`, `LockTimeout` | `FlockLocker.Lock`; after the bounded wait it goes on without the lock |
| recheck | `Recheck` | the probe under the lock |
| scan, reap, terminate, unlink | `ReapScan`, `ReapProbe`, `Terminate`, `Unlink` | `Reap`, one procfs entry at a time |
| survey | `SurveyScan`, `SurveyProbe` | `healthyForeign`, and the choice that follows |
| startprobe, startunlink, spawn, await, record | `ClearStalePath`, `StartProbe`, `StartUnlink`, `Spawn`, `Await`, `Record` | `clearStalePath`, `Manager.Start`, `ExecRunner.Start`, `WriteState` |
| symlink, rename | `RemoveTmp`, `Symlink`, `Rename` | `adoptSymlink` |
| unlock | `Unlock` | the deferred release |

`Fail` is a failing system call at any step that can return an error, and
`LoginCrash` a closed terminal, on which the kernel drops the flock.

The world is external. An agent started with `-a` binds its path or exits when
something lies there, answers unless it is stalled, and on SIGTERM unlinks its
path *by name*, which by then may belong to another agent (`lateExit`). The
fixed path may hold a socket or a symlink to an adopted agent; `Trail` follows
symlinks to any depth and through cycles.

Two history variables state the main properties. `steady[l]` is the set of
agents that were healthy when `l` began and that nothing but `l` itself can have
harmed since: a step of anything else removes the agents it harms, a step of
`l` removes none. `serving[l]` is the agent a login's shell was given. They are
read by no action.

Abstractions: procfs is read in one step, where the code reads entry by entry
(a process that vanishes in the scan is skipped by the code, too, and one that
appears is the same as one that appears before); an agent has one pid, where
`ssh-agent` forks once before it announces itself; a pid is used once; the state
file is only written, because nothing in the program reads it back (`ReadState`
has no caller), so the model keeps that writing can fail and not what is
written; `removeSocket` and `clearStalePath` look at a path and remove what lies
there in one step, where the code makes two calls, `Lstat` and `Remove`.

### AgentService and the refinement

`AgentService` says what a caller of `EnsureAgent` may rely on, without locks,
probes, procfs or signals: a call that returns "ok" leaves its socket served
unless an agent has died; a call that fails had a system call fail; no socket
loses its agent or is led elsewhere but by a death; an agent is started only on
a socket that is not served, and only when no agent was there to adopt ever
since the call began (`seen`). `AgentRefinement` maps it onto `EnsureAgent`: `up` is
the set of paths where a healthy agent is bound (`HealthyPaths`), a call is pending
while its login runs (`CallState`), `seen` is `steady` (`SeenPaths`). The promise holds
when logins on one fixed socket take turns and agents fail only by dying, which are
the faults of the run `Orderly`; every other run that is about races or hangs leaves
those conditions.

### SocketToken, Paths and LoginSession

`Search`, `Read`, `Create` (draw and add) and `ReadBack` are the system calls of
`SocketToken`, each of which may fail. `Paths` has `Resolve` (XDG_RUNTIME_DIR if it
exists, else `/run/user/UID` if it is ours, else the cache directory),
`WithSocketToken`, and what `Ensure` can create. A path is the pair of directory and
token.

`LoginSession` is the hook `nn-ssh-init-linux.sh` in every shell: `Login` and `Nested`
open a shell with a fresh or an inherited environment; `TokenStep`, `Ensure`,
`AgentStep`, `Pin` are `shell-init` up to the export of SSH_AUTH_SOCK; `LoadKeys` and
`KeysLoaded` are the `load-keys` process, which resolves directory and token anew;
`AskpassEnv` is `askpass-env`, and `BrokerAnswers` what becomes of a command that
inherits SSHAKKU_ASKPASS. `EnsureAgent` appears in it as the `AgentService` it
implements, for as many sockets as there are directories and tokens. That it
implements the service is shown for one fixed socket. Between two, the lock of one
does not bind the other: the `Reap` of a login can take the agent that a login on
another socket has just executed for dead, and signal it before it binds. In
`LoginSession` this is one of the things `CallFails` and `AgentDies` stand for.
`RuntimeDirMoves` makes `/run/user/UID` appear and disappear, with the sockets in it.

XDG_RUNTIME_DIR is not set or names any directory of `Named`, and each directory is
the user's own or not (`owned`). The code takes the variable at its word, without
asking for the owner: a shell of `su` that has kept the directory of another user is
refused by `Ensure` and gets no agent, and a shell that names another directory of
the user's has its own socket there, which leads to the agent of the others.

Shells with different tokens are logins with different `Fixed[l]` in `EnsureAgent`:
its theorems are for any assignment.

### Settings

`Resolve(file, environ)` gives the settings of a shell: `coalesce`, `resolveMaxAttempts`
and `resolveBool` are the code's. A text is a number, a truth value, empty, malformed or
not set; `Load` turns a missing or broken file into one without entries. A shell of
`KeyLoader` resolves its settings from its environment and the common file at the
start, so the number of attempts and the kind of give-up store in a run are what
`Resolve` makes of the environments the instance names.

### KeyLoader

A shell goes through its keys in directory order; `CurrentKey(s)` is the first of
`todo[s]`. For each: `Dedup` against the snapshot, `GivenUp` (and `Prune`, the
removal that is a step of its own), then in a graphical session `Lookup` as
attempt 0 and `Prompt` for attempts 1 to `max`, else `AddOnTerminal`. An attempt
with a passphrase is `Stash`, `SetTimeout`, then ssh-add as a process of its own:
`AddPlain`, or `HelperRead` and `HelperUnlink` by the askpass helper followed by
`Verify`. `AddFails` is any other non-zero exit, the kill after a minute
included, which the code cannot tell from a wrong passphrase; an ssh-add that is
killed may have added the key (`Adding`). `AddAbandoned` is an ssh-add that cannot be
run, or that has added the key when its minute is over, which `runSSHAdd` returns as
an error: the loader goes on to the next key and records nothing. An agent that does
not answer `ssh-add -l` has an empty snapshot, and a record that cannot be read
counts as none. Success goes through
`StorePassphrase` to `ClearGiveup`, exhaustion through `TruncateRecord` to
`StampRecord`. A writer holds the *file* it opened: when the record is removed
under it (`RemoveRecord`), what it writes has no name any more.

A loader that is killed leaves a detached ssh-add running (`dead`). Keys expire
from the agent, records age, keyring entries expire, users change passphrases.
The broker stores what is typed before anyone has tried it, as the code does.

`held[s]` and `filled[s]` are history: the keys given up, and the keys whose right
passphrase was in the wallet, all the time since `s` took its snapshot.

### SessionLog

`Call`, `AppendLine` (one write with O_APPEND), `ReadLog`, `Truncate` and `WriteBack` are the
system calls of `Log` and `trim`; `Crash` ends a process inside them. The file is a
sequence of characters, each the line it belongs to or a line end, because the
text that is written back lands on top of what others have appended since the
truncation, whatever the lengths.

## What is checked

| Run | Question | Instance | Distinct states |
| --- | --- | --- | --- |
| `Harm` | does a login harm or overlook a healthy agent? | 2 logins on one socket, 4 pids; an agent stalls, dies or starts | 530 000, up to symmetry |
| `Orderly` | one agent per socket, no stranded shell, a live socket on success, no error over debris, and the agent service implemented, when logins take turns | 2 logins, 4 pids; an agent dies or a system call fails | 1.0 million, up to symmetry |
| `Ends` | does every login end, with an exec of `ssh-agent` that may never return; does it still do no harm and not fail on what is left behind? | 2 logins, 3 pids; a login dies anywhere, or a signalled agent exits late, or the lock is given up | 490 000 |
| `Loader` | silent refills, give-ups respected, wallet entries that worked, records that last | 2 graphical shells, a broker, 1 key, 2 passphrases, records that expire or never do, one fault of the wallet, the keyring or the shell itself, one change of passphrase | 1.5 million, up to symmetry |
| `LoaderEnds` | do shells end, and do keyring entries? | a graphical and a terminal shell, one of them with giving up off, 1 key that has no fingerprint, 2 attempts from the config file, two faults of ssh-add, the agent or the disk | 560 000 |
| `Log` | what does the log keep under concurrent writers? | 3 processes, 5 lines of length 1 or 3, a log of 2 lines, one death | 770 000, up to symmetry |
| `Session` | do the shells of a user agree on token, socket, agent and give-up records? | 3 shells, fresh or nested, 2 in the hook at a time, 3 directories, with the usual owners or with `/run/user/UID` another's; one system call fails, agent dies or directory moves | 5.4 million, up to symmetry |

Initial states are every landscape earlier sessions can have left: agents alive,
dead, of other users, without a socket argument, stale sockets, a fixed path that
is a link to an adopted agent or to nothing, a leftover `.adopt` link; for the
loader any wallet (right, wrong, blank, empty), any keys in the agent and any
records. A log starts empty, and the races and the death of the run give it every
shape it can take. A run therefore needs little room: each property is about what two
actors do to each other, and two logins and a fault at any point already produce
every pair of interleaved steps. Bounds are `Budget` (faults per kind) with
`MaxFaults` (in all), `PidsSuffice` (enough pids for every agent that can be started),
`MaxFaults`, `MaxRekeys` and `MaxAttempts` of the loader, `Failures`, `AtOnce`, `MaxEvents`,
`MaxCalls`, `MaxCrashes`. Three processes at the log are enough for one to append
between the truncation and the write of another while a third one trims; lines of
length 1 and 3 make what is written over appended lines shorter than one, longer
than two, and leave remainders that are lines by themselves. Deadlock is not checked because every process of these models comes to an
end. Symmetry of logins, shells, passphrases and log processes is used for safety
only.

Five runs show where the code departs from what the sources say:

- `LegacyKilled`: `shell-init` unlinks `~/.ssh/agent/ssh-agent.sock` without asking
  whether its agent is alive; the agent is then unreachable and is reaped. The
  threat model says never to kill a reachable agent.
- `SuccessDead`: `Reap` does not wait for the agent it signals. When that agent was
  told to bind the fixed path and exits only after a new one has bound it, it removes
  the new socket, and `EnsureAgent` reports success. The instance has no path but the
  fixed one, so there is no agent to adopt; where there is one, the late exit takes
  the link to it in the same way. `SuccessIsLive` passes in `Orderly`, where signals
  are never late.
- `TokenSplit`: a creator that reads back before a racing creator's write keeps a
  token nobody else has; that login has two fixed sockets and two agents. What does
  hold, and `Session` checks, is that every shell that returns once all racing
  writes are over agrees with the keyring (`SettledShellsAgree`).
- `RecordLost`: a shell that found an expired or half-written record removes, by
  name, the fresh record another shell has put there since. A half-written one is
  the file `WriteFile` has just truncated, which a reader takes for malformed. The sibling property
  `NeverExpiringStays` shows that with a zero TTL, where the code returns before
  it judges the age, this cannot happen.
- `NestedShell`: `askpass-env` exports SSHAKKU_ASKPASS=1 into an interactive shell, and
  `main` takes every command that inherits it for an askpass call. The hook of a login
  shell opened inside (tmux, `bash -l`) then gets no assignments, and no agent is
  checked or started, where the hook says that `shell-init` keeps one healthy.

Other departures the models contain and no run singles out: an agent that
becomes healthy between its probe and the signal is signalled (`manage.go:73-74`);
`clearStalePath` can remove the live socket of an agent of ours that bound after
the survey (`manage.go:50-51`); a failure to write the state file fails the whole
login (`manage.go:61`); a loader killed between `Add` and `SetTimeout` leaves a
passphrase in the keyring (`keyadd_unix.go:24-26`); the log can hold more than its
limit of lines until the next undisturbed `Log` (`sessionlog.go:1-2`); and when two
trims overlap, the longer text leaves a remainder behind the shorter one, which the
next trim counts as lines, so that a recent line both had kept is dropped. When the
last session takes `/run/user/UID` away, the shells that stay (nohup, tmux) keep an
SSH_AUTH_SOCK that is stale (`nn-ssh-init-linux.sh:7-8`). Agents without `-a` are
passed over, and a competitor is started beside a healthy one.

### What the conditions of the properties mean

`DoNoHarm`, `NoCompetitor` hold whatever the faults, lock or no lock: they rest on
probing each agent right before acting on it, not on mutual exclusion.
`OneOfOurs`, `NoShellStranded` and `ImplementsService` need the lock: they are checked
where it is never given up, no login dies holding it and agents neither stall nor
start by themselves. They fail without these conditions, rightly: a login that gave
the lock up may start a second agent. `NoSpuriousError` excepts failing system calls
and expired waits, the second because another login then acts between two steps
of one; stalls, late signals, killed logins and foreign agents are no excuse. `SilentRefill` excepts faults, since a failed lookup makes the
loader prompt by design. `StashIsShortLived` is checked without `crash` and
`settimeout`, the two faults under which it does not hold. `GivenUpIsLeftAlone` needs a
disk that works (`DiskWorks`): a record that cannot be read is none.

`PinnedTogether` and `GiveupBesideSocket` are about shells that found the token settled
(`sure`), with a keyring that works and a runtime directory that stays. The first is
about shells with one and the same XDG_RUNTIME_DIR, or with the canonical one and
none (`SameBase`): one that names any other existing directory parts from them.
`PinnedStaysServed` holds until an agent dies or the directory goes. The hook promises
more, a socket that never goes stale (`nn-ssh-init-linux.sh:7-8`), but nothing in the
program can change the environment of a running shell. `OneAgent` is about shells
whose calls do not overlap, because two that disagree on the token hold two locks.
`SoleWriterKept` is about a `Log` that meets no other one, after any history;
`LostOnlyToTrim` names the only ways a recent line can go: behind the back of a trim,
with two trims that overlap, or with a process that dies between truncating and
writing (`exposed`).

### Fairness

Weak fairness of a process says that an operating system keeps running one that
has a step. It is given to the steps that end by themselves, and to no others:

- *`EnsureAgent`*: `LoginFairness` is about every step of a login. Probes have deadlines,
  the wait for the lock is bounded. The exec of `ssh-agent` has no timeout: `Await` waits
  for an agent to come up. `FairSpec` adds weak fairness of the agent that was started
  or signalled; `HungSpec` (run `Ends`) does not, and `LoginTerminates` lets a login stay at
  a start of its own that never comes up. The lock is never assumed fair: a login
  that waits may be passed by others, each of which ends, and there are finitely
  many.
- *`KeyLoader`*: `Fairness` is about `Machine`: the give-up records, the keyring, and ssh-add
  with a key, which is killed after a minute, on the terminal, too. `Waits` gets no
  fairness. A graphical dialog (`Prompt`) waits for its user. `ExecRunner.Run` has no
  timeout, so `ssh-add -l` (`Snapshot`) may wait for an agent that has stalled,
  `secret-tool` (`Lookup`, `StorePassphrase`) for a wallet that asks to be unlocked, and
  `ssh-keygen` (`Dedup`) for a disk. `NoEndlessRetry` says that a shell ends or comes to
  rest at one of these five (`Rest`), and nowhere else.
- Keyring entries with a timeout expire because the kernel's clock advances.

## What is proved

All theorems are for any number of processes and any values of the other
constants, under the assumptions the modules declare. TLC evaluates these in the
runs, and checks each property on a small instance.

`EnsureAgentProofs`, from these: pids are a finite set of positive numbers; fixed
sockets are paths; `NoPath` and `NoLogin` are nothing else; the legacy socket is not a
fixed one.

- `TypeCorrect`: `Spec => []TypeOK`. It needs more than the types: the adopted pid is
  the minimum of the survey, and the agent awaited is the one started. `TypeInv` adds
  what a login holds between its steps (`CallOK`: every pid it holds has been
  started, and so has a socket argument that stays what it was).
- `LoginsDoNoHarm`: `Spec => []DoNoHarm`.
- `LoginsStartNoCompetitor`: `Spec => []NoCompetitor`.

Neither property is inductive. `HarmInv` strengthens both: for every agent in
`steady[l]`, what login `l` has read so far *spares* it. It is not the victim; while
the survey runs it is still to be probed or already found; a login past the survey
without a find has no steady agent at all; and the socket a login is about to
clear or rename over is not one of a steady agent, unless a symlink or the path
itself leads the probe there first (`HealthyReachable`: a probe of the socket of a
healthy agent finds it, through any links). The step lemma splits on who moves:
`OwnStepHarmless` and `OwnStepSpares` for the login itself, and for everything else
the definition of `Remember`, which drops whatever such a step harms (`SteadyMeans`).

`SocketTokenProofs`:

- `TokenTypeCorrect`: a shell returns the empty token or one that somebody drew. What
  makes it inductive is `ReadersFind`: who has found or written the entry can read it,
  since nothing removes it.
- `SettledShellsConverge`: `Spec => []SettledShellsAgree`. `StaysSettled` is the
  invariant: once a shell has returned in a settled state, no shell misses the entry
  any more, so none writes.

`SettingsProofs`: `ResolveTotal` (settings of the right type from every environment and
file, malformed values included), `EnvironmentDecides` (a variable that is set decides
its setting, but for the number of attempts) and `BadAttemptsAreNone` (a number of
attempts in the environment that is malformed, empty or below one is as good as
not set: the file decides).

`KeyLoaderProofs`, from these: shells and ssh clients are different; keys are a finite
set of numbers; blank lines and absence are no passphrases; environments and file
are of the type of `Settings`; the bound `MaxAttempts` is one. It uses `ResolveTotal`.

- `LoaderTypeCorrect`: `Spec => []TypeOK`, the bound on attempts included. `TypeInv`
  adds that a shell between two keys has none at work and one at work has some
  left. That there is a first one (`FirstKey`) rests on the well-foundedness of `<`.
- `ShellsLeaveGivenUpAlone`: `Spec => []GivenUpIsLeftAlone`, with a disk that works;
- `LoadersStoreAccepted`: `Spec => LoaderStoresAccepted`;
- `NeverExpiringRecordsStay`: `Spec => NeverExpiringStays`. The three follow from
  `LoaderInv`: a shell about to prune has records that expire (`PrunesExpired`); past
  the check, its key is not among those held (`LeavesAlone`); the passphrase it is
  about to store is the one the helper handed to an ssh-add that accepted it
  (`StoresAccepted`).
- `RefillsAreSilent`: `Spec => []SilentRefill`. `RefillInv` follows the passphrase from
  the wallet through the keyring to ssh-add: the entry of an attempt is the shell's
  own and new (`EntryInv`), a filled key is tried with the passphrase the wallet holds
  (`FilledNow`), and neither it nor its entry is lost on the way (`Refills`).

`TurnsProofs`, from the assumptions of `EnsureAgentProofs`. Its theorems have
premises on the constants, since they fail without:

| Theorem | Property | Premises |
| --- | --- | --- |
| `LoginsDoNotFail` | `NoSpuriousError` | `OneSocket` |
| `LoginsStartOneAgent` | `OneOfOurs` | `OneSocket`, `Never(Disorder)` |
| `LoginsStrandNoShell` | `NoShellStranded` | `OneSocket`, `Never(Disorder)`, no legacy socket |
| `LoginsSucceedLive` | `SuccessIsLive` | `OneSocket`, `Never(Disorder)` but for stalls, no legacy socket |

`OneSocket`: all logins have one fixed socket, so one lock. With two, a login that
reaps can signal the agent the other has started and that has not bound yet.
`Never(Disorder)`: no lock is given up, no login dies, no agent stalls, is started by
another program, or exits late; these are the faults that let two actors at the
path at once, and the run `SuccessDead` shows one of them. Agents that die and
system calls that fail are allowed, in any number. `LegacySock = NoPath`: with a
legacy socket, `shell-init` makes a healthy agent unreachable (`LegacyKilled`), and an
adopted one may be that agent. Each run these properties are checked in is an
instance that satisfies the premises.

The invariants build on each other. `GroundInv` says what can lie in the file
system: only the fixed path is ever a symlink, never to itself; an agent that is
bound is bound where it was told to be; a survey lists no agent of the fixed socket.
`TurnsInv` is mutual exclusion and what it buys: who is between lock and unlock
holds the lock, has the agents that are `Coming` (executed, not yet bound, not
signalled) still before it while it reaps and none after, and finds path and
`.adopt` link as its own last step left them. It needs no `Never`: it is stated for as
long as no wait for the lock has expired, so it covers killed logins, whose
agents come up later. `NoSpuriousError` follows from it. `OrderlyInv` adds, while no
disorder has struck, that a login past the survey has no other `Current` agent on the
socket. `ServedInv` adds that the agent a shell was given is the one the fixed path
leads to, in every state of every other call.

`AgentRefinementProofs`: `EnsureAgentRefines` is `Spec => ImplementsService`, with the
premises of `LoginsStrandNoShell`. A step of a login maps to `Begin`, `Clear`, `Adopt`,
`Return` or `CallFails` of the service or to none, the bind of an agent to the
`Start` of the login that awaits it, the death of an agent to `Die`
(`LoginRefines`, `WorldRefines`). What `Start` demands, that no
agent was there to adopt all along, comes from `HarmInv`; `SteadyInv` adds that a login
remembers nothing outside its call.

`LoginSessionProofs`, from the assumptions of `SocketToken` and `LoginSession`:

- `SessionTypeCorrect`: `SessionSpec => []SessionTypeOK`;
- `ShellsAgreeOnToken`: `SettledShellsAgree` of `SocketToken`, in a session with nested
  shells and failures of every kind;
- `ShellsPinTogether` and `GiveupsFollowSocket`: `PinnedTogether` and
  `GiveupBesideSocket`, from `OnePlace`: while the runtime directory stays, a shell
  resolves to one directory (`Place`), which is the user's own once it is pinned, so its
  socket is a function of its environment and its token. `PlacesMeet`: two shells that
  got a directory of the user's, one by name and one by default, got the same;
- `PinnedShellsStayServed`: `PinnedStaysServed`, from `StaysServed`: from the return of a
  call to the export, and ever after, the socket is served;
- `ShellsShareOneAgent`: `OneAgent`, from `OneAtATime`: a call that is not overlapped has
  `seen` all that is served, so it adopts what there is.

`SessionLogProofs`, for any number of processes, lines and deaths, lines of any
length and any `MaxLines`:

- `LogTypeCorrect`: `Spec => []TypeOK`: whatever is appended, cut and written over, the
  log stays a text. It needs room for the lines about to be appended, and the
  lemmas `Trimmed`, `CutText`, `JoinedTexts` and `Remainder` on what the operators
  keep of a text.
- `RecentLinesStay`: `Spec => []LostOnlyToTrim`. `RecentInv` follows a recent line: it
  stands in the log, or in what the one trim is to write, with no more lines behind
  it than were logged since (`Keeps`); between the truncation and the write, the lines
  that came to the log meanwhile are counted with those that will be behind it.
  `CutKeeps` is the core: a cut leaves a line with fewer than `MaxLines` behind it.
  The proof attempt showed the exception for overlapping trims to be needed.
- `SoleWritersKeep`: `Spec => SoleWriterKept`, from `SoleInv`: the line of a process that
  has met no other one is last in the log, and then in what it is to write.

These invariants can be given to TLC as they stand: they hold on the instances of
`Orderly`, `Ends`, `SuccessDead`, `Session` and `Log`.

Every invariant and action property of a passing run has its theorem. Only
model-checked are `LoginTerminates`, `NoEndlessRetry` and `StashIsShortLived`: liveness
is out of this prover's reach, as is `ENABLED`.

## What is not modelled

- parsing (procfs files, fingerprints, prompts, TOML), wording and log lines; the
  command lines of `secret-tool` and `ssh-add`;
- file modes, and owners but for that of the base directory, of which another user's
  is refused; the choice between XDG_CACHE_HOME and `~/.cache`;
- prompters and terminal modes, display detection: pure I/O;
- broker prompts that are not about a key, which are passed through;
- usage and errors of the command line, and the stand-alone `ensure-agent` command,
  which is the call `shell-init` makes;
- `ssh-init-macos.zsh`, a separate script without the Go core.

## Plan

Done: everything above. What may follow:

1. `EnsureAgent` with two fixed sockets: which of the properties that need turns hold
   when every login on the other socket counts as a fault, and the refinement in
   that form, so that `LoginSession` may use the service for several sockets;
2. `NoSpuriousError` after an expired wait, whose other login is an actor between two
   steps: which errors can then occur;
3. the safety part of `LoginTerminates`, a bound on the steps of a login, as a
   decreasing measure.
