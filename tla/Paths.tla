------------------------------- MODULE Paths --------------------------------
(***************************************************************************)
(* internal/paths: where the fixed socket of a login lies.  A path is a    *)
(* pair: the base directory, which depends on the environment and on what  *)
(* exists when a command asks, and the token, which all commands of a      *)
(* login should share (SocketToken).  The start lock, the state file and   *)
(* the give-up records lie beside the socket and go with the pair.         *)
(***************************************************************************)
EXTENDS Integers

CONSTANTS
    Dir,        \* base directories
    NoDir,      \* a variable that is not set: not a member of Dir
    RunUser,    \* /run/user/UID
    HomeCache   \* XDG_CACHE_HOME, or else ~/.cache

ASSUME DirAssumption == NoDir \notin Dir /\ RunUser \in Dir /\ HomeCache \in Dir

(* A probe answers which directories exist, and which of them are ours.    *)
ProbeDir(probe, d, requireOwner) ==
    d \in probe.exists /\ (requireOwner => d \in probe.owned)

\* Mutant: a login without XDG_RUNTIME_DIR does not look for /run/user/UID.
resolveRuntimeDir_NoGuess(env, probe) ==
    IF env.RuntimeDir # NoDir /\ ProbeDir(probe, env.RuntimeDir, FALSE)
      THEN env.RuntimeDir
      ELSE HomeCache

resolveRuntimeDir(env, probe) ==
    IF env.RuntimeDir # NoDir /\ ProbeDir(probe, env.RuntimeDir, FALSE)
      THEN env.RuntimeDir
      ELSE IF ProbeDir(probe, RunUser, TRUE)
             THEN RunUser
             ELSE HomeCache

(* Resolve, then WithSocketToken: the socket of a command.                 *)
WithSocketToken(base, token) == <<base, token>>

(* MkdirAll of the base: a directory under the home can be made, the ones  *)
(* of the system are there or not; one of another user refuses us.         *)
Creatable(probe, d) ==
    d \in probe.owned /\ (d \in probe.exists \/ d # RunUser)
=============================================================================
