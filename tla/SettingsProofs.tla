--------------------------- MODULE SettingsProofs ---------------------------
(***************************************************************************)
(* What TLAPS proves of Settings, for every text that the environment and  *)
(* the config file can hold.                                               *)
(***************************************************************************)
EXTENDS Settings, TLAPS

(* An environment as a shell without any SSHAKKU_ variable has it.         *)
NoEnviron == [KeyLifetime |-> Unset, MaxAttempts |-> Unset, GiveupTTL |-> Unset,
              NoGiveup |-> Unset, Quiet |-> Unset]

\* A duration is never negative: a malformed or negative one is the default.
LEMMA DurationType ==
    ASSUME NEW raw \in Number, NEW default \in Nat
    PROVE  Duration(raw, default) \in Nat
<1> SUFFICES raw \in Int => raw \notin {Empty, Malformed}
  BY DEF Duration, Number
<1> QED BY TextAssumption

\* The first of variable and file entry that is set is a number.
LEMMA CoalesceType ==
    ASSUME NEW var \in Number \cup {Unset}, NEW fileVal \in Number \cup {Unset}
    PROVE  coalesce(var, fileVal) \in Number
<1>1. Unset \notin Number
  BY TextAssumption DEF Number
<1>2. CASE var # Unset
  BY <1>2, <1>1 DEF coalesce
<1>3. CASE var = Unset /\ fileVal # Unset
  BY <1>3, <1>1 DEF coalesce
<1>4. CASE var = Unset /\ fileVal = Unset
  BY <1>4, <1>1 DEF coalesce, Number
<1> QED BY <1>2, <1>3, <1>4

\* The number of attempts is one that a loop can count to.
LEMMA MaxAttemptsType ==
    ASSUME NEW var, NEW fileVal \in Int \cup {Unset}
    PROVE  resolveMaxAttempts(var, fileVal) \in Nat
<1>1. EnvInt(var) \in Nat
  BY DEF EnvInt
<1>2. CASE var # Unset /\ EnvInt(var) > 0
  BY <1>1, <1>2 DEF resolveMaxAttempts
<1>3. CASE ~(var # Unset /\ EnvInt(var) > 0) /\ fileVal # Unset /\ fileVal > 0
  BY <1>3 DEF resolveMaxAttempts
<1>4. CASE ~(var # Unset /\ EnvInt(var) > 0) /\ ~(fileVal # Unset /\ fileVal > 0)
  BY <1>4 DEF resolveMaxAttempts
<1> QED BY <1>2, <1>3, <1>4

\* A switch is on or off.
LEMMA BoolType ==
    ASSUME NEW var \in BOOLEAN \cup {Unset}, NEW fileVal \in BOOLEAN \cup {Unset}
    PROVE  resolveBool(var, fileVal) \in BOOLEAN
<1>1. CASE var # Unset
  BY <1>1 DEF resolveBool
<1>2. CASE var = Unset /\ fileVal # Unset
  BY <1>2 DEF resolveBool
<1>3. CASE var = Unset /\ fileVal = Unset
  BY <1>3 DEF resolveBool
<1> QED BY <1>1, <1>2, <1>3

(* Whatever the user wrote into the environment and the file, numbers or   *)
(* not, a shell gets settings the rest of the program can take: no         *)
(* duration and no count is negative, no parse error is left over.         *)
(* (config.Resolve.)                                                       *)
THEOREM ResolveTotal ==
    ASSUME NEW file \in File, NEW environ \in Environ
    PROVE  Resolve(file, environ) \in SettingsType
<1> DEFINE conf == Resolve(file, environ)
<1>1. /\ DefaultKeyLifetime \in Nat
      /\ DefaultGiveupTTL \in Nat
  BY DEF DefaultKeyLifetime, DefaultGiveupTTL
<1>2. Duration(coalesce(environ.KeyLifetime, file.KeyLifetime), DefaultKeyLifetime) \in Nat
  <2>1. coalesce(environ.KeyLifetime, file.KeyLifetime) \in Number
    BY CoalesceType DEF Environ, File
  <2> QED BY <2>1, <1>1, DurationType
<1>3. Duration(coalesce(environ.GiveupTTL, file.GiveupTTL), DefaultGiveupTTL) \in Nat
  <2>1. coalesce(environ.GiveupTTL, file.GiveupTTL) \in Number
    BY CoalesceType DEF Environ, File
  <2> QED BY <2>1, <1>1, DurationType
<1>4. resolveMaxAttempts(environ.MaxAttempts, file.MaxAttempts) \in Nat
  BY MaxAttemptsType DEF File
<1>5. resolveBool(environ.NoGiveup, file.NoGiveup) \in BOOLEAN
  BY BoolType DEF Environ, File
<1>6. resolveBool(environ.Quiet, file.Quiet) \in BOOLEAN
  BY BoolType DEF Environ, File
<1> QED BY <1>2, <1>3, <1>4, <1>5, <1>6 DEF Resolve, SettingsType

(* A file that cannot be read leaves the file's share of the settings      *)
(* unset, so that Resolve takes any outcome of Load.                       *)
THEOREM LoadTotal ==
    ASSUME NEW disk \in Disk PROVE Load(disk) \in File
<1>1. NoFile \in File
  BY DEF NoFile, File
<1> QED BY <1>1 DEF Load, Disk

(* A variable that is set decides its setting in either direction, with    *)
(* whatever the file says and with whatever it says itself, the empty text *)
(* and a malformed one included.  (CONFIGURATION.md:45-48; coalesce and    *)
(* resolveBool.)                                                           *)
THEOREM EnvironmentDecides ==
    ASSUME NEW f \in File, NEW g \in File, NEW environ \in Environ
    PROVE  /\ environ.KeyLifetime # Unset =>
                Resolve(f, environ).KeyLifetime = Resolve(g, environ).KeyLifetime
           /\ environ.GiveupTTL # Unset =>
                Resolve(f, environ).GiveupTTL = Resolve(g, environ).GiveupTTL
           /\ environ.NoGiveup # Unset =>
                Resolve(f, environ).NoGiveup = Resolve(g, environ).NoGiveup
           /\ environ.Quiet # Unset =>
                Resolve(f, environ).Quiet = Resolve(g, environ).Quiet
<1>1. \A var, a, b : var # Unset => coalesce(var, a) = coalesce(var, b)
  BY DEF coalesce
<1>2. \A var, a, b : var # Unset => resolveBool(var, a) = resolveBool(var, b)
  BY DEF resolveBool
<1>3. environ.KeyLifetime # Unset =>
        coalesce(environ.KeyLifetime, f.KeyLifetime) = coalesce(environ.KeyLifetime, g.KeyLifetime)
  BY <1>1
<1>4. environ.GiveupTTL # Unset =>
        coalesce(environ.GiveupTTL, f.GiveupTTL) = coalesce(environ.GiveupTTL, g.GiveupTTL)
  BY <1>1
<1> QED BY <1>2, <1>3, <1>4 DEF Resolve

(* The number of attempts is the exception: the environment decides only   *)
(* with a number above zero.  What it is otherwise, malformed, empty or    *)
(* below one, is the same as no variable, and the file decides.            *)
(* (resolveMaxAttempts; CONFIGURATION.md:18 has the default instead.)      *)
THEOREM BadAttemptsAreNone ==
    ASSUME NEW file \in File, NEW environ \in Environ,
           environ.MaxAttempts \in Int => environ.MaxAttempts < 1
    PROVE  Resolve(file, environ).MaxAttempts = Resolve(file, NoEnviron).MaxAttempts
<1>1. \A var : (var \in Int => var < 1) => EnvInt(var) = 0
  BY DEF EnvInt
<1>2. EnvInt(environ.MaxAttempts) = 0
  BY <1>1
<1>3. \A a : resolveMaxAttempts(environ.MaxAttempts, a) = resolveMaxAttempts(Unset, a)
  BY <1>2 DEF resolveMaxAttempts
<1>4. NoEnviron.MaxAttempts = Unset
  BY DEF NoEnviron
<1> QED BY <1>3, <1>4 DEF Resolve
=============================================================================
