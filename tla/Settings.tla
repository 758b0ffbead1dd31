------------------------------ MODULE Settings ------------------------------
(***************************************************************************)
(* internal/config: the settings of a shell, from its environment, the     *)
(* config file and the defaults.                                           *)
(*                                                                         *)
(* A text is what it parses to, or Empty or Malformed.  Durations are in   *)
(* minutes.  The text of a switch is TRUE when it is one of the recognised *)
(* affirmative words, else FALSE.                                          *)
(***************************************************************************)
EXTENDS Integers

CONSTANTS
    Unset,      \* no such variable, no such key in the file
    Empty,      \* the empty text
    Malformed   \* a text that does not parse

ASSUME TextAssumption ==
    /\ {Unset, Empty, Malformed} \cap (Int \cup BOOLEAN) = {}
    /\ Empty # Malformed /\ Unset \notin {Empty, Malformed}

DefaultKeyLifetime == 480
DefaultGiveupTTL == 60
defaultMaxAttempts == 3

Number == Int \cup {Empty, Malformed}

Environ ==
    [KeyLifetime : Number \cup {Unset}, MaxAttempts : Number \cup {Unset},
     GiveupTTL : Number \cup {Unset}, NoGiveup : BOOLEAN \cup {Unset},
     Quiet : BOOLEAN \cup {Unset}]

File ==
    [KeyLifetime : Number \cup {Unset}, MaxAttempts : Int \cup {Unset},
     GiveupTTL : Number \cup {Unset}, NoGiveup : BOOLEAN \cup {Unset},
     Quiet : BOOLEAN \cup {Unset}]

SettingsType ==
    [KeyLifetime : Nat, MaxAttempts : Nat, GiveupTTL : Nat, NoGiveup : BOOLEAN, Quiet : BOOLEAN]

NoFile == [KeyLifetime |-> Unset, MaxAttempts |-> Unset, GiveupTTL |-> Unset,
           NoGiveup |-> Unset, Quiet |-> Unset]

(* Load: no file, or one that is not TOML or gives a key the wrong type,   *)
(* reads as an empty one; unknown keys cost only themselves.               *)
Disk == {Unset, Malformed} \cup File

Load(disk) == IF disk \in {Unset, Malformed} THEN NoFile ELSE disk

(* KeyLifetime and GiveupTTL, which differ in the default only.            *)
Duration(raw, default) ==
    CASE raw \in {Empty, Malformed} -> default
      [] raw \in Int                -> IF raw < 0 THEN 0 ELSE raw

EnvInt(raw) == IF raw \in Int /\ raw >= 1 THEN raw ELSE 0

coalesce(var, fileVal) ==
    CASE var # Unset                     -> var
      [] var = Unset /\ fileVal # Unset -> fileVal
      [] OTHER                          -> Empty

(* 0 lets the loader use its own default.                                  *)
resolveMaxAttempts(var, fileVal) ==
    CASE var # Unset /\ EnvInt(var) > 0 -> EnvInt(var)
      [] ~(var # Unset /\ EnvInt(var) > 0) /\ fileVal # Unset /\ fileVal > 0 -> fileVal
      [] OTHER -> 0

resolveBool(var, fileVal) ==
    CASE var # Unset                     -> var
      [] var = Unset /\ fileVal # Unset -> fileVal
      [] OTHER                          -> FALSE

Resolve(file, environ) ==
    [KeyLifetime |-> Duration(coalesce(environ.KeyLifetime, file.KeyLifetime), DefaultKeyLifetime),
     MaxAttempts |-> resolveMaxAttempts(environ.MaxAttempts, file.MaxAttempts),
     GiveupTTL |-> Duration(coalesce(environ.GiveupTTL, file.GiveupTTL), DefaultGiveupTTL),
     NoGiveup |-> resolveBool(environ.NoGiveup, file.NoGiveup),
     Quiet |-> resolveBool(environ.Quiet, file.Quiet)]
=============================================================================
