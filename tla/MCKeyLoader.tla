---------------------------- MODULE MCKeyLoader -----------------------------
(***************************************************************************)
(* Small instances of KeyLoader: a graphical shell beside another one or   *)
(* one on a bare terminal, one broker, one or two keys.                    *)
(***************************************************************************)
EXTENDS KeyLoader, TLC

CONSTANTS s1, s2, c1, p1, p2

Symmetry == Permutations(Shell) \cup Permutations(Pass)

Plain == [KeyLifetime |-> Unset, MaxAttempts |-> Unset, GiveupTTL |-> Unset,
          NoGiveup |-> Unset, Quiet |-> Unset]

\* A config file that lets a key have n attempts.
FileOf(n) == [Plain EXCEPT !.MaxAttempts = n]
One == FileOf(1)
Two == FileOf(2)

\* The shells of a user who changes no setting, or sets a TTL of zero ...
PlainShells == {[s \in Shell |-> Plain]}
NeverShells == {[s \in Shell |-> [Plain EXCEPT !.GiveupTTL = 0]]}
RecordingShells == PlainShells \cup NeverShells

\* ... or who switches giving up off in one shell.
OffShells ==
    {[s \in Shell |-> [Plain EXCEPT !.NoGiveup = (s = off)]] : off \in Shell}
=============================================================================
