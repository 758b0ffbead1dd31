--------------------------- MODULE MCLoginSession ---------------------------
(***************************************************************************)
(* Small instances of LoginSession.                                        *)
(***************************************************************************)
EXTENDS LoginSession, TLC

CONSTANTS run, cache, other

\* The user's own directories are the usual ones, with or without the first.
Usual == [exists : {{run, cache, other}, {cache, other}}, owned : {{run, cache}}]

\* XDG_RUNTIME_DIR may name one, and /run/user/UID is not the user's.
Unusual == [exists : {{run, cache, other}}, owned : {{cache, other}}]

AllMachines == Usual \cup Unusual

Symmetry == Permutations(Shell)
=============================================================================
