--------------------------- MODULE MCSessionLog ----------------------------
(***************************************************************************)
(* A small instance of SessionLog: three processes, which may be permuted. *)
(***************************************************************************)
EXTENDS SessionLog

Symmetry == Permutations(Proc)
=============================================================================
