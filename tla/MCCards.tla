------------------------------ MODULE MCCards ------------------------------
(***************************************************************************)
(* A small card: three rows of three numbers over four columns of three.   *)
(***************************************************************************)
EXTENDS Cards

Ranges == [c \in Cols |-> (3 * c + 1)..(3 * c + 3)]
=============================================================================
