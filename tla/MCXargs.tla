------------------------------ MODULE MCXargs ------------------------------
(***************************************************************************)
(* Inputs for the model-checking runs of Xargs.                            *)
(***************************************************************************)
EXTENDS Xargs

\* Up to three items of one to three characters.
UpToThree == UNION {[0..(k - 1) -> 1..3] : k \in 0..3}

OneToFour == 1..4
Limits == {1, 6, 8, 9, 11, 13, 20}
=============================================================================
