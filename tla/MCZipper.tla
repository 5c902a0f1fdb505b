------------------------------ MODULE MCZipper ------------------------------
(***************************************************************************)
(* Instances of Zipper for TLC.                                            *)
(***************************************************************************)
EXTENDS Zipper, TLC

CONSTANTS a0, a1

OneProxy == << a0 >>
TwoProxies == << a0, a1 >>

\* Servers are interchangeable in the safety run.
ServerSymmetry == Permutations(Servers)
=============================================================================
