---------------------------- MODULE MCEthernet ----------------------------
(* Instances of Ethernet for TLC.                                          *)
EXTENDS Ethernet, TLC

\* The blocks are alike: none is named in the specification.
BlockSymmetry == Permutations(Block)
=============================================================================
