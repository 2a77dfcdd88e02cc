------------------------------ MODULE MCStartIo ------------------------------
(* Small instances of StartIo.                                             *)
EXTENDS StartIo, TLC

IrpSymmetry == Permutations(Irps)
=============================================================================
