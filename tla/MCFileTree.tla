---------------------------- MODULE MCFileTree ----------------------------
(* An instance of FileTree for TLC; file names are interchangeable.           *)
EXTENDS FileTree, TLC

NameSymmetry == Permutations(Names)
=============================================================================
