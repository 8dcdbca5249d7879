---------------------------- MODULE MCNamespace ----------------------------
(***************************************************************************)
(* Instances of Namespace for TLC.  Names are compared for equality only,  *)
(* so those of one class are interchangeable.                              *)
(***************************************************************************)
EXTENDS Namespace

ShortNames == Names \ (FullNames \cup LongNames)

NameSymmetry == Permutations(ShortNames)

=============================================================================
