-------------------------- MODULE MCCollectionTabs --------------------------
(***************************************************************************)
(* CollectionTabs for TLC.                                                 *)
(***************************************************************************)
EXTENDS CollectionTabs, TLC

\* An activation is nothing but its place in edits.
MCSymmetry == Permutations(Edit)
=============================================================================
