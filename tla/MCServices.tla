----------------------------- MODULE MCServices -----------------------------
(***************************************************************************)
(* Services for TLC.  The sets of the .cfg files are model values, and any *)
(* permutation of the values of one set is a symmetry: no definition       *)
(* singles one out.                                                        *)
(***************************************************************************)
EXTENDS Services, TLC

Identifiers == UNION {Permutations(S) : S \in {UserID, CltID, Token, Nick, Hex, Req}}
=============================================================================
