----------------------------- MODULE MCListing ------------------------------
(***************************************************************************)
(* Listing for TLC: colours 1 to 3, of which 2 and 3 share a perceptual    *)
(* key that sorts before that of 1.                                        *)
(***************************************************************************)
EXTENDS Listing

MCHex == {1, 2, 3}
MCFeel == [h \in MCHex |-> IF h = 1 THEN 5 ELSE 4]
=============================================================================
