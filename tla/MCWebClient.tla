---------------------------- MODULE MCWebClient -----------------------------
(***************************************************************************)
(* WebClient for TLC.  Activations, tokens and accounts are interchangeable*)
(* model values.                                                           *)
(***************************************************************************)
EXTENDS WebClient, TLC

Interchangeable == UNION {Permutations(S) : S \in {Task, Loader, Token, Account}}
=============================================================================
