-------------------------- MODULE MCConfirmToken ---------------------------
(***************************************************************************)
(* Small instance of ConfirmToken: calls, tokens and fingerprints are      *)
(* interchangeable.                                                        *)
(***************************************************************************)
EXTENDS ConfirmToken, TLC

Symmetry == Permutations(Calls) \cup Permutations(Tokens)
              \cup Permutations(Fingerprints)
=============================================================================
