------------------------- MODULE ConfirmTokenProofs -------------------------
(***************************************************************************)
(* Proofs about module ConfirmToken, for any sets of calls, tokens and     *)
(* fingerprints.                                                           *)
(***************************************************************************)
EXTENDS ConfirmToken, TLAPS

-----------------------------------------------------------------------------
(* Type correctness of the rail.                                           *)
LEMMA TokenTypeInit == TokenInit => TokenTypeOK
  BY DEF TokenInit, TokenTypeOK, Idle, CallRecord, Phase

LEMMA TokenTypeStep == TokenTypeOK /\ [TokenNext]_tokenVars => TokenTypeOK'
<1> SUFFICES ASSUME TokenTypeOK, [TokenNext]_tokenVars PROVE TokenTypeOK'
  OBVIOUS
<1> USE DEF TokenTypeOK, CallRecord, Phase
<1>1. ASSUME NEW t \in Tokens, NEW f \in Fingerprints, Issue(t, f) PROVE TokenTypeOK'
  BY <1>1 DEF Issue
<1>2. ASSUME NEW t \in Tokens, Expire(t) PROVE TokenTypeOK'
  BY <1>2 DEF Expire
<1>3. ASSUME NEW c \in Calls, NEW t \in Tokens \cup {None}, NEW f \in Fingerprints,
             Enter(c, t, f)
      PROVE TokenTypeOK'
  BY <1>3 DEF Enter
<1>4. ASSUME NEW c \in Calls, Get(c) PROVE TokenTypeOK'
  BY <1>4 DEF Get
<1>5. ASSUME NEW c \in Calls, Delete(c) PROVE TokenTypeOK'
  BY <1>5 DEF Delete
<1>6. ASSUME NEW c \in Calls, Abandon(c) PROVE TokenTypeOK'
  BY <1>6 DEF Abandon
<1>7. CASE UNCHANGED tokenVars
  BY <1>7 DEF tokenVars
<1> QED
  BY <1>1, <1>2, <1>3, <1>4, <1>5, <1>6, <1>7 DEF TokenNext

(* The store, the history and the calls of consume_confirm_token always    *)
(* have their types.                                                       *)
THEOREM TokenTypeCorrect == TokenSpec => []TokenTypeOK
  BY TokenTypeInit, TokenTypeStep, PTL DEF TokenSpec

-----------------------------------------------------------------------------
(* The inductive invariant.  The store holds a token's own fingerprint or  *)
(* nothing; a call past its cache.get presents the token's own             *)
(* fingerprint; a spent token was issued and has left the store for good,  *)
(* so a call that came late has been, or will be, refused.                 *)
StoreHonest == \A t \in Tokens : cache[t] \in {None, issued[t]}

Matched(c) == /\ call[c].token \in Tokens
              /\ issued[call[c].token] = call[c].fp

CallsMatch == \A c \in Calls : call[c].phase \in {"delete", "confirmed"} => Matched(c)

SpentGone == \A t \in Tokens : Spent(t) => cache[t] = None /\ issued[t] # None

LateRefused ==
    \A c \in Calls : call[c].late =>
        /\ call[c].token \in Tokens
        /\ Spent(call[c].token)
        /\ call[c].phase \in {"get", "refused"}

\* Only a call that was entered carries arguments, and its fingerprint is one.
ArgsGiven == \A c \in Calls : call[c].phase # "idle" => call[c].fp \in Fingerprints

TokenInv == /\ TokenTypeOK
            /\ StoreHonest
            /\ CallsMatch
            /\ SpentGone
            /\ LateRefused
            /\ ArgsGiven

LEMMA TokenInvInit == TokenInit => TokenInv
  BY TokenTypeInit
  DEF TokenInit, TokenInv, StoreHonest, CallsMatch, SpentGone, LateRefused,
      ArgsGiven, Spent, Idle

LEMMA TokenInvStep == TokenInv /\ [TokenNext]_tokenVars => TokenInv'
<1> SUFFICES ASSUME TokenInv, [TokenNext]_tokenVars PROVE TokenInv'
  OBVIOUS
<1>0. TokenTypeOK'
  BY TokenTypeStep DEF TokenInv
<1> USE <1>0, TokenAssumption
    DEF TokenInv, TokenTypeOK, StoreHonest, CallsMatch, Matched, SpentGone,
        LateRefused, ArgsGiven, Spent
<1>1. ASSUME NEW t \in Tokens, NEW f \in Fingerprints, Issue(t, f) PROVE TokenInv'
  BY <1>1 DEF Issue
<1>2. ASSUME NEW t \in Tokens, Expire(t) PROVE TokenInv'
  BY <1>2 DEF Expire
<1>3. ASSUME NEW c \in Calls, NEW t \in Tokens \cup {None}, NEW f \in Fingerprints,
             Enter(c, t, f)
      PROVE TokenInv'
  BY <1>3 DEF Enter, CallRecord, Phase
<1>4. ASSUME NEW c \in Calls, Get(c) PROVE TokenInv'
  BY <1>4 DEF Get, Matches, CallRecord, Phase
<1>5. ASSUME NEW c \in Calls, Delete(c) PROVE TokenInv'
  BY <1>5 DEF Delete, CallRecord, Phase
<1>6. ASSUME NEW c \in Calls, Abandon(c) PROVE TokenInv'
  BY <1>6 DEF Abandon, CallRecord, Phase
<1>7. CASE UNCHANGED tokenVars
  BY <1>7 DEF tokenVars
<1> QED
  BY <1>1, <1>2, <1>3, <1>4, <1>5, <1>6, <1>7 DEF TokenNext

(* TokenInv holds in every reachable state of the rail.                    *)
THEOREM TokenInvariant == TokenSpec => []TokenInv
  BY TokenInvInit, TokenInvStep, PTL DEF TokenSpec

(* A preview of A cannot be applied as B: consume_confirm_token returns    *)
(* True only for the fingerprint the token was issued for.                 *)
THEOREM PreviewBindingHolds == TokenSpec => []PreviewBinding
<1>1. TokenInv => PreviewBinding
  BY DEF TokenInv, CallsMatch, Matched, PreviewBinding
<1> QED
  BY <1>1, TokenInvariant, PTL

(* A retry cannot replay a token: a call that starts after the token was   *)
(* accepted returns False.                                                 *)
THEOREM RetryIsRefusedHolds == TokenSpec => []RetryIsRefused
<1>1. TokenInv => RetryIsRefused
  BY DEF TokenInv, LateRefused, RetryIsRefused
<1> QED
  BY <1>1, TokenInvariant, PTL
=============================================================================
