---------------------------- MODULE ConfirmToken ----------------------------
(***************************************************************************)
(* The confirm-token rail of openedx_mcp/api/mcp/_rails.py:                *)
(* issue_confirm_token and consume_confirm_token over the ambient Django   *)
(* cache, called by any number of web workers at once.                     *)
(*                                                                         *)
(* One cache operation is atomic; the two operations of                    *)
(* consume_confirm_token (cache.get, then cache.delete) are two steps, and *)
(* anything may run between them.  A token is secrets.token_urlsafe(24),   *)
(* so a token that was issued once is never drawn again.  A fingerprint is *)
(* the SHA-256 of (tool, acting user, payload): here it is an opaque       *)
(* value, equal exactly when those three are equal.                        *)
(***************************************************************************)
CONSTANTS Calls,         \* the calls of consume_confirm_token
          Tokens,        \* the tokens secrets.token_urlsafe can draw
          Fingerprints,  \* the hashes of (tool, user, payload)
          None           \* no token in the request; no entry in the cache

ASSUME TokenAssumption == /\ None \notin Tokens
                          /\ None \notin Fingerprints

VARIABLES cache,   \* cache[t]: what is stored under mcp:confirm:t
          issued,  \* history: issued[t] is the fingerprint t was issued for
          call     \* call[c]: where consume call c is, and its arguments

tokenVars == <<cache, issued, call>>

-----------------------------------------------------------------------------
(* A call is outside ("idle"), before its cache.get ("get"), between its   *)
(* cache.get and its cache.delete ("delete"), or has returned True         *)
(* ("confirmed") or False ("refused").  late is a history field: a call    *)
(* with the same token had already returned True when this one started.    *)
Phase == {"idle", "get", "delete", "confirmed", "refused"}

CallRecord == [phase : Phase, token : Tokens \cup {None},
               fp : Fingerprints \cup {None}, late : BOOLEAN]

Idle == [phase |-> "idle", token |-> None, fp |-> None, late |-> FALSE]

TokenTypeOK ==
    /\ cache \in [Tokens -> Fingerprints \cup {None}]
    /\ issued \in [Tokens -> Fingerprints \cup {None}]
    /\ call \in [Calls -> CallRecord]

\* Some call that presented t has returned True.
Spent(t) == \E c \in Calls : call[c].phase = "confirmed" /\ call[c].token = t

TokenInit ==
    /\ cache = [t \in Tokens |-> None]
    /\ issued = [t \in Tokens |-> None]
    /\ call = [c \in Calls |-> Idle]

-----------------------------------------------------------------------------
\* Mistake: the token itself is stored, the arguments of cache.set swapped.
IssueSwapped(t, f) ==
    /\ issued[t] = None
    /\ issued' = [issued EXCEPT ![t] = f]
    /\ cache' = [cache EXCEPT ![t] = t]
    /\ UNCHANGED call

(* issue_confirm_token: draw a token nobody has, store its fingerprint.    *)
Issue(t, f) ==
    /\ issued[t] = None
    /\ issued' = [issued EXCEPT ![t] = f]
    /\ cache' = [cache EXCEPT ![t] = f]
    /\ UNCHANGED call

(* The entry leaves the cache: CONFIRM_TOKEN_TTL_SECONDS ran out, or the   *)
(* backend evicted it.                                                     *)
Expire(t) ==
    /\ cache[t] # None
    /\ cache' = [cache EXCEPT ![t] = None]
    /\ UNCHANGED <<issued, call>>

(* A worker enters consume_confirm_token(t, ...) for a request whose       *)
(* fingerprint is f.                                                       *)
Enter(c, t, f) ==
    /\ call[c].phase = "idle"
    /\ call' = [call EXCEPT ![c] = [phase |-> "get", token |-> t, fp |-> f,
                                    late |-> t # None /\ Spent(t)]]
    /\ UNCHANGED <<cache, issued>>

\* Mistake: any live token will do, the fingerprint is not compared.
MatchesAny(t, f) == t # None /\ cache[t] # None

\* `if not token`, `not stored` and `stored != fingerprint(...)` all refuse.
Matches(t, f) == t # None /\ cache[t] # None /\ cache[t] = f

(* stored = cache.get(ck), and the decision taken on it.                   *)
Get(c) ==
    /\ call[c].phase = "get"
    /\ call' = [call EXCEPT ![c].phase = IF Matches(call[c].token, call[c].fp)
                                         THEN "delete" ELSE "refused"]
    /\ UNCHANGED <<cache, issued>>

\* Mistake: the token is not burned.
DeleteForgotten(c) ==
    /\ call[c].phase = "delete"
    /\ call' = [call EXCEPT ![c].phase = "confirmed"]
    /\ UNCHANGED <<cache, issued>>

(* cache.delete(ck), which succeeds whether or not the entry is still      *)
(* there, and return True.                                                 *)
Delete(c) ==
    /\ call[c].phase = "delete"
    /\ call' = [call EXCEPT ![c].phase = "confirmed"]
    /\ cache' = [cache EXCEPT ![call[c].token] = None]
    /\ UNCHANGED issued

(* A cache operation raised, or the worker died: the call never returns.   *)
Abandon(c) ==
    /\ call[c].phase \in {"get", "delete"}
    /\ call' = [call EXCEPT ![c].phase = "refused"]
    /\ UNCHANGED <<cache, issued>>

TokenNext ==
    \/ \E t \in Tokens, f \in Fingerprints : Issue(t, f)
    \/ \E t \in Tokens : Expire(t)
    \/ \E c \in Calls, t \in Tokens \cup {None}, f \in Fingerprints : Enter(c, t, f)
    \/ \E c \in Calls : Get(c) \/ Delete(c) \/ Abandon(c)

TokenSpec == TokenInit /\ [][TokenNext]_tokenVars

-----------------------------------------------------------------------------
(* A call answers True only for the (tool, user, payload) the token was    *)
(* issued for: "a preview of A cannot be applied as B".                    *)
PreviewBinding ==
    \A c \in Calls : call[c].phase = "confirmed" =>
        /\ call[c].token \in Tokens
        /\ issued[call[c].token] = call[c].fp

(* A call that starts after another call with the same token has returned  *)
(* True returns False: "burned on first success so a retry cannot replay   *)
(* it".                                                                    *)
RetryIsRefused ==
    \A c \in Calls : call[c].late => call[c].phase \notin {"delete", "confirmed"}

(* "Single-use": at most one call per token ever returns True.  This does  *)
(* not follow from RetryIsRefused, and calls that overlap violate it.      *)
SingleUse ==
    \A c, d \in Calls :
        /\ call[c].phase = "confirmed"
        /\ call[d].phase = "confirmed"
        /\ call[c].token = call[d].token
        => c = d
=============================================================================
