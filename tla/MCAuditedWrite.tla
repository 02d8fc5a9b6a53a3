-------------------------- MODULE MCAuditedWrite ---------------------------
(***************************************************************************)
(* Small instances of AuditedWrite.  One user u1 acts through an MCP key   *)
(* and a browser session (or a second key); u2 has a key of its own.  In   *)
(* Modes, a name that ends in _auto is the same tool in a process without  *)
(* ATOMIC_REQUESTS.                                                        *)
(***************************************************************************)
EXTENDS AuditedWrite, TLC

CONSTANTS k1, k2, s1, u1, u2

MCOwner == [c \in Credentials |-> IF c = k2 THEN u2 ELSE u1]

\* Every credential carries the scopes of every tool, but k2 of none.
MCGranted == [c \in Credentials |-> IF c = k2 THEN {} ELSE Tools]

RequestSymmetry == Permutations(Requests) \cup Permutations(Payloads)
=============================================================================
