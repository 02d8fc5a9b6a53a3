---------------------------- MODULE MCRateLimit ----------------------------
(***************************************************************************)
(* Small instance of RateLimit: two MCP keys, and a browser session of the *)
(* user who has the number of the first.                                   *)
(***************************************************************************)
EXTENDS RateLimit, TLC

CONSTANTS bulk_enroll, unenroll_user

Numbered == {[kind |-> "key", pk |-> 1], [kind |-> "user", pk |-> 1],
             [kind |-> "key", pk |-> 2]}

MCLimit == [t \in Tools |-> IF t = bulk_enroll THEN 1 ELSE 2]

CallSymmetry == Permutations(Calls)
=============================================================================
