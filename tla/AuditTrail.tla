----------------------------- MODULE AuditTrail -----------------------------
(***************************************************************************)
(* What the write rails promise of a tool call (guards.py, module          *)
(* docstring): the audit record of a call and the effect of the call       *)
(* become durable together, the record is one of the few that make sense,  *)
(* and the effect is what the record says: everything for "success",       *)
(* nothing otherwise.  Of a tool whose view hides its errors "success"     *)
(* says no more than that the view came to its end.                        *)
(***************************************************************************)
EXTENDS Naturals

CONSTANTS Requests,  \* the tool calls
          Tools,
          Lenient,   \* the tools whose views hide errors
          Parts,     \* the number of changes a complete write makes
          None

VARIABLES tool,      \* tool[r]: the tool r calls, None before it is received
          trail,     \* trail[r]: outcomes of the audit rows kept for r
          durable    \* durable[r]: how many of r's changes are kept

trailVars == <<tool, trail, durable>>

\* The records a call may leave: rate limited, previewed, failed, applied.
Records == {{"denied"}, {"dry_run"}, {"attempt", "error"}, {"attempt", "success"}}

\* The effects that agree with a record of a call of t.
Effects(t, record) ==
    IF "success" \notin record THEN {0}
    ELSE IF t \in Lenient THEN 0..Parts
    ELSE {Parts}

TrailInit ==
    /\ tool = [r \in Requests |-> None]
    /\ trail = [r \in Requests |-> {}]
    /\ durable = [r \in Requests |-> 0]

Ask(r) ==
    /\ tool[r] = None
    /\ \E t \in Tools : tool' = [tool EXCEPT ![r] = t]
    /\ UNCHANGED <<trail, durable>>

Conclude(r) ==
    /\ tool[r] # None
    /\ trail[r] = {}
    /\ \E record \in Records : \E n \in Effects(tool[r], record) :
         /\ trail' = [trail EXCEPT ![r] = record]
         /\ durable' = [durable EXCEPT ![r] = n]
    /\ UNCHANGED tool

TrailNext == \E r \in Requests : Ask(r) \/ Conclude(r)

TrailSpec == TrailInit /\ [][TrailNext]_trailVars
=============================================================================
