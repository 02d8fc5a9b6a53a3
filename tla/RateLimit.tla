------------------------------ MODULE RateLimit ------------------------------
(***************************************************************************)
(* check_rate_limit of openedx_mcp/api/mcp/_rails.py: a fixed-window       *)
(* counter per (key, tool) in the shared Django cache, called by any       *)
(* number of web workers at once.                                          *)
(*                                                                         *)
(* Each cache operation (add, incr, set) is atomic, anything may run       *)
(* between two of them.  The caller's subject is the `key_id or user_id`   *)
(* of guards.py: the primary key of an MCPKey row, or of a user when the   *)
(* call came with a browser session.  Time is counted in windows of the    *)
(* tool; an entry stored in one window lives for window_seconds, so it     *)
(* expires in the next.                                                    *)
(***************************************************************************)
EXTENDS Naturals, FiniteSets

CONSTANTS Calls,         \* the calls of check_rate_limit
          Callers,       \* [kind : {"key", "user"}, pk : Nat]
          Tools,
          Limit,         \* Limit[t]: RATE_LIMITS.get(t, DEFAULT_RATE_LIMIT)[0]
          MaxWindow,     \* bound: windows 0..MaxWindow are explored
          MaxEvictions,  \* bound: how often the backend drops an entry early
          None

ASSUME RateAssumption ==
    /\ IsFiniteSet(Calls)
    /\ Callers \subseteq [kind : {"key", "user"}, pk : Nat]
    /\ Limit \in [Tools -> Nat \ {0}]
    /\ MaxWindow \in Nat
    /\ MaxEvictions \in Nat
    /\ None \notin [count : Nat, born : Nat]

Windows == 0..MaxWindow
Buckets == {caller.pk : caller \in Callers} \X Tools \X Windows

VARIABLES clock,    \* clock[t]: int(time.time()) // window, for tool t
          counter,  \* counter[b]: the entry under mcp:rl:<subject>:<tool>:<window>
          call,     \* call[c]: where c is in check_rate_limit
          evicted,  \* how many entries the backend has dropped early
          lost      \* history: lost[b] counts the times b lost its count

vars == <<clock, counter, call, evicted, lost>>

-----------------------------------------------------------------------------
(* "open" is a call that was allowed because the cache raised.  counted:   *)
(* the call is in its counter.  at: the window it was answered in.         *)
Phase == {"idle", "add", "incr", "set", "allowed", "denied", "open"}

CallRecord == [phase : Phase, caller : Callers, tool : Tools, window : Windows,
               counted : BOOLEAN, at : Windows]

ASSUME NoneIsNoCall == None \notin CallRecord

RateTypeOK ==
    /\ clock \in [Tools -> Windows]
    /\ counter \in [Buckets -> {None} \cup [count : 0..Cardinality(Calls),
                                            born : Windows]]
    /\ call \in [Calls -> CallRecord \cup {None}]
    /\ evicted \in 0..MaxEvictions
    /\ lost \in [Buckets -> Nat]

Init ==
    /\ clock = [t \in Tools |-> 0]
    /\ counter = [b \in Buckets |-> None]
    /\ call = [c \in Calls |-> None]
    /\ evicted = 0
    /\ lost = [b \in Buckets |-> 0]

-----------------------------------------------------------------------------
\* allowed, window = check_rate_limit(tool, key_id or user_id)
Subject(caller) == caller.pk

\* ck = f"{_RL_PREFIX}{key_id}:{tool}:{window_start}"
Bucket(c) == <<Subject(call[c].caller), call[c].tool, call[c].window>>

At(c, phase) == call[c] # None /\ call[c].phase = phase

\* cache.set(ck, n, window)
Stored(t, n) == [count |-> n, born |-> clock[t]]

\* Mistakes: one call too many, one too few.
VerdictLate(t, count) == IF count <= Limit[t] + 1 THEN "allowed" ELSE "denied"
VerdictEarly(t, count) == IF count < Limit[t] THEN "allowed" ELSE "denied"

\* return (count <= limit), window
Verdict(t, count) == IF count <= Limit[t] THEN "allowed" ELSE "denied"

Answer(c, phase) ==
    call' = [call EXCEPT ![c].phase = phase, ![c].counted = TRUE,
                         ![c].at = clock[call[c].tool]]

-----------------------------------------------------------------------------
\* Mistake: the window is rounded up.
EnterCeiling(c, caller, t) ==
    /\ call[c] = None
    /\ call' = [call EXCEPT ![c] = [phase |-> "add", caller |-> caller, tool |-> t,
                                    window |-> clock[t] + 1, counted |-> FALSE,
                                    at |-> clock[t]]]
    /\ UNCHANGED <<clock, counter, evicted, lost>>

(* A worker reads the time and forms the name of the counter.              *)
Enter(c, caller, t) ==
    /\ call[c] = None
    /\ call' = [call EXCEPT ![c] = [phase |-> "add", caller |-> caller, tool |-> t,
                                    window |-> clock[t], counted |-> FALSE,
                                    at |-> clock[t]]]
    /\ UNCHANGED <<clock, counter, evicted, lost>>

\* Mistake: cache.set instead of cache.add.
AddOverwriting(c) ==
    /\ At(c, "add")
    /\ counter' = [counter EXCEPT ![Bucket(c)] = Stored(call[c].tool, 0)]
    /\ call' = [call EXCEPT ![c].phase = "incr"]
    /\ UNCHANGED <<clock, evicted, lost>>

(* cache.add(ck, 0, window): stores 0 unless there is an entry.            *)
Add(c) ==
    /\ At(c, "add")
    /\ counter' = [counter EXCEPT ![Bucket(c)] =
                       IF @ = None THEN Stored(call[c].tool, 0) ELSE @]
    /\ call' = [call EXCEPT ![c].phase = "incr"]
    /\ UNCHANGED <<clock, evicted, lost>>

(* count = cache.incr(ck), and the answer it gives.                        *)
Incr(c) ==
    /\ At(c, "incr")
    /\ counter[Bucket(c)] # None
    /\ counter' = [counter EXCEPT ![Bucket(c)].count = @ + 1]
    /\ Answer(c, Verdict(call[c].tool, counter[Bucket(c)].count + 1))
    /\ UNCHANGED <<clock, evicted, lost>>

(* The entry went away after the add: incr raises ValueError.              *)
IncrMisses(c) ==
    /\ At(c, "incr")
    /\ counter[Bucket(c)] = None
    /\ call' = [call EXCEPT ![c].phase = "set"]
    /\ UNCHANGED <<clock, counter, evicted, lost>>

(* except ValueError: cache.set(ck, 1, window), whatever another worker    *)
(* has stored there in the meantime.                                       *)
SetOne(c) ==
    /\ At(c, "set")
    /\ counter' = [counter EXCEPT ![Bucket(c)] = Stored(call[c].tool, 1)]
    /\ lost' = [lost EXCEPT ![Bucket(c)] =
                    IF counter[Bucket(c)] = None THEN @ ELSE @ + 1]
    /\ Answer(c, Verdict(call[c].tool, 1))
    /\ UNCHANGED <<clock, evicted>>

(* The cache raises anything else: "fails OPEN on cache errors".           *)
FailOpen(c) ==
    /\ \E phase \in {"add", "incr", "set"} : At(c, phase)
    /\ call' = [call EXCEPT ![c].phase = "open", ![c].at = clock[call[c].tool]]
    /\ UNCHANGED <<clock, counter, evicted, lost>>

(* As FailOpen, but the failed incr had reached the backend.               *)
FailOpenCounted(c) ==
    /\ At(c, "incr")
    /\ counter[Bucket(c)] # None
    /\ counter' = [counter EXCEPT ![Bucket(c)].count = @ + 1]
    /\ Answer(c, "open")
    /\ UNCHANGED <<clock, evicted, lost>>

-----------------------------------------------------------------------------
(* The next window of tool t begins.                                       *)
Tick(t) ==
    /\ clock[t] < MaxWindow
    /\ clock' = [clock EXCEPT ![t] = @ + 1]
    /\ UNCHANGED <<counter, call, evicted, lost>>

Forget(b) ==
    /\ counter' = [counter EXCEPT ![b] = None]
    /\ lost' = [lost EXCEPT ![b] = @ + 1]
    /\ UNCHANGED <<clock, call>>

(* The entry's timeout has passed.                                         *)
Expire(b) ==
    /\ counter[b] # None
    /\ counter[b].born < clock[b[2]]
    /\ Forget(b)
    /\ UNCHANGED evicted

(* The backend drops an entry before its time.                             *)
Evict(b) ==
    /\ counter[b] # None
    /\ evicted < MaxEvictions
    /\ Forget(b)
    /\ evicted' = evicted + 1

Next ==
    \/ \E c \in Calls, caller \in Callers, t \in Tools : Enter(c, caller, t)
    \/ \E c \in Calls : \/ Add(c) \/ Incr(c) \/ IncrMisses(c) \/ SetOne(c)
                        \/ FailOpen(c) \/ FailOpenCounted(c)
    \/ \E t \in Tools : Tick(t)
    \/ \E b \in Buckets : Expire(b) \/ Evict(b)

Spec == Init /\ [][Next]_vars

-----------------------------------------------------------------------------
(* Properties.                                                             *)

Entered == {c \in Calls : call[c] # None}
AllowedIn(b) == {c \in Entered : call[c].phase = "allowed" /\ Bucket(c) = b}

(* "Turns a runaway loop into ~N calls": while the cache loses nothing     *)
(* early, at most Limit calls of one subject and tool are both made and    *)
(* allowed within one window.  Calls that started in an older window and   *)
(* those let through by a failing cache do not count against it.           *)
WindowBudget ==
    evicted = 0 =>
        \A b \in Buckets :
            Cardinality({c \in AllowedIn(b) : call[c].at = b[3]}) <= Limit[b[2]]

(* With losses: each time a counter loses its count (it expires under a    *)
(* straggler, it is evicted, a set(ck, 1) overwrites it) it hands out at   *)
(* most one more budget, however the calls interleave.                     *)
LossBudget ==
    \A b \in Buckets : Cardinality(AllowedIn(b)) <= Limit[b[2]] * (1 + lost[b])

\* The caller that guards.py:98 cannot tell from this one: the user with the
\* number of the key, the key with the number of the user.
Namesake(caller) == [caller EXCEPT !.kind = IF @ = "key" THEN "user" ELSE "key"]

(* "A different key still has a fresh budget": a call is denied only after *)
(* Limit other calls of the same tool in the same window have been         *)
(* counted, all of them of its own caller or of its one namesake, if it    *)
(* has one; never of another key, or another user.                         *)
DeniedByOwnCalls ==
    \A c \in Entered : call[c].phase = "denied" =>
        Limit[call[c].tool] <=
            Cardinality({d \in Entered \ {c} :
                           /\ call[d].counted
                           /\ call[d].caller \in {call[c].caller, Namesake(call[c].caller)}
                           /\ call[d].tool = call[c].tool
                           /\ call[d].window = call[c].window})
=============================================================================
