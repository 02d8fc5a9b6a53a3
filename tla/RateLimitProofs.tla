--------------------------- MODULE RateLimitProofs ---------------------------
(***************************************************************************)
(* Proofs about RateLimit, for any number of calls, callers, tools,        *)
(* windows and evictions, and any limits.                                  *)
(***************************************************************************)
EXTENDS RateLimit, FiniteSetTheorems, TLAPS

CountedIn(b) == {c \in Entered : call[c].counted /\ Bucket(c) = b}

\* The calls WindowBudget speaks of.
TimelyIn(b) == {c \in AllowedIn(b) : call[c].at = b[3]}

Pending(c) == \E phase \in {"add", "incr", "set"} : At(c, phase)

\* How much of the budget the entry of a bucket has handed out.
Spent(b) == IF counter[b] = None THEN 0
            ELSE IF counter[b].count <= Limit[b[2]] THEN counter[b].count
            ELSE Limit[b[2]]

-----------------------------------------------------------------------------
LEMMA BucketParts ==
    ASSUME NEW b \in Buckets
    PROVE  /\ b[2] \in Tools /\ b[3] \in Windows /\ b[3] \in Nat
           /\ Limit[b[2]] \in Nat /\ Limit[b[2]] > 0
BY RateAssumption DEF Buckets, Windows

LEMMA CallParts ==
    ASSUME RateTypeOK, NEW c \in Entered
    PROVE  /\ call[c] \in CallRecord
           /\ call[c].tool \in Tools /\ call[c].window \in Windows
           /\ Bucket(c) \in Buckets
           /\ Bucket(c)[2] = call[c].tool /\ Bucket(c)[3] = call[c].window
<1>1. call[c] \in CallRecord
  BY DEF RateTypeOK, Entered
<1>2. /\ call[c].tool \in Tools /\ call[c].window \in Windows
      /\ call[c].caller \in Callers
  BY <1>1 DEF CallRecord
<1>. QED
  BY <1>1, <1>2 DEF Bucket, Subject, Buckets

\* The sets of calls are finite, so they can be counted.
LEMMA Countable ==
    ASSUME NEW b
    PROVE  /\ IsFiniteSet(CountedIn(b)) /\ Cardinality(CountedIn(b)) \in Nat
           /\ IsFiniteSet(AllowedIn(b)) /\ Cardinality(AllowedIn(b)) \in Nat
           /\ IsFiniteSet(TimelyIn(b)) /\ Cardinality(TimelyIn(b)) \in Nat
           /\ Cardinality(CountedIn(b)) <= Cardinality(Calls)
           /\ Cardinality(Calls) \in Nat
<1>1. /\ CountedIn(b) \in SUBSET Calls /\ AllowedIn(b) \in SUBSET Calls
      /\ TimelyIn(b) \in SUBSET Calls
  BY DEF CountedIn, AllowedIn, TimelyIn, Entered
<1>. QED
  BY <1>1, FS_Subset, FS_CardinalityType, RateAssumption

LEMMA PrimedCountable ==
    ASSUME NEW b
    PROVE  /\ IsFiniteSet(CountedIn(b)') /\ Cardinality(CountedIn(b)') \in Nat
           /\ IsFiniteSet(AllowedIn(b)') /\ Cardinality(AllowedIn(b)') \in Nat
           /\ IsFiniteSet(TimelyIn(b)') /\ Cardinality(TimelyIn(b)') \in Nat
           /\ Cardinality(CountedIn(b)') <= Cardinality(Calls)
<1>1. /\ CountedIn(b)' \in SUBSET Calls /\ AllowedIn(b)' \in SUBSET Calls
      /\ TimelyIn(b)' \in SUBSET Calls
  BY DEF CountedIn, AllowedIn, TimelyIn, Entered
<1>. QED
  BY <1>1, FS_Subset, FS_CardinalityType, RateAssumption

\* A step that moves one call on, short of an answer that counts it, leaves
\* who is counted and who is allowed alone.
LEMMA Unanswered ==
    ASSUME RateTypeOK, NEW c \in Calls, NEW r \in CallRecord,
           call' = [call EXCEPT ![c] = r],
           r.phase # "allowed", ~r.counted,
           call[c] # None => call[c].phase # "allowed" /\ ~call[c].counted
    PROVE  \A b : /\ CountedIn(b)' = CountedIn(b)
                  /\ AllowedIn(b)' = AllowedIn(b)
                  /\ TimelyIn(b)' = TimelyIn(b)
<1>1. call'[c] = r /\ \A d \in Calls \ {c} : call'[d] = call[d]
  BY DEF RateTypeOK
<1>2. TAKE b
<1>3. c \notin CountedIn(b) /\ c \notin CountedIn(b)'
  BY <1>1 DEF CountedIn, Entered
<1>4. c \notin AllowedIn(b) /\ c \notin AllowedIn(b)'
  BY <1>1 DEF AllowedIn, Entered
<1>5. \A d \in Calls \ {c} : /\ d \in CountedIn(b)' <=> d \in CountedIn(b)
                             /\ d \in AllowedIn(b)' <=> d \in AllowedIn(b)
  BY <1>1 DEF CountedIn, AllowedIn, Entered, Bucket
<1>6. CountedIn(b)' = CountedIn(b) /\ AllowedIn(b)' = AllowedIn(b)
  BY <1>3, <1>4, <1>5 DEF CountedIn, AllowedIn, Entered
<1>7. \A d \in AllowedIn(b) : call'[d].at = call[d].at
  BY <1>1, <1>4 DEF AllowedIn, Entered
<1>. QED
  BY <1>6, <1>7 DEF TimelyIn

\* An answer counts the call in its bucket, and perhaps allows it.
LEMMA Answered ==
    ASSUME RateTypeOK, NEW c \in Calls, Pending(c), ~call[c].counted,
           NEW phase \in {"allowed", "denied", "open"}, Answer(c, phase)
    PROVE  \A b :
             /\ c \notin CountedIn(b)
             /\ CountedIn(b)' = IF b = Bucket(c) THEN CountedIn(b) \cup {c} ELSE CountedIn(b)
             /\ AllowedIn(b)' = IF b = Bucket(c) /\ phase = "allowed"
                                THEN AllowedIn(b) \cup {c} ELSE AllowedIn(b)
             /\ TimelyIn(b)' = IF /\ b = Bucket(c) /\ phase = "allowed"
                                  /\ clock[call[c].tool] = b[3]
                               THEN TimelyIn(b) \cup {c} ELSE TimelyIn(b)
<1>0. c \in Entered /\ call[c] \in CallRecord /\ call[c].phase # "allowed"
  BY CallParts DEF Pending, At, Entered
<1>1. /\ call'[c] = [call[c] EXCEPT !.phase = phase, !.counted = TRUE,
                                    !.at = clock[call[c].tool]]
      /\ \A d \in Calls \ {c} : call'[d] = call[d]
  BY DEF RateTypeOK, Answer
<1>2. /\ call'[c].phase = phase /\ call'[c].counted
      /\ call'[c].at = clock[call[c].tool]
      /\ call'[c].caller = call[c].caller /\ call'[c].tool = call[c].tool
      /\ call'[c].window = call[c].window
  BY <1>0, <1>1 DEF CallRecord
<1>3. call'[c] # None
  <2>1. call[c].tool \in Tools /\ clock[call[c].tool] \in Windows
    BY <1>0 DEF CallRecord, RateTypeOK
  <2>. QED
    BY <1>0, <1>1, <2>1, NoneIsNoCall DEF CallRecord, Phase
<1>4. TAKE b
<1>5. c \notin CountedIn(b) /\ c \notin AllowedIn(b) /\ c \notin TimelyIn(b)
  BY <1>0 DEF CountedIn, AllowedIn, TimelyIn
<1>6. /\ c \in CountedIn(b)' <=> b = Bucket(c)
      /\ c \in AllowedIn(b)' <=> b = Bucket(c) /\ phase = "allowed"
      /\ c \in TimelyIn(b)' <=> /\ b = Bucket(c) /\ phase = "allowed"
                                /\ clock[call[c].tool] = b[3]
  BY <1>2, <1>3 DEF CountedIn, AllowedIn, TimelyIn, Entered, Bucket
<1>7. \A d \in Calls \ {c} : /\ d \in CountedIn(b)' <=> d \in CountedIn(b)
                             /\ d \in AllowedIn(b)' <=> d \in AllowedIn(b)
                             /\ d \in TimelyIn(b)' <=> d \in TimelyIn(b)
  BY <1>1 DEF CountedIn, AllowedIn, TimelyIn, Entered, Bucket
<1>8. /\ CountedIn(b) \in SUBSET Calls /\ AllowedIn(b) \in SUBSET Calls
      /\ TimelyIn(b) \in SUBSET Calls
      /\ CountedIn(b)' \in SUBSET Calls /\ AllowedIn(b)' \in SUBSET Calls
      /\ TimelyIn(b)' \in SUBSET Calls
  BY DEF CountedIn, AllowedIn, TimelyIn, Entered
<1>. QED
  BY <1>5, <1>6, <1>7, <1>8

-----------------------------------------------------------------------------
(* No count is higher than the calls that were counted; only an answer     *)
(* counts; who is denied found the budget gone; and the budgets that were  *)
(* handed out are those lost and what the entry stands at.                 *)
CountsCalls == \A b \in Buckets :
    counter[b] # None => counter[b].count <= Cardinality(CountedIn(b))

PendingUncounted == \A c \in Calls : Pending(c) => ~call[c].counted

DeniedByBucket == \A c \in Entered : call[c].phase = "denied" =>
    Limit[call[c].tool] <= Cardinality(CountedIn(Bucket(c)) \ {c})

HandedOut == \A b \in Buckets :
    Cardinality(AllowedIn(b)) <= Limit[b[2]] * lost[b] + Spent(b)

\* The clock has only been where the calls and the entries say it was.
ClockAhead ==
    /\ \A c \in Entered : call[c].window <= clock[call[c].tool]
    /\ \A b \in Buckets : counter[b] # None => b[3] <= counter[b].born

(* Nothing is dropped early: then until its window is over a bucket has    *)
(* lost nothing, not under a call that has added to it either.             *)
Unbroken == evicted = 0 => \A b \in Buckets : clock[b[2]] <= b[3] =>
    /\ \A c \in Entered : Bucket(c) = b =>
          /\ call[c].phase # "set"
          /\ call[c].phase = "incr" => counter[b] # None
    /\ Cardinality(TimelyIn(b)) <= Spent(b)

RateInv == /\ RateTypeOK
           /\ CountsCalls /\ PendingUncounted /\ DeniedByBucket
           /\ HandedOut
           /\ ClockAhead /\ Unbroken /\ WindowBudget

LEMMA SpentRange ==
    ASSUME RateTypeOK, NEW b \in Buckets
    PROVE  Spent(b) \in 0..Limit[b[2]]
<1>1. counter[b] = None \/ counter[b].count \in Nat
  BY Countable DEF RateTypeOK
<1>. QED
  BY <1>1, BucketParts DEF Spent

\* One more loss makes room for one more budget.
LEMMA OneMore ==
    ASSUME NEW l \in Nat, NEW n \in Nat
    PROVE  l * (n + 1) = l * n + l /\ l * n \in Nat
OBVIOUS

-----------------------------------------------------------------------------
LEMMA RateInit == Init => RateInv
<1>. SUFFICES ASSUME Init PROVE RateInv
  OBVIOUS
<1>1. Entered = {}
  BY DEF Init, Entered
<1>2. \A b : CountedIn(b) = {} /\ AllowedIn(b) = {} /\ TimelyIn(b) = {}
  BY <1>1 DEF CountedIn, AllowedIn, TimelyIn
<1>3. RateTypeOK
  BY RateAssumption DEF Init, RateTypeOK, Windows
<1>4. \A b \in Buckets : Spent(b) = 0 /\ counter[b] = None /\ lost[b] = 0
  BY DEF Init, Spent
<1>5. Cardinality({}) = 0
  BY FS_EmptySet
<1>6. CountsCalls /\ PendingUncounted /\ DeniedByBucket /\ ClockAhead
  BY <1>1, <1>4 DEF CountsCalls, PendingUncounted, DeniedByBucket, ClockAhead,
                   Pending, At, Init
<1>7. HandedOut /\ Unbroken
  <2>1. \A b \in Buckets : Limit[b[2]] * 0 = 0
    BY BucketParts
  <2>. QED
    BY <1>1, <1>2, <1>4, <1>5, <2>1 DEF HandedOut, Unbroken
<1>8. \A b : {c \in AllowedIn(b) : call[c].at = b[3]} = {}
  BY <1>2
<1>9. WindowBudget
  BY <1>8, <1>5, BucketParts DEF WindowBudget
<1>. QED
  BY <1>3, <1>6, <1>7, <1>9 DEF RateInv

-----------------------------------------------------------------------------
\* What a step that answers nobody leaves alone.
LEMMA SilentStep ==
    ASSUME RateInv, RateTypeOK', NEW c \in Calls, NEW r \in CallRecord,
           call' = [call EXCEPT ![c] = r],
           r.phase \in {"add", "incr", "set", "open"}, ~r.counted,
           call[c] # None => Pending(c),
           \A b \in Buckets : \/ counter'[b] = counter[b]
                              \/ /\ counter[b] = None /\ counter'[b] # None
                                 /\ counter'[b].count = 0,
           UNCHANGED <<clock, lost, evicted>>
    PROVE  /\ CountsCalls' /\ PendingUncounted' /\ DeniedByBucket' /\ HandedOut'
           /\ WindowBudget'
           /\ \A b \in Buckets : Cardinality(TimelyIn(b))' <= Spent(b)'
                                   <=> Cardinality(TimelyIn(b)) <= Spent(b)
<1>1. RateTypeOK /\ CountsCalls /\ PendingUncounted /\ DeniedByBucket /\ HandedOut
      /\ WindowBudget
  BY DEF RateInv
<1>2. call[c] # None => call[c].phase # "allowed" /\ ~call[c].counted
  BY <1>1 DEF PendingUncounted, Pending, At
<1>3. \A b : /\ CountedIn(b)' = CountedIn(b) /\ AllowedIn(b)' = AllowedIn(b)
             /\ TimelyIn(b)' = TimelyIn(b)
  BY <1>1, <1>2, Unanswered
<1>4. \A b \in Buckets : Spent(b)' = Spent(b)
  BY BucketParts DEF Spent
<1>5. CountsCalls'
  BY <1>1, <1>3, Countable DEF CountsCalls
<1>6. call'[c] = r /\ \A d \in Calls \ {c} : call'[d] = call[d]
  BY <1>1 DEF RateTypeOK
<1>7. PendingUncounted'
  BY <1>1, <1>6 DEF PendingUncounted, Pending, At
<1>8. DeniedByBucket'
  <2>1. \A d \in Entered' : call'[d].phase = "denied" =>
          d # c /\ d \in Entered /\ call'[d] = call[d] /\ Bucket(d)' = Bucket(d)
    BY <1>6 DEF Entered, Bucket
  <2>. QED
    BY <1>1, <1>3, <2>1 DEF DeniedByBucket
<1>9. HandedOut'
  BY <1>1, <1>3, <1>4 DEF HandedOut
<1>10. WindowBudget'
  BY <1>1, <1>3 DEF WindowBudget, TimelyIn
<1>. QED
  BY <1>3, <1>4, <1>5, <1>7, <1>8, <1>9, <1>10

\* What an answer of call c, of bucket b0, does to the tallies.
LEMMA Tallied ==
    ASSUME RateInv, NEW c \in Calls, Pending(c), NEW b0, b0 = Bucket(c),
           NEW phase \in {"allowed", "denied", "open"}, Answer(c, phase)
    PROVE  /\ c \in Entered /\ call[c] \in CallRecord
           /\ call' \in [Calls -> CallRecord \cup {None}]
           /\ Cardinality(CountedIn(b0))' = Cardinality(CountedIn(b0)) + 1
           /\ \A b \in Buckets \ {b0} :
                 /\ Cardinality(CountedIn(b))' = Cardinality(CountedIn(b))
                 /\ Cardinality(AllowedIn(b))' = Cardinality(AllowedIn(b))
                 /\ Cardinality(TimelyIn(b))' = Cardinality(TimelyIn(b))
           /\ Cardinality(AllowedIn(b0))'
                 <= Cardinality(AllowedIn(b0)) + (IF phase = "allowed" THEN 1 ELSE 0)
           /\ Cardinality(TimelyIn(b0))'
                 <= Cardinality(TimelyIn(b0)) + (IF phase = "allowed" THEN 1 ELSE 0)
           /\ clock[call[c].tool] # call[c].window =>
                 Cardinality(TimelyIn(b0))' = Cardinality(TimelyIn(b0))
           /\ \A d \in Entered' : /\ d \in Entered
                                  /\ Bucket(d)' = Bucket(d)
                                  /\ call'[d].window = call[d].window
                                  /\ call'[d].tool = call[d].tool
                                  /\ call'[d].phase = IF d = c THEN phase ELSE call[d].phase
           /\ PendingUncounted'
           /\ (phase = "denied" => Limit[call[c].tool] <= Cardinality(CountedIn(b0)))
                 => DeniedByBucket'
<1>1. RateTypeOK /\ PendingUncounted /\ DeniedByBucket
  BY DEF RateInv
<1>2. c \in Entered /\ call[c] \in CallRecord /\ ~call[c].counted /\ Bucket(c)' = Bucket(c)
      /\ Bucket(c)[3] = call[c].window
  <2>1. c \in Entered
    BY DEF Pending, At, Entered
  <2>2. call[c] \in CallRecord /\ ~call[c].counted /\ Bucket(c)[3] = call[c].window
    BY <1>1, <2>1, CallParts DEF PendingUncounted
  <2>. QED
    BY <1>1, <2>1, <2>2 DEF Answer, Bucket, CallRecord, RateTypeOK
<1>3. \A b :
        /\ c \notin CountedIn(b)
        /\ CountedIn(b)' = IF b = Bucket(c) THEN CountedIn(b) \cup {c} ELSE CountedIn(b)
        /\ AllowedIn(b)' = IF b = Bucket(c) /\ phase = "allowed"
                           THEN AllowedIn(b) \cup {c} ELSE AllowedIn(b)
        /\ TimelyIn(b)' = IF /\ b = Bucket(c) /\ phase = "allowed"
                             /\ clock[call[c].tool] = b[3]
                          THEN TimelyIn(b) \cup {c} ELSE TimelyIn(b)
  BY <1>1, <1>2, Answered
<1>4. /\ call'[c] = [call[c] EXCEPT !.phase = phase, !.counted = TRUE,
                                    !.at = clock[call[c].tool]]
      /\ \A d \in Calls \ {c} : call'[d] = call[d]
  BY <1>1 DEF RateTypeOK, Answer
<1>5. call'[c] \in CallRecord
  <2>1. clock[call[c].tool] \in Windows
    BY <1>1, <1>2 DEF CallRecord, RateTypeOK
  <2>. QED
    BY <1>2, <1>4, <2>1 DEF CallRecord, Phase
<1>6. call' \in [Calls -> CallRecord \cup {None}]
  BY <1>1, <1>4, <1>5 DEF RateTypeOK, Answer
<1>7. Cardinality(CountedIn(b0))' = Cardinality(CountedIn(b0)) + 1
  <2>1. CountedIn(b0)' = CountedIn(b0) \cup {c}
    BY <1>2, <1>3
  <2>. QED
    BY <1>3, <2>1, Countable, FS_AddElement
<1>8. \A b \in Buckets \ {b0} :
        /\ Cardinality(CountedIn(b))' = Cardinality(CountedIn(b))
        /\ Cardinality(AllowedIn(b))' = Cardinality(AllowedIn(b))
        /\ Cardinality(TimelyIn(b))' = Cardinality(TimelyIn(b))
  BY <1>3
<1>9. Cardinality(AllowedIn(b0))'
        <= Cardinality(AllowedIn(b0)) + (IF phase = "allowed" THEN 1 ELSE 0)
  <2>1. AllowedIn(b0)' = IF phase = "allowed" THEN AllowedIn(b0) \cup {c}
                                                     ELSE AllowedIn(b0)
    BY <1>2, <1>3
  <2>2. IsFiniteSet(AllowedIn(b0)) /\ Cardinality(AllowedIn(b0)) \in Nat
    BY Countable
  <2>3. Cardinality(AllowedIn(b0) \cup {c}) =
          IF c \in AllowedIn(b0) THEN Cardinality(AllowedIn(b0))
                                ELSE Cardinality(AllowedIn(b0)) + 1
    BY <2>2, FS_AddElement
  <2>. QED
    BY <2>1, <2>2, <2>3
<1>10. /\ Cardinality(TimelyIn(b0))'
             <= Cardinality(TimelyIn(b0)) + (IF phase = "allowed" THEN 1 ELSE 0)
       /\ clock[call[c].tool] # call[c].window =>
             Cardinality(TimelyIn(b0))' = Cardinality(TimelyIn(b0))
  <2>1. TimelyIn(b0)' =
          IF phase = "allowed" /\ clock[call[c].tool] = call[c].window
          THEN TimelyIn(b0) \cup {c} ELSE TimelyIn(b0)
    BY <1>2, <1>3
  <2>2. IsFiniteSet(TimelyIn(b0)) /\ Cardinality(TimelyIn(b0)) \in Nat
    BY Countable
  <2>3. Cardinality(TimelyIn(b0) \cup {c}) =
          IF c \in TimelyIn(b0) THEN Cardinality(TimelyIn(b0))
                                ELSE Cardinality(TimelyIn(b0)) + 1
    BY <2>2, FS_AddElement
  <2>. QED
    BY <2>1, <2>2, <2>3
<1>11. \A d \in Entered' : /\ d \in Entered
                           /\ Bucket(d)' = Bucket(d)
                           /\ call'[d].window = call[d].window
                           /\ call'[d].tool = call[d].tool
                           /\ call'[d].phase = IF d = c THEN phase ELSE call[d].phase
  BY <1>2, <1>4 DEF Entered, Bucket, CallRecord
<1>12. PendingUncounted'
  BY <1>1, <1>2, <1>4 DEF PendingUncounted, Pending, At, CallRecord
<1>13. ASSUME phase = "denied" => Limit[call[c].tool] <= Cardinality(CountedIn(b0))
       PROVE  DeniedByBucket'
  <2>. SUFFICES ASSUME NEW d \in Entered', call'[d].phase = "denied"
                PROVE  Limit[call[d].tool] <= Cardinality(CountedIn(Bucket(d))' \ {d})
    BY <1>11 DEF DeniedByBucket
  <2>1. CASE d = c
    <3>1. CountedIn(Bucket(c))' \ {c} = CountedIn(Bucket(c))
      BY <1>2, <1>3
    <3>. QED
      BY <1>11, <1>13, <2>1, <3>1
  <2>2. CASE d # c
    <3>1. Limit[call[d].tool] <= Cardinality(CountedIn(Bucket(d)) \ {d})
      BY <1>1, <1>11, <2>2 DEF DeniedByBucket
    <3>2. CountedIn(Bucket(d)) \ {d} \in SUBSET (CountedIn(Bucket(d))' \ {d})
      BY <1>3, <1>11
    <3>3. /\ IsFiniteSet(CountedIn(Bucket(d))' \ {d})
          /\ IsFiniteSet(CountedIn(Bucket(d)) \ {d})
      BY Countable, FS_RemoveElement, <1>11, PrimedCountable
    <3>4. Cardinality(CountedIn(Bucket(d)) \ {d}) <= Cardinality(CountedIn(Bucket(d))' \ {d})
      BY <3>2, <3>3, FS_Subset
    <3>5. Limit[call[d].tool] \in Nat
      <4>1. d \in Entered
        BY <1>11
      <4>. QED
        BY <1>1, <4>1, CallParts, RateAssumption
    <3>. QED
      BY <3>1, <3>3, <3>4, <3>5, FS_CardinalityType
  <2>. QED
    BY <2>1, <2>2
<1>. QED
  BY <1>2, <1>6, <1>7, <1>8, <1>9, <1>10, <1>11, <1>12, <1>13

-----------------------------------------------------------------------------
\* A call that gets a number from its counter, and the answer that goes with it.
LEMMA CountStep ==
    ASSUME RateInv, NEW c \in Calls, At(c, "incr"),
           NEW b0, b0 = Bucket(c), counter[b0] # None,
           NEW phase \in {"allowed", "denied", "open"}, Answer(c, phase),
           phase = "allowed" => counter[b0].count + 1 <= Limit[call[c].tool],
           phase = "denied" => counter[b0].count + 1 > Limit[call[c].tool],
           counter' = [counter EXCEPT ![b0].count = @ + 1],
           UNCHANGED <<clock, lost, evicted>>
    PROVE  RateInv'
<1>1. RateTypeOK /\ CountsCalls /\ HandedOut /\ ClockAhead /\ Unbroken /\ WindowBudget
  BY DEF RateInv
<1>2. Pending(c)
  BY DEF Pending
<1>3. c \in Entered /\ b0 \in Buckets /\ b0[2] = call[c].tool /\ b0[3] = call[c].window
  BY <1>1, CallParts DEF At, Entered
<1>4. /\ counter[b0] \in [count : 0..Cardinality(Calls), born : Windows]
      /\ counter[b0].count \in Nat
  BY <1>1, <1>3, Countable DEF RateTypeOK
<1>41. \A b \in Buckets : Limit[b[2]] \in Nat /\ (counter[b] # None => counter[b].count \in Nat)
  BY <1>1, Countable, BucketParts DEF RateTypeOK
<1>5. /\ counter'[b0] = [counter[b0] EXCEPT !.count = @ + 1]
      /\ counter'[b0].count = counter[b0].count + 1 /\ counter'[b0].born = counter[b0].born
      /\ counter'[b0] # None
      /\ \A b \in Buckets \ {b0} : counter'[b] = counter[b]
  <2>1. /\ counter'[b0] = [counter[b0] EXCEPT !.count = @ + 1]
        /\ \A b \in Buckets \ {b0} : counter'[b] = counter[b]
    BY <1>1, <1>3 DEF RateTypeOK
  <2>2. counter'[b0] \in [count : Nat, born : Nat]
    BY <1>4, <2>1, RateAssumption DEF Windows
  <2>. QED
    BY <1>4, <2>1, <2>2, RateAssumption
<1>6. counter'[b0].count <= Cardinality(CountedIn(b0))'
  <2>1. Cardinality(CountedIn(b0))' = Cardinality(CountedIn(b0)) + 1
    BY <1>2, Tallied
  <2>2. counter[b0].count <= Cardinality(CountedIn(b0))
    BY <1>1, <1>3 DEF CountsCalls
  <2>. QED
    BY <1>4, <1>5, <2>1, <2>2, Countable
<1>7. /\ Cardinality(CountedIn(b0))' <= Cardinality(Calls)
      /\ Cardinality(CountedIn(b0))' \in Nat
  BY PrimedCountable
<1>8. RateTypeOK'
  <2>1. counter'[b0].count \in 0..Cardinality(Calls)
    BY <1>4, <1>5, <1>6, <1>7, Countable
  <2>2. counter'[b0] \in [count : 0..Cardinality(Calls), born : Windows]
    BY <1>4, <1>5, <2>1
  <2>3. call' \in [Calls -> CallRecord \cup {None}]
    BY <1>2, Tallied
  <2>. QED
    BY <1>1, <1>3, <1>5, <2>2, <2>3 DEF RateTypeOK
<1>9. CountsCalls'
  <2>1. \A b \in Buckets \ {b0} : Cardinality(CountedIn(b))' = Cardinality(CountedIn(b))
    BY <1>2, Tallied
  <2>. QED
    BY <1>1, <1>5, <1>6, <2>1 DEF CountsCalls
<1>10. PendingUncounted' /\ DeniedByBucket'
  <2>1. phase = "denied" => Limit[call[c].tool] <= Cardinality(CountedIn(b0))
    <3>1. counter[b0].count <= Cardinality(CountedIn(b0))
      BY <1>1, <1>3 DEF CountsCalls
    <3>. QED
      BY <1>3, <1>4, <3>1, Countable, BucketParts
  <2>. QED
    BY <1>2, <2>1, Tallied
<1>11. \A b \in Buckets : /\ b # b0 => Spent(b)' = Spent(b)
                          /\ Spent(b) <= Spent(b)'
  BY <1>3, <1>4, <1>41, <1>5 DEF Spent
<1>12. phase = "allowed" => Spent(b0)' = Spent(b0) + 1
  BY <1>3, <1>4, <1>41, <1>5 DEF Spent
<1>13. \A b \in Buckets : Spent(b) \in Nat /\ Spent(b)' \in 0..Limit[b[2]]
  <2>1. \A b \in Buckets : counter'[b] # None => counter'[b].count \in Nat
    BY <1>4, <1>41, <1>5
  <2>. QED
    BY <1>41, <2>1 DEF Spent
<1>14. \A b \in Buckets :
         /\ Cardinality(AllowedIn(b))' <= Cardinality(AllowedIn(b)) + (Spent(b)' - Spent(b))
         /\ Cardinality(TimelyIn(b))' <= Cardinality(TimelyIn(b)) + (Spent(b)' - Spent(b))
  <2>1. /\ Cardinality(AllowedIn(b0))'
             <= Cardinality(AllowedIn(b0)) + (IF phase = "allowed" THEN 1 ELSE 0)
        /\ Cardinality(TimelyIn(b0))'
             <= Cardinality(TimelyIn(b0)) + (IF phase = "allowed" THEN 1 ELSE 0)
        /\ \A b \in Buckets \ {b0} :
             /\ Cardinality(AllowedIn(b))' = Cardinality(AllowedIn(b))
             /\ Cardinality(TimelyIn(b))' = Cardinality(TimelyIn(b))
    BY <1>2, Tallied
  <2>2. \A b : /\ Cardinality(AllowedIn(b)) \in Nat /\ Cardinality(AllowedIn(b))' \in Nat
               /\ Cardinality(TimelyIn(b)) \in Nat /\ Cardinality(TimelyIn(b))' \in Nat
    BY Countable, PrimedCountable
  <2>3. TAKE b \in Buckets
  <2>4. CASE b = b0
    BY <1>11, <1>12, <1>13, <2>1, <2>2, <2>4
  <2>5. CASE b # b0
    BY <1>11, <1>13, <2>1, <2>2, <2>5
  <2>. QED
    BY <2>4, <2>5
<1>15. \A b : /\ Cardinality(AllowedIn(b)) \in Nat /\ Cardinality(AllowedIn(b))' \in Nat
              /\ Cardinality(TimelyIn(b)) \in Nat /\ Cardinality(TimelyIn(b))' \in Nat
  BY Countable, PrimedCountable
<1>16. HandedOut'
  <2>. SUFFICES ASSUME NEW b \in Buckets
                PROVE  Cardinality(AllowedIn(b))' <= Limit[b[2]] * lost[b] + Spent(b)'
    BY DEF HandedOut
  <2>1. Limit[b[2]] * lost[b] \in Nat
    BY <1>1, OneMore, BucketParts DEF RateTypeOK
  <2>2. Cardinality(AllowedIn(b)) <= Limit[b[2]] * lost[b] + Spent(b)
    BY <1>1 DEF HandedOut
  <2>. QED
    BY <1>13, <1>14, <1>15, <2>1, <2>2
<1>17. \A d \in Entered' : /\ d \in Entered
                           /\ Bucket(d)' = Bucket(d)
                           /\ call'[d].window = call[d].window
                           /\ call'[d].tool = call[d].tool
                           /\ call'[d].phase = IF d = c THEN phase ELSE call[d].phase
  BY <1>2, Tallied
<1>18. ClockAhead'
  BY <1>1, <1>3, <1>5, <1>17 DEF ClockAhead
<1>19. Unbroken'
  <2>. SUFFICES ASSUME evicted = 0, NEW b \in Buckets, clock[b[2]] <= b[3]
                PROVE  /\ \A d \in Entered' : Bucket(d)' = b =>
                            /\ call'[d].phase # "set"
                            /\ call'[d].phase = "incr" => counter'[b] # None
                       /\ Cardinality(TimelyIn(b))' <= Spent(b)'
    BY DEF Unbroken
  <2>1. /\ \A d \in Entered : Bucket(d) = b =>
             /\ call[d].phase # "set"
             /\ call[d].phase = "incr" => counter[b] # None
        /\ Cardinality(TimelyIn(b)) <= Spent(b)
    BY <1>1 DEF Unbroken
  <2>2. counter[b] # None => counter'[b] # None
    BY <1>5
  <2>. QED
    BY <1>13, <1>14, <1>15, <1>17, <2>1, <2>2
<1>20. WindowBudget'
  <2>. SUFFICES ASSUME evicted = 0, NEW b \in Buckets
                PROVE  Cardinality(TimelyIn(b))' <= Limit[b[2]]
    BY DEF WindowBudget, TimelyIn
  <2>1. CASE clock[b[2]] <= b[3]
    <3>1. Cardinality(TimelyIn(b))' <= Spent(b)'
      BY <1>19, <2>1 DEF Unbroken
    <3>. QED
      BY <1>13, <1>15, <3>1, BucketParts
  <2>2. CASE ~(clock[b[2]] <= b[3])
    <3>1. b = b0 => clock[call[c].tool] # call[c].window
      BY <1>3, <2>2, BucketParts
    <3>2. Cardinality(TimelyIn(b))' = Cardinality(TimelyIn(b))
      BY <1>2, <3>1, Tallied
    <3>3. Cardinality(TimelyIn(b)) <= Limit[b[2]]
      BY <1>1 DEF WindowBudget, TimelyIn
    <3>. QED
      BY <3>2, <3>3
  <2>. QED
    BY <2>1, <2>2
<1>. QED
  BY <1>8, <1>9, <1>10, <1>16, <1>18, <1>19, <1>20 DEF RateInv

\* The call that found its counter gone starts it anew.
LEMMA SetOneStep ==
    ASSUME RateInv, NEW c \in Calls, NEW b0, b0 = Bucket(c), SetOne(c)
    PROVE  RateInv'
<1>1. RateTypeOK /\ CountsCalls /\ HandedOut /\ ClockAhead /\ Unbroken /\ WindowBudget
  BY DEF RateInv
<1>2. Pending(c) /\ At(c, "set")
  BY DEF SetOne, Pending
<1>3. c \in Entered /\ b0 \in Buckets /\ b0[2] = call[c].tool /\ b0[3] = call[c].window
      /\ call[c].tool \in Tools
  BY <1>1, <1>2, CallParts DEF At, Entered
<1>4. \A b \in Buckets : /\ Limit[b[2]] \in Nat /\ Limit[b[2]] > 0
                         /\ counter[b] # None => counter[b].count \in Nat
                         /\ lost[b] \in Nat
  BY <1>1, Countable, BucketParts DEF RateTypeOK
<1>5. Answer(c, "allowed")
  BY <1>3, <1>4 DEF SetOne, Verdict
<1>6. /\ counter'[b0] = [count |-> 1, born |-> clock[call[c].tool]]
      /\ \A b \in Buckets \ {b0} : counter'[b] = counter[b]
      /\ lost'[b0] = IF counter[b0] = None THEN lost[b0] ELSE lost[b0] + 1
      /\ \A b \in Buckets \ {b0} : lost'[b] = lost[b]
      /\ UNCHANGED <<clock, evicted>>
  BY <1>1, <1>3 DEF SetOne, RateTypeOK, Stored
<1>7. clock[call[c].tool] \in Windows
  BY <1>1, <1>3 DEF RateTypeOK
<1>8. counter'[b0] # None /\ counter'[b0].count = 1 /\ counter'[b0].born = clock[call[c].tool]
  <2>1. counter'[b0] \in [count : Nat, born : Nat]
    BY <1>6, <1>7, RateAssumption DEF Windows
  <2>. QED
    BY <1>6, <2>1, RateAssumption
<1>9. /\ call' \in [Calls -> CallRecord \cup {None}]
      /\ Cardinality(CountedIn(b0))' = Cardinality(CountedIn(b0)) + 1
      /\ \A b \in Buckets \ {b0} :
            /\ Cardinality(CountedIn(b))' = Cardinality(CountedIn(b))
            /\ Cardinality(AllowedIn(b))' = Cardinality(AllowedIn(b))
            /\ Cardinality(TimelyIn(b))' = Cardinality(TimelyIn(b))
      /\ Cardinality(AllowedIn(b0))' <= Cardinality(AllowedIn(b0)) + 1
      /\ clock[call[c].tool] # call[c].window =>
            Cardinality(TimelyIn(b0))' = Cardinality(TimelyIn(b0))
      /\ \A d \in Entered' : /\ d \in Entered
                             /\ Bucket(d)' = Bucket(d)
                             /\ call'[d].window = call[d].window
                             /\ call'[d].tool = call[d].tool
                             /\ call'[d].phase = IF d = c THEN "allowed" ELSE call[d].phase
      /\ PendingUncounted' /\ DeniedByBucket'
  BY <1>2, <1>5, Tallied
<1>10. CountsCalls'
  <2>1. 1 <= Cardinality(CountedIn(b0))'
    BY <1>9, Countable
  <2>. QED
    BY <1>1, <1>6, <1>8, <1>9, <2>1 DEF CountsCalls
<1>11. RateTypeOK'
  <2>1. 1 \in 0..Cardinality(Calls)
    BY <1>8, <1>9, Countable, PrimedCountable
  <2>2. counter'[b0] \in [count : 0..Cardinality(Calls), born : Windows]
    BY <1>6, <1>7, <2>1
  <2>3. counter' \in [Buckets -> {None} \cup [count : 0..Cardinality(Calls), born : Windows]]
    BY <1>1, <1>3, <1>6, <2>2 DEF RateTypeOK, SetOne
  <2>4. lost' \in [Buckets -> Nat]
    BY <1>1, <1>3, <1>4, <1>6 DEF RateTypeOK, SetOne
  <2>. QED
    BY <1>1, <1>6, <1>9, <2>3, <2>4 DEF RateTypeOK
<1>12. \A b \in Buckets : /\ Spent(b) \in 0..Limit[b[2]]
                          /\ b # b0 => Spent(b)' = Spent(b)
  BY <1>4, <1>6 DEF Spent
<1>13. Spent(b0)' = 1 /\ (counter[b0] = None => Spent(b0) = 0)
  BY <1>3, <1>4, <1>8 DEF Spent
<1>14. HandedOut'
  <2>. SUFFICES ASSUME NEW b \in Buckets
                PROVE  Cardinality(AllowedIn(b))' <= Limit[b[2]] * lost'[b] + Spent(b)'
    BY DEF HandedOut
  <2>1. Cardinality(AllowedIn(b)) <= Limit[b[2]] * lost[b] + Spent(b)
    BY <1>1 DEF HandedOut
  <2>2. /\ Limit[b[2]] * lost[b] \in Nat
        /\ Limit[b[2]] * (lost[b] + 1) = Limit[b[2]] * lost[b] + Limit[b[2]]
    BY <1>4, OneMore
  <2>3. /\ Cardinality(AllowedIn(b)) \in Nat
        /\ Cardinality(AllowedIn(b))' \in Nat
    BY Countable, PrimedCountable
  <2>4. CASE b # b0
    BY <1>6, <1>9, <1>12, <2>1, <2>4
  <2>5. CASE b = b0 /\ counter[b0] = None
    BY <1>6, <1>9, <1>13, <2>1, <2>2, <2>3, <2>5
  <2>6. CASE b = b0 /\ counter[b0] # None
    <3>1. Cardinality(AllowedIn(b))' <= Limit[b[2]] * lost[b] + Limit[b[2]] + 1
      BY <1>4, <1>9, <1>12, <2>1, <2>2, <2>3, <2>6
    <3>. QED
      BY <1>6, <1>13, <2>2, <2>6, <3>1
  <2>. QED
    BY <2>4, <2>5, <2>6
<1>15. ClockAhead'
  BY <1>1, <1>3, <1>6, <1>8, <1>9 DEF ClockAhead
<1>16. evicted = 0 => ~(clock[b0[2]] <= b0[3])
  BY <1>1, <1>2, <1>3 DEF Unbroken, At
<1>17. Unbroken'
  <2>. SUFFICES ASSUME evicted = 0, NEW b \in Buckets, clock[b[2]] <= b[3]
                PROVE  /\ \A d \in Entered' : Bucket(d)' = b =>
                            /\ call'[d].phase # "set"
                            /\ call'[d].phase = "incr" => counter'[b] # None
                       /\ Cardinality(TimelyIn(b))' <= Spent(b)'
    BY <1>6 DEF Unbroken
  <2>1. b # b0
    BY <1>16
  <2>2. /\ \A d \in Entered : Bucket(d) = b =>
             /\ call[d].phase # "set"
             /\ call[d].phase = "incr" => counter[b] # None
        /\ Cardinality(TimelyIn(b)) <= Spent(b)
    BY <1>1 DEF Unbroken
  <2>. QED
    BY <1>6, <1>9, <1>12, <2>1, <2>2
<1>18. WindowBudget'
  <2>. SUFFICES ASSUME evicted = 0, NEW b \in Buckets
                PROVE  Cardinality(TimelyIn(b))' <= Limit[b[2]]
    BY <1>6 DEF WindowBudget, TimelyIn
  <2>1. Cardinality(TimelyIn(b))' = Cardinality(TimelyIn(b))
    <3>1. clock[call[c].tool] # call[c].window
      BY <1>3, <1>16, BucketParts
    <3>. QED
      BY <1>9, <3>1
  <2>. QED
    BY <1>1, <2>1 DEF WindowBudget, TimelyIn
<1>. QED
  BY <1>9, <1>10, <1>11, <1>14, <1>15, <1>17, <1>18 DEF RateInv

-----------------------------------------------------------------------------
\* The steps of a call that answer nobody.
LEMMA EnterStep ==
    ASSUME RateInv, NEW c \in Calls, NEW caller \in Callers, NEW t \in Tools,
           Enter(c, caller, t)
    PROVE  RateInv'
<1>1. RateTypeOK /\ ClockAhead /\ Unbroken
  BY DEF RateInv
<1> DEFINE r == [phase |-> "add", caller |-> caller, tool |-> t,
                 window |-> clock[t], counted |-> FALSE, at |-> clock[t]]
<1>2. r \in CallRecord /\ call' = [call EXCEPT ![c] = r]
  BY <1>1 DEF Enter, CallRecord, Phase, RateTypeOK
<1>3. RateTypeOK'
  BY <1>1, <1>2 DEF Enter, RateTypeOK
<1>4. /\ CountsCalls' /\ PendingUncounted' /\ DeniedByBucket' /\ HandedOut' /\ WindowBudget'
      /\ \A b \in Buckets : Cardinality(TimelyIn(b))' <= Spent(b)'
                             <=> Cardinality(TimelyIn(b)) <= Spent(b)
  <2>1. /\ r.phase \in {"add", "incr", "set", "open"} /\ ~r.counted
        /\ call[c] = None
        /\ \A b \in Buckets : counter'[b] = counter[b]
        /\ UNCHANGED <<clock, lost, evicted>>
    BY DEF Enter
  <2>. QED
    BY <1>2, <1>3, <2>1, SilentStep
<1>5. \A d \in Entered' : IF d = c THEN call'[d] = r
                         ELSE d \in Entered /\ call'[d] = call[d] /\ Bucket(d)' = Bucket(d)
  BY <1>1, <1>2 DEF RateTypeOK, Entered, Bucket
<1>6. ClockAhead'
  <2>1. clock[t] \in Nat
    BY <1>1 DEF RateTypeOK, Windows
  <2>. QED
    BY <1>1, <1>5, <2>1 DEF Enter, ClockAhead
<1>7. Unbroken'
  BY <1>1, <1>4, <1>5 DEF Enter, Unbroken
<1>. QED
  BY <1>3, <1>4, <1>6, <1>7 DEF RateInv

LEMMA AddStep ==
    ASSUME RateInv, NEW c \in Calls, NEW b0, b0 = Bucket(c), Add(c)
    PROVE  RateInv'
<1>1. RateTypeOK /\ PendingUncounted /\ ClockAhead /\ Unbroken
  BY DEF RateInv
<1>2. /\ c \in Entered /\ call[c] \in CallRecord /\ call[c].tool \in Tools
      /\ b0 \in Buckets /\ b0[3] = call[c].window
      /\ Pending(c) /\ ~call[c].counted
  BY <1>1, CallParts DEF Add, At, Entered, Pending, PendingUncounted
<1> DEFINE r == [call[c] EXCEPT !.phase = "incr"]
<1>3. /\ r \in CallRecord /\ call' = [call EXCEPT ![c] = r]
      /\ r.phase = "incr" /\ ~r.counted
      /\ r.caller = call[c].caller /\ r.tool = call[c].tool /\ r.window = call[c].window
  BY <1>1, <1>2 DEF Add, CallRecord, Phase, RateTypeOK
<1>4. clock[call[c].tool] \in Windows
  BY <1>1, <1>2 DEF RateTypeOK
<1>5. /\ counter'[b0] = IF counter[b0] = None
                        THEN [count |-> 0, born |-> clock[call[c].tool]] ELSE counter[b0]
      /\ \A b \in Buckets \ {b0} : counter'[b] = counter[b]
  BY <1>1, <1>2 DEF Add, Stored, RateTypeOK
<1>6. counter'[b0] # None
  <2>1. [count |-> 0, born |-> clock[call[c].tool]] \in [count : Nat, born : Nat]
    BY <1>4, RateAssumption DEF Windows
  <2>. QED
    BY <1>5, <2>1, RateAssumption
<1>7. RateTypeOK'
  <2>1. [count |-> 0, born |-> clock[call[c].tool]]
          \in [count : 0..Cardinality(Calls), born : Windows]
    BY <1>4, Countable
  <2>2. counter' \in [Buckets -> {None} \cup [count : 0..Cardinality(Calls), born : Windows]]
    BY <1>1, <1>2, <1>5, <2>1 DEF Add, RateTypeOK
  <2>. QED
    BY <1>1, <1>3, <2>2 DEF Add, RateTypeOK
<1>8. /\ CountsCalls' /\ PendingUncounted' /\ DeniedByBucket' /\ HandedOut' /\ WindowBudget'
      /\ \A b \in Buckets : Cardinality(TimelyIn(b))' <= Spent(b)'
                             <=> Cardinality(TimelyIn(b)) <= Spent(b)
  <2>1. \A b \in Buckets : \/ counter'[b] = counter[b]
                           \/ /\ counter[b] = None /\ counter'[b] # None
                              /\ counter'[b].count = 0
    BY <1>5, <1>6
  <2>2. UNCHANGED <<clock, lost, evicted>>
    BY DEF Add
  <2>. QED
    BY <1>2, <1>3, <1>7, <2>1, <2>2, SilentStep
<1>9. \A d \in Entered' : /\ d \in Entered /\ Bucket(d)' = Bucket(d)
                         /\ call'[d].window = call[d].window
                         /\ call'[d].tool = call[d].tool
                         /\ call'[d].phase = IF d = c THEN "incr" ELSE call[d].phase
  BY <1>1, <1>2, <1>3 DEF RateTypeOK, Entered, Bucket
<1>10. ClockAhead'
  BY <1>1, <1>2, <1>5, <1>9, CallParts DEF Add, ClockAhead
<1>11. Unbroken'
  BY <1>1, <1>5, <1>6, <1>8, <1>9 DEF Add, Unbroken
<1>. QED
  BY <1>7, <1>8, <1>10, <1>11 DEF RateInv

LEMMA GiveUpStep ==
    ASSUME RateInv, NEW c \in Calls, IncrMisses(c) \/ FailOpen(c)
    PROVE  RateInv'
<1>1. RateTypeOK /\ PendingUncounted /\ ClockAhead /\ Unbroken
  BY DEF RateInv
<1>2. /\ c \in Entered /\ call[c] \in CallRecord /\ call[c].tool \in Tools
      /\ Bucket(c) \in Buckets /\ Pending(c) /\ ~call[c].counted
  BY <1>1, CallParts DEF IncrMisses, FailOpen, At, Entered, Pending, PendingUncounted
<1>3. PICK r \in CallRecord :
        /\ call' = [call EXCEPT ![c] = r]
        /\ r.phase \in {"set", "open"} /\ ~r.counted
        /\ r.caller = call[c].caller /\ r.tool = call[c].tool /\ r.window = call[c].window
        /\ r.phase = "set" => IncrMisses(c)
  <2>1. CASE IncrMisses(c)
    <3>1. [call[c] EXCEPT !.phase = "set"] \in CallRecord
      BY <1>2 DEF CallRecord, Phase
    <3>. QED
      BY <1>1, <1>2, <2>1, <3>1 DEF IncrMisses, CallRecord, RateTypeOK
  <2>2. CASE FailOpen(c)
    <3>1. clock[call[c].tool] \in Windows
      BY <1>1, <1>2 DEF RateTypeOK
    <3>2. [call[c] EXCEPT !.phase = "open", !.at = clock[call[c].tool]] \in CallRecord
      BY <1>2, <3>1 DEF CallRecord, Phase
    <3>. QED
      BY <1>1, <1>2, <2>2, <3>2 DEF FailOpen, CallRecord, RateTypeOK
  <2>. QED
    BY <2>1, <2>2
<1>4. UNCHANGED <<clock, counter, evicted, lost>>
  BY DEF IncrMisses, FailOpen
<1>5. RateTypeOK'
  BY <1>1, <1>3, <1>4 DEF RateTypeOK
<1>6. /\ CountsCalls' /\ PendingUncounted' /\ DeniedByBucket' /\ HandedOut' /\ WindowBudget'
      /\ \A b \in Buckets : Cardinality(TimelyIn(b))' <= Spent(b)'
                             <=> Cardinality(TimelyIn(b)) <= Spent(b)
  BY <1>2, <1>3, <1>4, <1>5, SilentStep
<1>7. \A d \in Entered' : /\ d \in Entered /\ Bucket(d)' = Bucket(d)
                         /\ call'[d].window = call[d].window
                         /\ call'[d].tool = call[d].tool
                         /\ call'[d].phase = IF d = c THEN r.phase ELSE call[d].phase
  BY <1>1, <1>2, <1>3 DEF RateTypeOK, Entered, Bucket
<1>8. ClockAhead'
  BY <1>1, <1>4, <1>7 DEF ClockAhead
<1>9. Unbroken'
  <2>. SUFFICES ASSUME evicted = 0, NEW b \in Buckets, clock[b[2]] <= b[3]
                PROVE  /\ \A d \in Entered' : Bucket(d)' = b =>
                            /\ call'[d].phase # "set"
                            /\ call'[d].phase = "incr" => counter[b] # None
                       /\ Cardinality(TimelyIn(b))' <= Spent(b)'
    BY <1>4 DEF Unbroken
  <2>1. /\ \A d \in Entered : Bucket(d) = b =>
             /\ call[d].phase # "set"
             /\ call[d].phase = "incr" => counter[b] # None
        /\ Cardinality(TimelyIn(b)) <= Spent(b)
    BY <1>1 DEF Unbroken
  <2>2. Bucket(c) = b => r.phase # "set"
    BY <1>2, <1>3, <2>1 DEF IncrMisses, At
  <2>. QED
    BY <1>3, <1>6, <1>7, <2>1, <2>2
<1>. QED
  BY <1>5, <1>6, <1>8, <1>9 DEF RateInv

-----------------------------------------------------------------------------
\* Without a step of a call the tallies stand.
LEMMA CallsStand ==
    ASSUME RateInv, UNCHANGED call
    PROVE  /\ PendingUncounted' /\ DeniedByBucket'
           /\ \A b : /\ CountedIn(b)' = CountedIn(b) /\ AllowedIn(b)' = AllowedIn(b)
                     /\ TimelyIn(b)' = TimelyIn(b)
           /\ Entered' = Entered /\ \A d \in Entered : Bucket(d)' = Bucket(d)
<1>1. /\ Entered' = Entered /\ \A d \in Entered : Bucket(d)' = Bucket(d)
      /\ \A b : /\ CountedIn(b)' = CountedIn(b) /\ AllowedIn(b)' = AllowedIn(b)
                /\ TimelyIn(b)' = TimelyIn(b)
  BY DEF CountedIn, AllowedIn, TimelyIn, Entered, Bucket
<1>. QED
  BY <1>1 DEF RateInv, PendingUncounted, Pending, At, DeniedByBucket

LEMMA TickStep ==
    ASSUME RateInv, NEW t \in Tools, Tick(t)
    PROVE  RateInv'
<1>1. /\ RateTypeOK /\ CountsCalls /\ HandedOut /\ ClockAhead /\ Unbroken /\ WindowBudget
      /\ UNCHANGED <<counter, call, evicted, lost>>
  BY DEF RateInv, Tick
<1>2. \A s \in Tools : /\ clock[s] \in Nat /\ clock'[s] \in Nat /\ clock[s] <= clock'[s]
                       /\ clock'[s] \in Windows
  BY <1>1, RateAssumption DEF Tick, RateTypeOK, Windows
<1>3. RateTypeOK'
  BY <1>1, <1>2 DEF Tick, RateTypeOK
<1>4. /\ PendingUncounted' /\ DeniedByBucket'
      /\ \A b : /\ CountedIn(b)' = CountedIn(b) /\ AllowedIn(b)' = AllowedIn(b)
                /\ TimelyIn(b)' = TimelyIn(b)
      /\ Entered' = Entered /\ \A d \in Entered : Bucket(d)' = Bucket(d)
  BY <1>1, CallsStand
<1>5. \A b \in Buckets : Spent(b)' = Spent(b)
  BY <1>1 DEF Spent
<1>6. CountsCalls' /\ HandedOut' /\ WindowBudget'
  BY <1>1, <1>4, <1>5 DEF CountsCalls, HandedOut, WindowBudget, TimelyIn
<1>7. ClockAhead'
  <2>1. \A d \in Entered : call[d].tool \in Tools /\ call[d].window \in Nat
    BY <1>1, CallParts DEF Windows
  <2>. QED
    BY <1>1, <1>2, <1>4, <2>1 DEF ClockAhead
<1>8. Unbroken'
  <2>1. \A b \in Buckets : clock'[b[2]] <= b[3] => clock[b[2]] <= b[3]
    BY <1>2, BucketParts
  <2>. QED
    BY <1>1, <1>4, <1>5, <2>1 DEF Unbroken
<1>. QED
  BY <1>3, <1>4, <1>6, <1>7, <1>8 DEF RateInv

LEMMA ForgetStep ==
    ASSUME RateInv, NEW b0 \in Buckets, Expire(b0) \/ Evict(b0)
    PROVE  RateInv'
<1>1. /\ RateTypeOK /\ CountsCalls /\ HandedOut /\ ClockAhead /\ Unbroken /\ WindowBudget
      /\ UNCHANGED <<clock, call>>
  BY DEF RateInv, Expire, Evict, Forget
<1>2. /\ counter'[b0] = None /\ lost'[b0] = lost[b0] + 1
      /\ \A b \in Buckets \ {b0} : counter'[b] = counter[b] /\ lost'[b] = lost[b]
  BY <1>1 DEF Expire, Evict, Forget, RateTypeOK
<1>3. evicted' \in 0..MaxEvictions /\ (evicted' = 0 => evicted = 0 /\ Expire(b0))
  BY <1>1, RateAssumption DEF Expire, Evict, RateTypeOK
<1>4. RateTypeOK'
  BY <1>1, <1>3 DEF Expire, Evict, Forget, RateTypeOK
<1>5. /\ PendingUncounted' /\ DeniedByBucket'
      /\ \A b : /\ CountedIn(b)' = CountedIn(b) /\ AllowedIn(b)' = AllowedIn(b)
                /\ TimelyIn(b)' = TimelyIn(b)
      /\ Entered' = Entered /\ \A d \in Entered : Bucket(d)' = Bucket(d)
  BY <1>1, CallsStand
<1>6. CountsCalls'
  BY <1>1, <1>2, <1>5 DEF CountsCalls
<1>7. /\ Spent(b0)' = 0
      /\ \A b \in Buckets : /\ Limit[b[2]] \in Nat /\ lost[b] \in Nat
                            /\ Spent(b) \in 0..Limit[b[2]]
                            /\ b # b0 => Spent(b)' = Spent(b)
  BY <1>1, <1>2, SpentRange, BucketParts DEF Spent, RateTypeOK
<1>8. HandedOut'
  <2>. SUFFICES ASSUME NEW b \in Buckets
                PROVE  Cardinality(AllowedIn(b)) <= Limit[b[2]] * lost'[b] + Spent(b)'
    BY <1>5 DEF HandedOut
  <2>1. Cardinality(AllowedIn(b)) <= Limit[b[2]] * lost[b] + Spent(b)
    BY <1>1 DEF HandedOut
  <2>2. /\ Limit[b[2]] * lost[b] \in Nat
        /\ Limit[b[2]] * (lost[b] + 1) = Limit[b[2]] * lost[b] + Limit[b[2]]
    BY <1>7, OneMore
  <2>3. CASE b = b0
    BY <1>2, <1>7, <2>1, <2>2, <2>3, Countable
  <2>4. CASE b # b0
    BY <1>2, <1>7, <2>1, <2>4
  <2>. QED
    BY <2>3, <2>4
<1>9. ClockAhead'
  BY <1>1, <1>2, <1>5 DEF ClockAhead
<1>10. Unbroken'
  <2>1. evicted' = 0 => ~(clock[b0[2]] <= b0[3])
    <3>1. counter[b0] # None => counter[b0].born \in Nat
      BY <1>1 DEF RateTypeOK, Windows
    <3>2. b0[3] \in Nat /\ clock[b0[2]] \in Nat
      BY <1>1, BucketParts DEF RateTypeOK, Windows
    <3>. QED
      BY <1>1, <1>3, <3>1, <3>2 DEF Expire, ClockAhead
  <2>. QED
    BY <1>1, <1>2, <1>3, <1>5, <1>7, <2>1 DEF Unbroken
<1>11. WindowBudget'
  BY <1>1, <1>3, <1>5 DEF WindowBudget, TimelyIn
<1>. QED
  BY <1>4, <1>5, <1>6, <1>8, <1>9, <1>10, <1>11 DEF RateInv

-----------------------------------------------------------------------------
LEMMA RateStep == RateInv /\ [Next]_vars => RateInv'
<1>. SUFFICES ASSUME RateInv, [Next]_vars PROVE RateInv'
  OBVIOUS
<1>1. ASSUME NEW c \in Calls, NEW caller \in Callers, NEW t \in Tools, Enter(c, caller, t)
      PROVE  RateInv'
  BY <1>1, EnterStep
<1>2. ASSUME NEW c \in Calls, Add(c) PROVE RateInv'
  BY <1>2, AddStep
<1>3. ASSUME NEW c \in Calls, Incr(c) PROVE RateInv'
  <2>1. PICK b0 : b0 = Bucket(c)
    OBVIOUS
  <2>2. c \in Entered /\ b0 \in Buckets /\ call[c].tool \in Tools /\ RateTypeOK
    BY <1>3, <2>1, CallParts DEF Incr, At, Entered, RateInv
  <2>3. counter[b0] # None /\ counter[b0].count \in Nat /\ Limit[call[c].tool] \in Nat
    BY <1>3, <2>1, <2>2, Countable, RateAssumption DEF Incr, RateTypeOK
  <2> DEFINE phase == Verdict(call[c].tool, counter[b0].count + 1)
  <2>4. /\ phase \in {"allowed", "denied", "open"}
        /\ phase = "allowed" => counter[b0].count + 1 <= Limit[call[c].tool]
        /\ phase = "denied" => counter[b0].count + 1 > Limit[call[c].tool]
    BY <2>3 DEF Verdict
  <2>5. /\ At(c, "incr") /\ Answer(c, phase)
        /\ counter' = [counter EXCEPT ![b0].count = @ + 1]
        /\ UNCHANGED <<clock, lost, evicted>>
    BY <1>3, <2>1 DEF Incr
  <2> HIDE DEF phase
  <2>. QED
    BY <2>1, <2>3, <2>4, <2>5, CountStep
<1>4. ASSUME NEW c \in Calls, IncrMisses(c) \/ FailOpen(c) PROVE RateInv'
  BY <1>4, GiveUpStep
<1>5. ASSUME NEW c \in Calls, SetOne(c) PROVE RateInv'
  BY <1>5, SetOneStep
<1>6. ASSUME NEW c \in Calls, FailOpenCounted(c) PROVE RateInv'
  <2>1. PICK b0 : b0 = Bucket(c)
    OBVIOUS
  <2>2. /\ At(c, "incr") /\ Answer(c, "open") /\ counter[b0] # None
        /\ counter' = [counter EXCEPT ![b0].count = @ + 1]
        /\ UNCHANGED <<clock, lost, evicted>>
    BY <1>6, <2>1 DEF FailOpenCounted
  <2>. QED
    BY <2>1, <2>2, CountStep
<1>7. ASSUME NEW t \in Tools, Tick(t) PROVE RateInv'
  BY <1>7, TickStep
<1>8. ASSUME NEW b \in Buckets, Expire(b) \/ Evict(b) PROVE RateInv'
  BY <1>8, ForgetStep
<1>9. CASE UNCHANGED vars
  <2>1. UNCHANGED <<clock, counter, call, evicted, lost>>
    BY <1>9 DEF vars
  <2>2. /\ PendingUncounted' /\ DeniedByBucket'
        /\ \A b : /\ CountedIn(b)' = CountedIn(b) /\ AllowedIn(b)' = AllowedIn(b)
                  /\ TimelyIn(b)' = TimelyIn(b)
        /\ Entered' = Entered /\ \A d \in Entered : Bucket(d)' = Bucket(d)
    BY <2>1, CallsStand
  <2>3. \A b \in Buckets : Spent(b)' = Spent(b)
    BY <2>1 DEF Spent
  <2>4. RateTypeOK' /\ ClockAhead'
    BY <2>1, <2>2 DEF RateInv, RateTypeOK, ClockAhead
  <2>. QED
    BY <2>1, <2>2, <2>3, <2>4 DEF RateInv, CountsCalls, HandedOut, Unbroken, WindowBudget,
                                  TimelyIn
<1>. QED
  BY <1>1, <1>2, <1>3, <1>4, <1>5, <1>6, <1>7, <1>8, <1>9 DEF Next

LEMMA RateInvariant == Spec => []RateInv
BY RateInit, RateStep, PTL DEF Spec

-----------------------------------------------------------------------------
(* The type invariant, in which an entry never counts more than there are  *)
(* calls.                                                                  *)
THEOREM RateTypeCorrect == Spec => []RateTypeOK
<1>1. RateInv => RateTypeOK
  BY DEF RateInv
<1>. QED
  BY <1>1, RateInvariant, PTL

(* "Turns a runaway loop into ~N calls" (_rails.py:82): while the cache    *)
(* drops nothing early, no more than Limit calls of a subject and tool are *)
(* made and allowed in a window, however many call at once.                *)
THEOREM WindowBudgetHolds == Spec => []WindowBudget
<1>1. RateInv => WindowBudget
  BY DEF RateInv
<1>. QED
  BY <1>1, RateInvariant, PTL

(* Every loss of a counter, a set(ck, 1) over the counts of others         *)
(* included (_rails.py:92), hands out at most one more budget.             *)
THEOREM LossBudgetHolds == Spec => []LossBudget
<1>1. RateInv => LossBudget
  <2>. SUFFICES ASSUME RateInv, NEW b \in Buckets
                PROVE  Cardinality(AllowedIn(b)) <= Limit[b[2]] * (1 + lost[b])
    BY DEF LossBudget
  <2>1. RateTypeOK /\ Cardinality(AllowedIn(b)) <= Limit[b[2]] * lost[b] + Spent(b)
    BY DEF RateInv, HandedOut
  <2>2. Limit[b[2]] \in Nat /\ lost[b] \in Nat /\ Spent(b) \in 0..Limit[b[2]]
    BY <2>1, BucketParts, SpentRange DEF RateTypeOK
  <2>3. /\ Limit[b[2]] * lost[b] \in Nat
        /\ Limit[b[2]] * (lost[b] + 1) = Limit[b[2]] * lost[b] + Limit[b[2]]
    BY <2>2, OneMore
  <2>4. lost[b] + 1 = 1 + lost[b]
    BY <2>2
  <2>. QED
    BY <2>1, <2>2, <2>3, <2>4, Countable
<1>. QED
  BY <1>1, RateInvariant, PTL

\* Of one number there are at most two callers.
LEMMA SameNumber ==
    ASSUME NEW p \in Callers, NEW q \in Callers, p.pk = q.pk
    PROVE  q \in {p, Namesake(p)}
<1>1. /\ p \in [kind : {"key", "user"}, pk : Nat]
      /\ q \in [kind : {"key", "user"}, pk : Nat]
  BY RateAssumption
<1>. QED
  BY <1>1 DEF Namesake

(* A call is denied only after Limit other calls of the same tool in the   *)
(* same window, of its own caller or of the one namesake guards.py:98      *)
(* cannot tell from it, whatever numbers keys and users have.              *)
THEOREM DeniedByOwnCallsHolds == Spec => []DeniedByOwnCalls
<1>1. RateInv => DeniedByOwnCalls
  <2>. SUFFICES ASSUME RateInv, NEW c \in Entered, call[c].phase = "denied"
                PROVE  Limit[call[c].tool] <=
                         Cardinality({d \in Entered \ {c} :
                           /\ call[d].counted
                           /\ call[d].caller \in {call[c].caller, Namesake(call[c].caller)}
                           /\ call[d].tool = call[c].tool
                           /\ call[d].window = call[c].window})
    BY DEF DeniedByOwnCalls
  <2> DEFINE own == {d \in Entered \ {c} :
                       /\ call[d].counted
                       /\ call[d].caller \in {call[c].caller, Namesake(call[c].caller)}
                       /\ call[d].tool = call[c].tool
                       /\ call[d].window = call[c].window}
  <2>1. RateTypeOK /\ Limit[call[c].tool] <= Cardinality(CountedIn(Bucket(c)) \ {c})
    BY DEF RateInv, DeniedByBucket
  <2>2. CountedIn(Bucket(c)) \ {c} \in SUBSET own
    <3>. SUFFICES ASSUME NEW d \in CountedIn(Bucket(c)) \ {c} PROVE d \in own
      OBVIOUS
    <3>1. d \in Entered /\ call[d].counted /\ Bucket(d) = Bucket(c)
      BY DEF CountedIn
    <3>2. call[d].caller \in Callers /\ call[c].caller \in Callers
      BY <2>1, <3>1, CallParts DEF CallRecord
    <3>3. /\ call[d].caller.pk = call[c].caller.pk
          /\ call[d].tool = call[c].tool /\ call[d].window = call[c].window
      BY <3>1 DEF Bucket, Subject
    <3>4. call[d].caller \in {call[c].caller, Namesake(call[c].caller)}
      BY <3>2, <3>3, SameNumber
    <3>. QED
      BY <3>1, <3>3, <3>4
  <2>3. own \in SUBSET Calls /\ IsFiniteSet(own) /\ Cardinality(own) \in Nat
    <3>1. own \in SUBSET Calls
      BY DEF Entered
    <3>. QED
      BY <3>1, FS_Subset, FS_CardinalityType, RateAssumption
  <2>4. /\ Cardinality(CountedIn(Bucket(c)) \ {c}) <= Cardinality(own)
        /\ Cardinality(CountedIn(Bucket(c)) \ {c}) \in Nat
    BY <2>2, <2>3, FS_Subset, FS_CardinalityType
  <2>5. Limit[call[c].tool] \in Nat
    BY <2>1, CallParts, RateAssumption
  <2>. QED
    BY <2>1, <2>3, <2>4, <2>5
<1>. QED
  BY <1>1, RateInvariant, PTL
=============================================================================
