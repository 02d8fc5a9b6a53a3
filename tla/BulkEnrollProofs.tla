-------------------------- MODULE BulkEnrollProofs --------------------------
(***************************************************************************)
(* Proofs about BulkEnroll, for any number of batches of any length, any   *)
(* addresses and any two ways of reading an entry.                         *)
(***************************************************************************)
EXTENDS BulkEnroll, SequenceTheorems, FiniteSetTheorems, TLAPS

Touched(c) == DOMAIN call[c].changed

\* The address of row i.
Address(c, i) == Sent[call[c].values[i]]

\* What a batch has changed, no other has, until it ends.
Apart == \A c, d \in Calls : call[c] # None /\ call[d] # None /\ c # d =>
    Touched(c) \cap Touched(d) = {}

\* A batch has a group for each row, and no more results than rows; it has
\* none before it is confirmed.
InOrder(c) ==
    /\ Len(call[c].results) <= Len(call[c].values)
    /\ call[c].groups # None => Len(call[c].groups) = Len(call[c].values)
    /\ call[c].stage = "previewed" => call[c].results = <<>> /\ Touched(c) = {}

\* A result is true as long as the batch runs, and serving the row once more
\* would change nothing: its address may come again.
StillTrue(c, i) ==
    LET entry == View(c, Address(c, i))
    IN  /\ call[c].results[i] \cap {"enrolled", "allowed"} = Says(entry)
        /\ Serve(call[c].action, entry) = entry

ServedTrue(c) == \A i \in DOMAIN call[c].results :
    ErrorAt(c, i) \/ i \in call[c].stirred \/ StillTrue(c, i)

\* A row's result is that of an entry in the group the preview put it in.
Foreseen(action, group, result) ==
    \E entry \in Entry : /\ Group(entry) = group
                         /\ result = Outcome(action, entry, Serve(action, entry))

\* As long as nothing has come between, the rows served so far have turned
\* out as previewed, and the others are as they were.
Followed(c) ==
    /\ Plain(call[c].values)
    /\ call[c].groups # None
    /\ \A i \in DOMAIN call[c].results : ~ ErrorAt(c, i)

RowForetold(c, i) ==
    IF i \in DOMAIN call[c].results
    THEN Foreseen(call[c].action, call[c].groups[i], call[c].results[i])
    ELSE Address(c, i) \notin Touched(c) /\ Group(roster[Address(c, i)]) = call[c].groups[i]

StillForetold(c) ==
    Followed(c) => \A i \in DOMAIN call[c].values : RowForetold(c, i)

CallInv(c) == InOrder(c) /\ ServedTrue(c) /\ StillForetold(c)

BulkInv == BulkTypeOK /\ Apart /\ \A c \in Calls : call[c] # None => CallInv(c)

-----------------------------------------------------------------------------
(* The data.                                                               *)

LEMMA BoundedSeqIs ==
    ASSUME NEW S, NEW n \in Nat, NEW s
    PROVE  s \in BoundedSeq(S, n) <=> s \in Seq(S) /\ Len(s) <= n
<1>1. ASSUME s \in BoundedSeq(S, n) PROVE s \in Seq(S) /\ Len(s) <= n
  <2>1. PICK m \in 0..n : s \in [1..m -> S]
    BY <1>1 DEF BoundedSeq, SeqOf
  <2>. QED
    BY <2>1
<1>2. ASSUME s \in Seq(S), Len(s) <= n PROVE s \in BoundedSeq(S, n)
  <2>1. Len(s) \in 0..n /\ s \in [1..Len(s) -> S]
    BY <1>2
  <2>. QED
    BY <2>1 DEF BoundedSeq, SeqOf
<1>. QED
  BY <1>1, <1>2

LEMMA ServeType ==
    ASSUME NEW action \in {"enroll", "unenroll"}, NEW entry \in Entry
    PROVE  /\ Serve(action, entry) \in Entry
           /\ Serve(action, Serve(action, entry)) = Serve(action, entry)
<1>1. /\ EnrollEmail(entry) \in Entry /\ UnenrollEmail(entry) \in Entry
  BY DEF Entry, EnrollEmail, UnenrollEmail
<1>2. EnrollEmail(EnrollEmail(entry)) = EnrollEmail(entry)
  BY DEF Entry, EnrollEmail
<1>3. UnenrollEmail(UnenrollEmail(entry)) = UnenrollEmail(entry)
  BY DEF Entry, UnenrollEmail
<1>. QED
  BY <1>1, <1>2, <1>3 DEF Serve

LEMMA NobodyIs ==
    /\ Nobody \in Entry /\ Says(Nobody) = {}
    /\ Serve("unenroll", Nobody) = Nobody
BY DEF Nobody, Entry, Says, Serve, UnenrollEmail

LEMMA OutcomeIs ==
    ASSUME NEW action, NEW before, NEW after
    PROVE  /\ Outcome(action, before, after) \in Report
           /\ "error" \notin Outcome(action, before, after)
           /\ Outcome(action, before, after) \cap {"enrolled", "allowed"} = Says(after)
BY DEF Outcome, Says, Was, Report

LEMMA ErrorIs == {"error"} \in Report
BY DEF Report

\* The sets the fields of a call range over.
GroupLists == BoundedSeq(Groups, MaxRows) \cup {None}
ResultLists == BoundedSeq(Report, MaxRows)
Changes == UNION {[touched -> Entry] : touched \in SUBSET Emails}

Calling(V, G, R, C, T) ==
    [stage : {"previewed", "rows"}, action : {"enroll", "unenroll"}, values : V,
     groups : G, results : R, changed : C, spoiled : BOOLEAN, stirred : T]

LEMMA CallIs == Call = Calling(Batches, GroupLists, ResultLists, Changes, SUBSET (1..MaxRows))
BY DEF Call, Calling, GroupLists, ResultLists, Changes

LEMMA ChangesIs ==
    ASSUME NEW f \in Changes
    PROVE  DOMAIN f \in SUBSET Emails /\ f \in [DOMAIN f -> Entry]
<1>1. PICK touched \in SUBSET Emails : f \in [touched -> Entry]
  BY DEF Changes
<1>2. DOMAIN f = touched
  BY <1>1
<1>. QED
  BY <1>1, <1>2

LEMMA ChangesHas ==
    ASSUME NEW touched \in SUBSET Emails, NEW f \in [touched -> Entry]
    PROVE  f \in Changes
BY DEF Changes

\* The fields of the call m.
Fields(m, stage, action, values, groups, results, changed, spoiled, stirred) ==
    /\ m.stage = stage /\ m.action = action /\ m.values = values
    /\ m.groups = groups /\ m.results = results /\ m.changed = changed
    /\ m.spoiled = spoiled /\ m.stirred = stirred

LEMMA CallRecord ==
    ASSUME NEW V, NEW G, NEW R, NEW C, NEW T, NEW k \in Calling(V, G, R, C, T)
    PROVE  k = [stage |-> k.stage, action |-> k.action, values |-> k.values,
                groups |-> k.groups, results |-> k.results, changed |-> k.changed,
                spoiled |-> k.spoiled, stirred |-> k.stirred]
BY DEF Calling

\* What a step may put in the place of a field.
LEMMA PutStage ==
    ASSUME NEW V, NEW G, NEW R, NEW C, NEW T, NEW k \in Calling(V, G, R, C, T)
    PROVE  LET m == [k EXCEPT !.stage = "rows"]
           IN  /\ m \in Calling(V, G, R, C, T)
               /\ Fields(m, "rows", k.action, k.values, k.groups,
                         k.results, k.changed, k.spoiled, k.stirred)
<1>. DEFINE m == [k EXCEPT !.stage = "rows"]
<1>1. k = [stage |-> k.stage, action |-> k.action, values |-> k.values,
           groups |-> k.groups, results |-> k.results, changed |-> k.changed,
           spoiled |-> k.spoiled, stirred |-> k.stirred]
  BY CallRecord
<1>2. m = [stage |-> "rows", action |-> k.action, values |-> k.values,
           groups |-> k.groups, results |-> k.results, changed |-> k.changed,
           spoiled |-> k.spoiled, stirred |-> k.stirred]
  BY <1>1
<1>3. m \in Calling(V, G, R, C, T)
  BY <1>2 DEF Calling
<1>4. Fields(m, "rows", k.action, k.values, k.groups,
             k.results, k.changed, k.spoiled, k.stirred)
  BY <1>2 DEF Fields
<1>. QED
  BY <1>3, <1>4

LEMMA PutGroups ==
    ASSUME NEW V, NEW G, NEW R, NEW C, NEW T, NEW k \in Calling(V, G, R, C, T),
           NEW g \in G
    PROVE  LET m == [k EXCEPT !.groups = g]
           IN  /\ m \in Calling(V, G, R, C, T)
               /\ Fields(m, k.stage, k.action, k.values, g,
                         k.results, k.changed, k.spoiled, k.stirred)
<1>. DEFINE m == [k EXCEPT !.groups = g]
<1>1. k = [stage |-> k.stage, action |-> k.action, values |-> k.values,
           groups |-> k.groups, results |-> k.results, changed |-> k.changed,
           spoiled |-> k.spoiled, stirred |-> k.stirred]
  BY CallRecord
<1>2. m = [stage |-> k.stage, action |-> k.action, values |-> k.values,
           groups |-> g, results |-> k.results, changed |-> k.changed,
           spoiled |-> k.spoiled, stirred |-> k.stirred]
  BY <1>1
<1>3. m \in Calling(V, G, R, C, T)
  BY <1>2 DEF Calling
<1>4. Fields(m, k.stage, k.action, k.values, g,
             k.results, k.changed, k.spoiled, k.stirred)
  BY <1>2 DEF Fields
<1>. QED
  BY <1>3, <1>4

LEMMA PutResults ==
    ASSUME NEW V, NEW G, NEW R, NEW C, NEW T, NEW k \in Calling(V, G, R, C, T),
           NEW r \in R
    PROVE  LET m == [k EXCEPT !.results = r]
           IN  /\ m \in Calling(V, G, R, C, T)
               /\ Fields(m, k.stage, k.action, k.values, k.groups,
                         r, k.changed, k.spoiled, k.stirred)
<1>. DEFINE m == [k EXCEPT !.results = r]
<1>1. k = [stage |-> k.stage, action |-> k.action, values |-> k.values,
           groups |-> k.groups, results |-> k.results, changed |-> k.changed,
           spoiled |-> k.spoiled, stirred |-> k.stirred]
  BY CallRecord
<1>2. m = [stage |-> k.stage, action |-> k.action, values |-> k.values,
           groups |-> k.groups, results |-> r, changed |-> k.changed,
           spoiled |-> k.spoiled, stirred |-> k.stirred]
  BY <1>1
<1>3. m \in Calling(V, G, R, C, T)
  BY <1>2 DEF Calling
<1>4. Fields(m, k.stage, k.action, k.values, k.groups,
             r, k.changed, k.spoiled, k.stirred)
  BY <1>2 DEF Fields
<1>. QED
  BY <1>3, <1>4

LEMMA PutChanged ==
    ASSUME NEW V, NEW G, NEW R, NEW C, NEW T, NEW k \in Calling(V, G, R, C, T),
           NEW f \in C
    PROVE  LET m == [k EXCEPT !.changed = f]
           IN  /\ m \in Calling(V, G, R, C, T)
               /\ Fields(m, k.stage, k.action, k.values, k.groups,
                         k.results, f, k.spoiled, k.stirred)
<1>. DEFINE m == [k EXCEPT !.changed = f]
<1>1. k = [stage |-> k.stage, action |-> k.action, values |-> k.values,
           groups |-> k.groups, results |-> k.results, changed |-> k.changed,
           spoiled |-> k.spoiled, stirred |-> k.stirred]
  BY CallRecord
<1>2. m = [stage |-> k.stage, action |-> k.action, values |-> k.values,
           groups |-> k.groups, results |-> k.results, changed |-> f,
           spoiled |-> k.spoiled, stirred |-> k.stirred]
  BY <1>1
<1>3. m \in Calling(V, G, R, C, T)
  BY <1>2 DEF Calling
<1>4. Fields(m, k.stage, k.action, k.values, k.groups,
             k.results, f, k.spoiled, k.stirred)
  BY <1>2 DEF Fields
<1>. QED
  BY <1>3, <1>4

LEMMA PutSpoiled ==
    ASSUME NEW V, NEW G, NEW R, NEW C, NEW T, NEW k \in Calling(V, G, R, C, T),
           NEW b \in BOOLEAN
    PROVE  LET m == [k EXCEPT !.spoiled = b]
           IN  /\ m \in Calling(V, G, R, C, T)
               /\ Fields(m, k.stage, k.action, k.values, k.groups,
                         k.results, k.changed, b, k.stirred)
<1>. DEFINE m == [k EXCEPT !.spoiled = b]
<1>1. k = [stage |-> k.stage, action |-> k.action, values |-> k.values,
           groups |-> k.groups, results |-> k.results, changed |-> k.changed,
           spoiled |-> k.spoiled, stirred |-> k.stirred]
  BY CallRecord
<1>2. m = [stage |-> k.stage, action |-> k.action, values |-> k.values,
           groups |-> k.groups, results |-> k.results, changed |-> k.changed,
           spoiled |-> b, stirred |-> k.stirred]
  BY <1>1
<1>3. m \in Calling(V, G, R, C, T)
  BY <1>2 DEF Calling
<1>4. Fields(m, k.stage, k.action, k.values, k.groups,
             k.results, k.changed, b, k.stirred)
  BY <1>2 DEF Fields
<1>. QED
  BY <1>3, <1>4

LEMMA PutStirred ==
    ASSUME NEW V, NEW G, NEW R, NEW C, NEW T, NEW k \in Calling(V, G, R, C, T),
           NEW t \in T
    PROVE  LET m == [k EXCEPT !.stirred = t]
           IN  /\ m \in Calling(V, G, R, C, T)
               /\ Fields(m, k.stage, k.action, k.values, k.groups,
                         k.results, k.changed, k.spoiled, t)
<1>. DEFINE m == [k EXCEPT !.stirred = t]
<1>1. k = [stage |-> k.stage, action |-> k.action, values |-> k.values,
           groups |-> k.groups, results |-> k.results, changed |-> k.changed,
           spoiled |-> k.spoiled, stirred |-> k.stirred]
  BY CallRecord
<1>2. m = [stage |-> k.stage, action |-> k.action, values |-> k.values,
           groups |-> k.groups, results |-> k.results, changed |-> k.changed,
           spoiled |-> k.spoiled, stirred |-> t]
  BY <1>1
<1>3. m \in Calling(V, G, R, C, T)
  BY <1>2 DEF Calling
<1>4. Fields(m, k.stage, k.action, k.values, k.groups,
             k.results, k.changed, k.spoiled, t)
  BY <1>2 DEF Fields
<1>. QED
  BY <1>3, <1>4

-----------------------------------------------------------------------------
(* What a call holds.                                                      *)

LEMMA CallParts ==
    ASSUME BulkTypeOK, NEW c \in Calls, call[c] # None
    PROVE  /\ call[c] \in Calling(Batches, GroupLists, ResultLists, Changes,
                                  SUBSET (1..MaxRows))
           /\ call[c].action \in {"enroll", "unenroll"}
           /\ call[c].values \in Seq(Values) /\ Len(call[c].values) <= MaxRows
           /\ call[c].results \in Seq(Report)
           /\ call[c].changed \in [Touched(c) -> Entry]
           /\ Touched(c) \in SUBSET Emails
           /\ call[c].stirred \in SUBSET (1..MaxRows)
<1>1. call[c] \in Calling(Batches, GroupLists, ResultLists, Changes, SUBSET (1..MaxRows))
  BY CallIs DEF BulkTypeOK
<1>2. /\ call[c].action \in {"enroll", "unenroll"} /\ call[c].values \in Batches
      /\ call[c].results \in ResultLists /\ call[c].changed \in Changes
      /\ call[c].stirred \in SUBSET (1..MaxRows)
  BY <1>1 DEF Calling
<1>3. call[c].values \in Seq(Values) /\ Len(call[c].values) <= MaxRows
  BY <1>2, BoundedSeqIs, BulkAssumption DEF Batches
<1>4. call[c].results \in Seq(Report)
  BY <1>2, BoundedSeqIs, BulkAssumption DEF ResultLists
<1>5. /\ DOMAIN call[c].changed \in SUBSET Emails
      /\ call[c].changed \in [DOMAIN call[c].changed -> Entry]
  BY <1>2, ChangesIs
<1>. QED
  BY <1>1, <1>2, <1>3, <1>4, <1>5 DEF Touched

LEMMA AddressIs ==
    ASSUME BulkTypeOK, NEW c \in Calls, call[c] # None, NEW i \in DOMAIN call[c].values
    PROVE  Address(c, i) \in Emails \cup {None}
<1>1. call[c].values \in Seq(Values)
  BY CallParts
<1>2. call[c].values[i] \in Values
  BY <1>1
<1>. QED
  BY <1>2, BulkAssumption DEF Address

LEMMA ViewIs ==
    ASSUME BulkTypeOK, NEW c \in Calls, call[c] # None, NEW e \in Emails \cup {None}
    PROVE  /\ View(c, e) \in Entry
           /\ e = None => View(c, e) = Nobody
           /\ e \in Emails \ Touched(c) => View(c, e) = roster[e]
           /\ e \in Touched(c) => View(c, e) = call[c].changed[e]
<1>1. call[c].changed \in [Touched(c) -> Entry] /\ Touched(c) \in SUBSET Emails
  BY CallParts
<1>2. roster \in [Emails -> Entry]
  BY DEF BulkTypeOK
<1>3. Nobody \in Entry
  BY NobodyIs
<1>4. View(c, e) = IF e \in Touched(c) THEN call[c].changed[e] ELSE At(e)
  BY DEF View, Touched
<1>5. At(e) = IF e = None THEN Nobody ELSE roster[e]
  BY DEF At
<1>. QED
  BY <1>1, <1>2, <1>3, <1>4, <1>5, BulkAssumption

\* A call m that was c's until others changed some addresses.
Noticed(c, moved, m) ==
    /\ m.stage = call[c].stage /\ m.action = call[c].action
    /\ m.values = call[c].values /\ m.results = call[c].results
    /\ m.changed = call[c].changed
    /\ call[c].stirred \subseteq m.stirred
    /\ m.groups # None => /\ m.groups = call[c].groups
                          /\ \A i \in DOMAIN call[c].values : Address(c, i) \notin moved
    /\ \A i \in DOMAIN call[c].results : Address(c, i) \in moved => i \in m.stirred

LEMMA DisturbedIs ==
    ASSUME BulkTypeOK, NEW c \in Calls, call[c] # None, InOrder(c), NEW moved, NEW m,
           m = Disturbed(call[c], moved)
    PROVE  /\ m \in Calling(Batches, GroupLists, ResultLists, Changes, SUBSET (1..MaxRows))
           /\ Noticed(c, moved, m)
<1>. DEFINE k == call[c]
            hit == Hit(k, moved)
            t == k.stirred \cup (hit \cap DOMAIN k.results)
            k1 == [k EXCEPT !.groups = None]
            T == SUBSET (1..MaxRows)
<1>1. /\ k \in Calling(Batches, GroupLists, ResultLists, Changes, T)
      /\ k.values \in Seq(Values) /\ k.results \in Seq(Report)
      /\ k.stirred \in SUBSET (1..MaxRows)
      /\ Len(k.results) <= Len(k.values) /\ Len(k.values) <= MaxRows
  BY CallParts DEF InOrder
<1>2. DOMAIN k.results \subseteq DOMAIN k.values /\ DOMAIN k.results \subseteq 1..MaxRows
  <2>1. /\ DOMAIN k.results = 1..Len(k.results) /\ DOMAIN k.values = 1..Len(k.values)
        /\ Len(k.results) \in Nat /\ Len(k.values) \in Nat /\ MaxRows \in Nat
    BY <1>1, BulkAssumption, LenProperties
  <2>. QED
    BY <1>1, <2>1
<1>3. hit = {i \in DOMAIN k.values : Address(c, i) \in moved}
  BY DEF Hit, Address
<1>4. t \in T
  BY <1>1, <1>2
<1>5. m = IF hit = {} THEN k ELSE [k EXCEPT !.groups = None, !.stirred = t]
  BY DEF Disturbed
<1>6. CASE hit = {}
  BY <1>1, <1>2, <1>3, <1>5, <1>6 DEF Noticed
<1>7. CASE hit # {}
  <2>1. None \in GroupLists
    BY DEF GroupLists
  <2>. HIDE DEF k, hit, T
  <2>2. /\ k1 \in Calling(Batches, GroupLists, ResultLists, Changes, T)
        /\ Fields(k1, k.stage, k.action, k.values, None,
                  k.results, k.changed, k.spoiled, k.stirred)
    BY <1>1, <2>1, PutGroups
  <2>3. m = [k1 EXCEPT !.stirred = t]
    BY <1>5, <1>7
  <2>. HIDE DEF k1, t
  <2>4. /\ m \in Calling(Batches, GroupLists, ResultLists, Changes, T)
        /\ Fields(m, k1.stage, k1.action, k1.values, k1.groups,
                  k1.results, k1.changed, k1.spoiled, t)
    BY <1>4, <2>2, <2>3, PutStirred
  <2>5. /\ m.stage = k.stage /\ m.action = k.action /\ m.values = k.values
        /\ m.results = k.results /\ m.changed = k.changed /\ m.groups = None
        /\ m.stirred = t
    BY <2>2, <2>4 DEF Fields
  <2>6. k.stirred \subseteq t /\ \A i \in DOMAIN k.results : i \in hit => i \in t
    BY DEF t
  <2>. QED
    BY <1>2, <1>3, <2>4, <2>5, <2>6 DEF k, T, Noticed
<1>. QED
  BY <1>6, <1>7

-----------------------------------------------------------------------------
(* The steps.  What others change disturbs a call, or leaves it as it is.  *)

LEMMA OthersKeep ==
    ASSUME BulkInv, NEW c \in Calls, call[c] # None, NEW moved,
           call'[c] = Disturbed(call[c], moved),
           \A e \in Emails : e \notin moved => roster'[e] = roster[e]
    PROVE  CallInv(c)' /\ Touched(c)' = Touched(c)
<1>. DEFINE k == call[c]
            m == call'[c]
<1>1. BulkTypeOK /\ InOrder(c) /\ ServedTrue(c) /\ StillForetold(c)
  BY DEF BulkInv, CallInv
<1>2. /\ m.stage = k.stage /\ m.action = k.action
      /\ m.values = k.values /\ m.results = k.results
      /\ m.changed = k.changed
      /\ k.stirred \subseteq m.stirred
      /\ m.groups # None => /\ m.groups = k.groups
                            /\ \A i \in DOMAIN k.values : Address(c, i) \notin moved
      /\ \A i \in DOMAIN k.results : Address(c, i) \in moved => i \in m.stirred
  <2>1. Noticed(c, moved, m)
    BY <1>1, DisturbedIs
  <2>. QED
    BY <2>1 DEF Noticed
<1>3. /\ DOMAIN k.results = 1..Len(k.results) /\ DOMAIN k.values = 1..Len(k.values)
      /\ Len(k.results) \in Nat /\ Len(k.values) \in Nat
      /\ Len(k.results) <= Len(k.values)
  BY <1>1, CallParts, LenProperties DEF InOrder
<1>4. Touched(c)' = Touched(c)
  BY <1>2 DEF Touched
<1>5. InOrder(c)'
  BY <1>1, <1>2, <1>4 DEF InOrder
<1>7. \A i \in DOMAIN k.values :
        Address(c, i) \in Emails \cup {None} /\ Address(c, i)' = Address(c, i)
  BY <1>1, <1>2, AddressIs DEF Address
<1>8. ServedTrue(c)'
  <2>. SUFFICES ASSUME NEW i \in DOMAIN k.results,
                       ~ ErrorAt(c, i)', i \notin m.stirred
                PROVE  StillTrue(c, i)'
    BY <1>2 DEF ServedTrue
  <2>1. ~ ErrorAt(c, i) /\ i \notin k.stirred /\ i \in DOMAIN k.values
    BY <1>2, <1>3 DEF ErrorAt
  <2>2. StillTrue(c, i) /\ Address(c, i) \notin moved
    BY <1>1, <1>2, <2>1 DEF ServedTrue
  <2>3. View(c, Address(c, i))' = View(c, Address(c, i))
    <3>. DEFINE e == Address(c, i)
    <3>1. e \in Emails \cup {None} /\ e \notin moved /\ e' = e
      BY <1>7, <2>1, <2>2
    <3>2. /\ m.changed = k.changed
          /\ At(e)' = At(e)
      BY <1>2, <3>1 DEF At
    <3>. QED
      BY <3>1, <3>2 DEF View
  <2>. QED
    BY <1>2, <2>2, <2>3 DEF StillTrue
<1>9. StillForetold(c)'
  <2>. SUFFICES ASSUME Followed(c)', NEW i \in DOMAIN k.values
                PROVE  RowForetold(c, i)'
    BY <1>2 DEF StillForetold
  <2>1. /\ m.groups = k.groups /\ Address(c, i) \notin moved
        /\ Followed(c)
    BY <1>2 DEF Followed, ErrorAt
  <2>2. RowForetold(c, i)
    BY <1>1, <2>1 DEF StillForetold
  <2>3. Address(c, i) # None /\ Address(c, i) \in Emails
    BY <1>7, <2>1 DEF Followed, Plain, Tidy, Address
  <2>4. roster'[Address(c, i)] = roster[Address(c, i)]
    BY <2>1, <2>3
  <2>. QED
    BY <1>2, <1>4, <1>7, <2>1, <2>2, <2>4 DEF RowForetold
<1>. QED
  BY <1>4, <1>5, <1>8, <1>9 DEF CallInv

LEMMA OthersType ==
    ASSUME BulkInv, NEW c \in Calls, NEW moved
    PROVE  Disturbed(call[c], moved) \in Call \cup {None}
<1>1. CASE call[c] = None
  BY <1>1 DEF Disturbed
<1>2. CASE call[c] # None
  BY <1>2, DisturbedIs, CallIs DEF BulkInv, CallInv
<1>. QED
  BY <1>1, <1>2

\* A step of the platform changes one entry, which no batch has changed.
LEMMA ChangeInv ==
    ASSUME BulkInv, NEW e \in Emails, NEW entry \in Entry, Change(e, entry)
    PROVE  BulkInv'
<1>1. /\ roster' = [roster EXCEPT ![e] = entry]
      /\ \A c \in Calls : call'[c] = Disturbed(call[c], {e})
      /\ call' = [c \in Calls |-> Disturbed(call[c], {e})]
  BY DEF Change
<1>2. BulkTypeOK'
  BY <1>1, OthersType DEF BulkInv, BulkTypeOK
<1>3. \A f \in Emails : f \notin {e} => roster'[f] = roster[f]
  BY <1>1 DEF BulkInv, BulkTypeOK
<1>4. \A c \in Calls : call[c] = None => call'[c] = None
  BY <1>1 DEF Disturbed
<1>5. \A c \in Calls : call'[c] # None => CallInv(c)' /\ Touched(c)' = Touched(c)
  BY <1>1, <1>3, <1>4, OthersKeep
<1>6. Apart'
  BY <1>4, <1>5 DEF BulkInv, Apart
<1>. QED
  BY <1>2, <1>5, <1>6 DEF BulkInv

LEMMA PlatformInv ==
    ASSUME BulkInv, NEW e \in Emails,
           SignUp(e) \/ CreateUser(e) \/ Unenroll(e) \/ Enroll(e)
    PROVE  BulkInv'
<1>. roster[e] \in Entry
  BY DEF BulkInv, BulkTypeOK
<1>1. CASE SignUp(e)
  <2>1. PICK enrolled \in {FALSE, roster[e].invited} :
          Change(e, [Registered(roster[e]) EXCEPT !.enrolled = enrolled])
    BY <1>1 DEF SignUp
  <2>2. [Registered(roster[e]) EXCEPT !.enrolled = enrolled] \in Entry
    BY DEF Registered, Entry
  <2>. QED
    BY <2>1, <2>2, ChangeInv
<1>2. CASE CreateUser(e)
  <2>1. Registered(roster[e]) \in Entry
    BY DEF Registered, Entry
  <2>. QED
    BY <1>2, <2>1, ChangeInv DEF CreateUser
<1>3. CASE Unenroll(e)
  <2>1. Unenrolled(roster[e]) \in Entry
    BY DEF Unenrolled, Entry
  <2>. QED
    BY <1>3, <2>1, ChangeInv DEF Unenroll
<1>4. CASE Enroll(e)
  <2>1. Enrolled(roster[e]) \in Entry
    BY DEF Enrolled, Entry
  <2>. QED
    BY <1>4, <2>1, ChangeInv DEF Enroll
<1>. QED
  BY <1>1, <1>2, <1>3, <1>4

\* One call takes a step and the others are as they were.
LEMMA OneCall ==
    ASSUME BulkInv, NEW c \in Calls, roster' = roster,
           \A d \in Calls \ {c} : call'[d] = call[d],
           call' \in [Calls -> Call \cup {None}],
           call'[c] # None => CallInv(c)',
           \A d \in Calls \ {c} : call[d] # None /\ call'[c] # None =>
              Touched(c)' \cap Touched(d) = {}
    PROVE  BulkInv'
<1>1. BulkTypeOK'
  BY DEF BulkInv, BulkTypeOK
<1>2. ASSUME NEW d \in Calls, d # c, call[d] # None
      PROVE  CallInv(d)' /\ Touched(d)' = Touched(d)
  <2>1. call'[d] = call[d] /\ CallInv(d)
    BY <1>2 DEF BulkInv
  <2>2. Touched(d)' = Touched(d)
    BY <2>1 DEF Touched
  <2>3. InOrder(d)' = InOrder(d)
    BY <2>1, <2>2 DEF InOrder
  <2>4. ServedTrue(d)' = ServedTrue(d)
    BY <2>1 DEF ServedTrue, ErrorAt, StillTrue, View, At, Address
  <2>5. StillForetold(d)' = StillForetold(d)
    BY <2>1, <2>2 DEF StillForetold, Followed, ErrorAt, RowForetold, Address
  <2>. QED
    BY <2>1, <2>2, <2>3, <2>4, <2>5 DEF CallInv
<1>3. Apart'
  BY <1>2 DEF BulkInv, Apart
<1>. QED
  BY <1>1, <1>2, <1>3 DEF BulkInv

LEMMA ClassifyType == ASSUME NEW v PROVE Classify(v) \in Groups
BY DEF Classify, Group, Groups

LEMMA PreviewInv ==
    ASSUME BulkInv, NEW c \in Calls, NEW action \in {"enroll", "unenroll"},
           NEW values \in Batches, Preview(c, action, values)
    PROVE  BulkInv'
<1>. DEFINE groups == [i \in DOMAIN values |-> Classify(values[i])]
            k == [stage |-> "previewed", action |-> action, values |-> values,
                  groups |-> groups, results |-> <<>>, changed |-> <<>>,
                  spoiled |-> FALSE, stirred |-> {}]
<1>1. /\ call' = [call EXCEPT ![c] = k] /\ roster' = roster
      /\ call \in [Calls -> Call \cup {None}]
  BY DEF Preview, BulkInv, BulkTypeOK
<1>2. /\ values \in Seq(Values) /\ Len(values) <= MaxRows /\ MaxRows \in Nat
      /\ Len(values) \in Nat /\ DOMAIN values = 1..Len(values)
  BY BoundedSeqIs, BulkAssumption DEF Batches
<1>3. groups \in Seq(Groups) /\ Len(groups) = Len(values) /\ DOMAIN groups = DOMAIN values
  BY <1>2, ClassifyType
<1>4. k \in Call
  <2>1. groups \in GroupLists
    BY <1>2, <1>3, BoundedSeqIs DEF GroupLists
  <2>2. <<>> \in ResultLists
    <3>1. <<>> \in Seq(Report) /\ Len(<<>>) = 0 /\ MaxRows \in Nat
      BY BulkAssumption
    <3>2. Len(<<>>) <= MaxRows
      BY <3>1
    <3>. QED
      BY <3>1, <3>2, BoundedSeqIs DEF ResultLists
  <2>3. <<>> \in Changes
    <3>1. <<>> \in [{} -> Entry] /\ {} \in SUBSET Emails
      OBVIOUS
    <3>. QED
      BY <3>1, ChangesHas
  <2>4. k \in Calling(Batches, GroupLists, ResultLists, Changes, SUBSET (1..MaxRows))
    <3>. HIDE DEF groups
    <3>. QED
      BY <2>1, <2>2, <2>3 DEF Calling
  <2>. QED
    BY <2>4, CallIs
<1>5. /\ k.stage = "previewed" /\ k.results = <<>> /\ k.values = values
      /\ k.groups = groups /\ DOMAIN k.changed = {}
  OBVIOUS
<1>. HIDE DEF k
<1>6. call'[c] = k /\ \A d \in Calls \ {c} : call'[d] = call[d]
  BY <1>1
<1>7. Touched(c)' = {} /\ DOMAIN call'[c].results = {} /\ Len(call'[c].results) = 0
  BY <1>5, <1>6 DEF Touched
<1>8. InOrder(c)'
  BY <1>2, <1>3, <1>5, <1>6, <1>7 DEF InOrder
<1>9. ServedTrue(c)'
  BY <1>7 DEF ServedTrue
<1>10. StillForetold(c)'
  <2>. SUFFICES ASSUME Plain(values), NEW i \in DOMAIN values
                PROVE  RowForetold(c, i)'
    BY <1>5, <1>6 DEF StillForetold, Followed
  <2>1. Clean[values[i]] # None /\ Sent[values[i]] = Clean[values[i]]
    BY DEF Plain, Tidy
  <2>2. groups[i] = Group(roster[Sent[values[i]]])
    BY <2>1 DEF Classify
  <2>. QED
    BY <1>1, <1>5, <1>6, <1>7, <2>2 DEF RowForetold, Address
<1>11. call' \in [Calls -> Call \cup {None}]
  BY <1>1, <1>4
<1>. QED
  BY <1>1, <1>6, <1>7, <1>8, <1>9, <1>10, <1>11, OneCall DEF CallInv

LEMMA ConfirmInv ==
    ASSUME BulkInv, NEW c \in Calls, Confirm(c)
    PROVE  BulkInv'
<1>. DEFINE k == call[c]
            m == [k EXCEPT !.stage = "rows"]
            T == SUBSET (1..MaxRows)
<1>1. /\ call' = [call EXCEPT ![c] = m] /\ roster' = roster /\ k # None
      /\ call \in [Calls -> Call \cup {None}] /\ BulkTypeOK /\ CallInv(c)
  BY DEF Confirm, BulkInv, BulkTypeOK
<1>2. k \in Calling(Batches, GroupLists, ResultLists, Changes, T)
  BY <1>1, CallParts
<1>3. /\ m \in Calling(Batches, GroupLists, ResultLists, Changes, T)
      /\ Fields(m, "rows", k.action, k.values, k.groups,
                k.results, k.changed, k.spoiled, k.stirred)
  <2>. HIDE DEF k, T
  <2>. QED
    BY <1>2, PutStage
<1>4. call'[c] = m /\ \A d \in Calls \ {c} : call'[d] = call[d]
  BY <1>1
<1>5. call' \in [Calls -> Call \cup {None}]
  BY <1>1, <1>3, CallIs
<1>. HIDE DEF m
<1>6. Touched(c)' = Touched(c)
  BY <1>3, <1>4 DEF Touched, Fields
<1>7. InOrder(c)'
  BY <1>1, <1>3, <1>4, <1>6 DEF CallInv, InOrder, Fields
<1>8. ServedTrue(c)'
  <2>1. m.results = <<>>
    BY <1>1, <1>3 DEF Confirm, CallInv, InOrder, Fields
  <2>. QED
    BY <1>4, <2>1 DEF ServedTrue
<1>9. StillForetold(c)'
  BY <1>1, <1>3, <1>4, <1>6
  DEF CallInv, StillForetold, Fields, Followed, ErrorAt, RowForetold, Address
<1>10. \A d \in Calls \ {c} : call[d] # None => Touched(c)' \cap Touched(d) = {}
  BY <1>1, <1>6 DEF BulkInv, Apart
<1>. QED
  BY <1>1, <1>4, <1>5, <1>7, <1>8, <1>9, <1>10, OneCall DEF CallInv

LEMMA GiveUpInv ==
    ASSUME BulkInv, NEW c \in Calls, GiveUp(c)
    PROVE  BulkInv'
<1>1. /\ call' = [call EXCEPT ![c] = None] /\ roster' = roster
      /\ call \in [Calls -> Call \cup {None}]
  BY DEF GiveUp, BulkInv, BulkTypeOK
<1>2. /\ call'[c] = None /\ \A d \in Calls \ {c} : call'[d] = call[d]
      /\ call' \in [Calls -> Call \cup {None}]
  BY <1>1
<1>. QED
  BY <1>1, <1>2, OneCall

-----------------------------------------------------------------------------
(* The rows.                                                               *)

LEMMA CurrentIs ==
    ASSUME BulkInv, NEW c \in Calls, MoreRows(c)
    PROVE  /\ call[c] # None /\ call[c].stage = "rows" /\ CallInv(c)
           /\ Len(call[c].results) \in Nat /\ Len(call[c].values) \in Nat
           /\ Len(call[c].results) + 1 <= Len(call[c].values)
           /\ DOMAIN call[c].results = 1..Len(call[c].results)
           /\ DOMAIN call[c].values = 1..Len(call[c].values)
           /\ Current(c) = Address(c, Len(call[c].results) + 1)
           /\ Current(c) \in Emails \cup {None}
           /\ View(c, Current(c)) \in Entry
<1>1. call[c] # None /\ call[c].stage = "rows" /\ CallInv(c) /\ BulkTypeOK
      /\ Len(call[c].results) < Len(call[c].values)
  BY DEF BulkInv, MoreRows, Running
<1>2. call[c].results \in Seq(Report) /\ call[c].values \in Seq(Values)
  BY <1>1, CallParts
<1>3. /\ Len(call[c].results) \in Nat /\ Len(call[c].values) \in Nat
      /\ DOMAIN call[c].results = 1..Len(call[c].results)
      /\ DOMAIN call[c].values = 1..Len(call[c].values)
  BY <1>2, LenProperties
<1>4. Len(call[c].results) + 1 <= Len(call[c].values)
  BY <1>1, <1>3
<1>5. Current(c) = Address(c, Len(call[c].results) + 1)
  BY DEF Current, Address
<1>6. Current(c) \in Emails \cup {None}
  BY <1>1, <1>3, <1>4, <1>5, AddressIs
<1>. QED
  BY <1>1, <1>3, <1>4, <1>5, <1>6, ViewIs

\* The call m that c becomes when its row reports says: its entry is then after.
RowDone(c, says, after, m) ==
    /\ m \in Calling(Batches, GroupLists, ResultLists, Changes, SUBSET (1..MaxRows))
    /\ m.stage = call[c].stage /\ m.action = call[c].action
    /\ m.values = call[c].values /\ m.groups = call[c].groups
    /\ m.results = Append(call[c].results, says)
    /\ m.stirred = call[c].stirred
    /\ "error" \in says \/ /\ says = Outcome(call[c].action, View(c, Current(c)), after)
                           /\ after = Serve(call[c].action, View(c, Current(c)))
    /\ \/ m.changed = call[c].changed /\ after = View(c, Current(c))
       \/ /\ Current(c) # None /\ ~ Locked(c, Current(c))
          /\ after # View(c, Current(c))
          /\ after = Serve(call[c].action, View(c, Current(c)))
          /\ m.changed = [f \in Touched(c) \cup {Current(c)} |->
                            IF f = Current(c) THEN after ELSE call[c].changed[f]]

LEMMA RowInv ==
    ASSUME BulkInv, NEW c \in Calls, MoreRows(c), NEW says \in Report, NEW after, NEW m,
           RowDone(c, says, after, m),
           call' = [call EXCEPT ![c] = m], roster' = roster
    PROVE  BulkInv'
<1>. DEFINE k == call[c]
            n == Len(k.results)
            e == Current(c)
            before == View(c, e)
<1>1. /\ k # None /\ k.stage = "rows" /\ CallInv(c)
      /\ n \in Nat /\ Len(k.values) \in Nat /\ n + 1 <= Len(k.values)
      /\ DOMAIN k.results = 1..n /\ DOMAIN k.values = 1..Len(k.values)
      /\ e = Address(c, n + 1) /\ e \in Emails \cup {None}
      /\ before \in Entry
  BY CurrentIs
<1>2. /\ BulkTypeOK /\ k.results \in Seq(Report) /\ Touched(c) \in SUBSET Emails
      /\ k.action \in {"enroll", "unenroll"}
  BY <1>1, CallParts DEF BulkInv
<1>3. /\ m.stage = k.stage /\ m.action = k.action /\ m.values = k.values
      /\ m.groups = k.groups /\ m.stirred = k.stirred
      /\ m.results = Append(k.results, says)
      /\ m \in Call
  BY CallIs DEF RowDone
<1>4. /\ \/ "error" \in says
         \/ says = Outcome(k.action, before, after) /\ after = Serve(k.action, before)
      /\ \/ m.changed = k.changed /\ after = before
         \/ /\ e # None /\ ~ Locked(c, e) /\ after # before
            /\ after = Serve(k.action, before)
            /\ m.changed = [f \in Touched(c) \cup {e} |->
                              IF f = e THEN after ELSE k.changed[f]]
  BY DEF RowDone
<1>5. /\ Len(m.results) = n + 1 /\ DOMAIN m.results = 1..(n + 1)
      /\ \A i \in 1..n : m.results[i] = k.results[i]
      /\ m.results[n + 1] = says
  <2>1. Append(k.results, says) \in Seq(Report)
    BY <1>2
  <2>. QED
    BY <1>2, <1>3, <2>1, AppendProperties, LenProperties
<1>6. call'[c] = m /\ \A d \in Calls \ {c} : call'[d] = call[d]
  BY <1>2 DEF BulkTypeOK
<1>7. call' \in [Calls -> Call \cup {None}]
  BY <1>2, <1>3 DEF BulkTypeOK
<1>. HIDE DEF e, n, before
<1>9. \/ Touched(c)' = Touched(c)
      \/ Touched(c)' = Touched(c) \cup {e} /\ e # None /\ ~ Locked(c, e)
  BY <1>4, <1>6 DEF Touched
<1>10. \A i \in 1..Len(k.values) :
         Address(c, i)' = Address(c, i) /\ Address(c, i) \in Emails \cup {None}
  BY <1>1, <1>2, <1>3, <1>6, AddressIs DEF Address
<1>11. InOrder(c)'
  BY <1>1, <1>3, <1>5, <1>6 DEF CallInv, InOrder
<1>12. ServedTrue(c)'
  <2>. SUFFICES ASSUME NEW i \in 1..(n + 1), ~ ErrorAt(c, i)', i \notin k.stirred
                PROVE  StillTrue(c, i)'
    BY <1>3, <1>5, <1>6 DEF ServedTrue
  <2>0. i \in 1..Len(k.values)
    BY <1>1
  <2>1. CASE i # n + 1
    <3>1. i \in 1..n
      BY <1>1, <2>1
    <3>2. StillTrue(c, i)
      BY <1>1, <1>5, <1>6, <3>1 DEF CallInv, ServedTrue, ErrorAt
    <3>3. View(c, Address(c, i))' = View(c, Address(c, i))
      <4>1. CASE Address(c, i) # e
        <5>. DEFINE f == Address(c, i)
        <5>1. f' = f /\ f \in Emails \cup {None} /\ f # e
          BY <1>10, <2>0, <4>1
        <5>2. View(c, f)' = IF f \in DOMAIN m.changed THEN m.changed[f] ELSE At(f)
          BY <1>6, <5>1 DEF View, At
        <5>3. View(c, f) = IF f \in Touched(c) THEN k.changed[f] ELSE At(f)
          BY DEF View, Touched
        <5>. HIDE DEF f
        <5>. QED
          BY <1>4, <5>1, <5>2, <5>3 DEF Touched, f
      <4>2. CASE Address(c, i) = e
        <5>1. Serve(k.action, before) = before
          BY <3>2, <4>2 DEF StillTrue, before
        <5>2. m.changed = k.changed
          BY <1>4, <5>1
        <5>. QED
          BY <1>6, <1>10, <2>0, <5>2 DEF View, At
      <4>. QED
        BY <4>1, <4>2
    <3>. QED
      BY <1>3, <1>5, <1>6, <3>1, <3>2, <3>3 DEF StillTrue
  <2>2. CASE i = n + 1
    <3>1. call'[c].results[i] = says /\ "error" \notin says
      BY <1>5, <1>6, <2>2 DEF ErrorAt
    <3>2. says = Outcome(k.action, before, after) /\ after = Serve(k.action, before)
      BY <1>4, <3>1
    <3>3. says \cap {"enrolled", "allowed"} = Says(after)
      BY <3>2, OutcomeIs
    <3>4. Serve(k.action, after) = after
      BY <1>1, <1>2, <3>2, ServeType
    <3>5. Address(c, i)' = e
      BY <1>1, <1>10, <2>0, <2>2
    <3>6. View(c, Address(c, i))' = after
      <4>1. CASE m.changed = k.changed /\ after = before
        BY <1>6, <3>5, <4>1 DEF View, At, before
      <4>2. CASE m.changed = [f \in Touched(c) \cup {e} |->
                                IF f = e THEN after ELSE k.changed[f]]
        BY <1>6, <3>5, <4>2 DEF View, At
      <4>. QED
        BY <1>4, <4>1, <4>2
    <3>. QED
      BY <1>3, <1>6, <3>1, <3>3, <3>4, <3>6 DEF StillTrue
  <2>. QED
    BY <2>1, <2>2
<1>13. StillForetold(c)'
  <2>. SUFFICES ASSUME Followed(c)', NEW i \in 1..Len(k.values)
                PROVE  RowForetold(c, i)'
    BY <1>1, <1>3, <1>6 DEF StillForetold
  <2>1. /\ Plain(k.values) /\ k.groups # None /\ "error" \notin says
        /\ \A j \in 1..n : ~ ErrorAt(c, j)
    BY <1>1, <1>3, <1>5, <1>6 DEF Followed, ErrorAt
  <2>2. RowForetold(c, i)
    <3>1. Followed(c) /\ StillForetold(c)
      BY <1>1, <2>1 DEF CallInv, Followed
    <3>. QED
      BY <1>1, <3>1 DEF StillForetold
  <2>3. CASE i \in 1..n
    <3>1. i \in DOMAIN k.results /\ i \in DOMAIN m.results /\ m.results[i] = k.results[i]
      BY <1>1, <1>5, <2>3
    <3>2. Foreseen(k.action, k.groups[i], k.results[i])
      BY <2>2, <3>1 DEF RowForetold
    <3>. QED
      BY <1>3, <1>6, <3>1, <3>2 DEF RowForetold
  <2>4. CASE i = n + 1
    <3>1. i \notin 1..n
      BY <1>1, <2>4
    <3>2. e \notin Touched(c) /\ Group(roster[e]) = k.groups[i]
      BY <1>1, <2>2, <2>4, <3>1 DEF RowForetold
    <3>3. e \in Emails
      BY <1>1, <1>10, <2>1, <2>4 DEF Plain, Tidy, Address
    <3>4. before = roster[e]
      BY <1>1, <1>2, <3>2, <3>3, ViewIs DEF before
    <3>5. says = Outcome(k.action, before, Serve(k.action, before))
      BY <1>4, <2>1
    <3>6. Foreseen(k.action, k.groups[i], says)
      BY <1>1, <3>2, <3>4, <3>5 DEF Foreseen
    <3>. QED
      BY <1>3, <1>5, <1>6, <2>4, <3>6 DEF RowForetold
  <2>5. CASE i > n + 1
    <3>1. i \notin 1..n /\ i \notin 1..(n + 1) /\ n + 1 \in 1..Len(k.values) /\ i # n + 1
      BY <1>1, <2>5
    <3>2. Address(c, i) \notin Touched(c) /\ Group(roster[Address(c, i)]) = k.groups[i]
      BY <1>1, <2>2, <3>1 DEF RowForetold
    <3>3. Address(c, i) # e
      BY <1>1, <2>1, <3>1 DEF Plain, Address
    <3>4. Address(c, i)' \notin Touched(c)' /\ Address(c, i)' = Address(c, i)
      BY <1>9, <1>10, <3>2, <3>3
    <3>. QED
      BY <1>3, <1>5, <1>6, <3>1, <3>2, <3>4 DEF RowForetold
  <2>. QED
    BY <1>1, <2>3, <2>4, <2>5
<1>14. ASSUME NEW d \in Calls \ {c}, call[d] # None
       PROVE  Touched(c)' \cap Touched(d) = {}
  <2>1. Touched(c) \cap Touched(d) = {}
    BY <1>1, <1>14 DEF BulkInv, Apart
  <2>2. e \in Touched(d) => Locked(c, e)
    <3>1. InOrder(d) /\ call[d] \in Call
      BY <1>2, <1>14 DEF BulkInv, CallInv, BulkTypeOK
    <3>2. call[d].stage \in {"previewed", "rows"}
      BY <3>1 DEF Call
    <3>. QED
      BY <1>14, <3>1, <3>2 DEF InOrder, Locked, Running, Touched
  <2>. QED
    BY <1>9, <2>1, <2>2
<1>. QED
  BY <1>6, <1>7, <1>11, <1>12, <1>13, <1>14, OneCall DEF CallInv

LEMMA ReportedIs ==
    ASSUME BulkInv, NEW c \in Calls, MoreRows(c), NEW says \in Report, NEW m,
           m = Reported(c, says)
    PROVE  /\ m \in Calling(Batches, GroupLists, ResultLists, Changes, SUBSET (1..MaxRows))
           /\ Fields(m, call[c].stage, call[c].action, call[c].values, call[c].groups,
                     Append(call[c].results, says), call[c].changed, call[c].spoiled,
                     call[c].stirred)
<1>. DEFINE k == call[c]
            r == Append(k.results, says)
            T == SUBSET (1..MaxRows)
<1>1. /\ k \in Calling(Batches, GroupLists, ResultLists, Changes, T)
      /\ k.results \in Seq(Report) /\ k.values \in Seq(Values)
      /\ Len(k.values) <= MaxRows
      /\ Len(k.results) + 1 <= Len(k.values)
  BY CurrentIs, CallParts DEF BulkInv
<1>2. r \in Seq(Report) /\ Len(r) = Len(k.results) + 1
  BY <1>1, AppendProperties
<1>3. Len(r) <= MaxRows
  <2>1. Len(r) \in Nat /\ Len(k.values) \in Nat /\ MaxRows \in Nat
    BY <1>1, <1>2, LenProperties, BulkAssumption
  <2>. QED
    BY ONLY <1>1, <1>2, <2>1
<1>4. r \in ResultLists
  BY <1>2, <1>3, BoundedSeqIs, BulkAssumption DEF ResultLists
<1>5. m = [k EXCEPT !.results = r]
  BY DEF Reported
<1>. HIDE DEF k, r, T
<1>6. /\ m \in Calling(Batches, GroupLists, ResultLists, Changes, T)
      /\ Fields(m, k.stage, k.action, k.values, k.groups,
                r, k.changed, k.spoiled, k.stirred)
  BY <1>1, <1>4, <1>5, PutResults
<1>. QED
  BY <1>6 DEF k, r, T

LEMMA ChangeRowInv ==
    ASSUME BulkInv, NEW c \in Calls, MoreRows(c), NEW says \in Report,
           \/ "error" \in says
           \/ says = Outcome(call[c].action, View(c, Current(c)),
                             Serve(call[c].action, View(c, Current(c)))),
           ChangeRow(c, Reported(c, says))
    PROVE  BulkInv'
<1>. DEFINE k == call[c]
            e == Current(c)
            before == View(c, e)
            after == Serve(k.action, before)
            changed == [f \in DOMAIN k.changed \cup {e} |->
                          IF f = e THEN after ELSE k.changed[f]]
            record == Reported(c, says)
            T == SUBSET (1..MaxRows)
<1>1. /\ e # None \/ k.action = "unenroll"
      /\ IF after = before
         THEN call' = [call EXCEPT ![c] = record]
         ELSE /\ ~ Locked(c, e)
              /\ call' = [call EXCEPT ![c] = [record EXCEPT !.changed = changed]]
      /\ roster' = roster
  BY DEF ChangeRow
<1>2. /\ k # None /\ BulkTypeOK /\ e \in Emails \cup {None} /\ before \in Entry
      /\ k.action \in {"enroll", "unenroll"}
      /\ k.changed \in [Touched(c) -> Entry] /\ Touched(c) \in SUBSET Emails
  BY CurrentIs, CallParts DEF BulkInv
<1>3. after \in Entry /\ (e = None /\ k.action = "unenroll" => after = before)
  BY <1>2, ServeType, ViewIs, NobodyIs
<1>4. /\ record \in Calling(Batches, GroupLists, ResultLists, Changes, T)
      /\ Fields(record, k.stage, k.action, k.values, k.groups,
                Append(k.results, says), k.changed, k.spoiled, k.stirred)
  BY ReportedIs
<1>5. "error" \in says \/ (says = Outcome(k.action, before, after) /\ after = Serve(k.action, before))
  OBVIOUS
<1>6. CASE after = before
  <2>. HIDE DEF record
  <2>1. RowDone(c, says, after, record)
    BY <1>4, <1>5, <1>6 DEF RowDone, Fields
  <2>2. call' = [call EXCEPT ![c] = record] /\ roster' = roster
    BY <1>1, <1>6
  <2>. QED
    BY <2>1, <2>2, RowInv
<1>7. CASE after # before
  <2>. DEFINE m == [record EXCEPT !.changed = changed]
  <2>1. e # None /\ ~ Locked(c, e)
    BY <1>1, <1>3, <1>7
  <2>2. changed \in Changes
    <3>1. Touched(c) \cup {e} \in SUBSET Emails
      BY <1>2, <2>1
    <3>2. changed \in [Touched(c) \cup {e} -> Entry]
      <4>. HIDE DEF after, e
      <4>. QED
        BY <1>2, <1>3 DEF Touched
    <3>. HIDE DEF changed
    <3>. QED
      BY <3>1, <3>2, ChangesHas
  <2>3. changed = [f \in Touched(c) \cup {e} |-> IF f = e THEN after ELSE k.changed[f]]
    BY DEF Touched
  <2>. HIDE DEF record, changed
  <2>4. /\ m \in Calling(Batches, GroupLists, ResultLists, Changes, T)
        /\ Fields(m, record.stage, record.action, record.values, record.groups,
                  record.results, changed, record.spoiled, record.stirred)
    <3>. HIDE DEF T
    <3>. QED
      BY <1>4, <2>2, PutChanged
  <2>5. call' = [call EXCEPT ![c] = m] /\ roster' = roster
    BY <1>1, <1>7
  <2>. HIDE DEF m
  <2>6. /\ m.stage = k.stage /\ m.action = k.action /\ m.values = k.values
        /\ m.groups = k.groups /\ m.results = Append(k.results, says)
        /\ m.stirred = k.stirred /\ m.changed = changed
    BY <1>4, <2>4 DEF Fields
  <2>7. RowDone(c, says, after, m)
    BY <1>5, <1>7, <2>1, <2>3, <2>4, <2>6 DEF RowDone
  <2>. QED
    BY <2>5, <2>7, RowInv
<1>. QED
  BY <1>6, <1>7

LEMMA ServeRowInv ==
    ASSUME BulkInv, NEW c \in Calls, ServeRow(c)
    PROVE  BulkInv'
<1>. DEFINE says == Outcome(call[c].action, View(c, Current(c)),
                            Serve(call[c].action, View(c, Current(c))))
<1>1. MoreRows(c) /\ ChangeRow(c, Reported(c, says))
  BY DEF ServeRow
<1>2. says \in Report
  BY OutcomeIs
<1>. QED
  BY <1>1, <1>2, ChangeRowInv

LEMMA ErrorRowInv ==
    ASSUME BulkInv, NEW c \in Calls, MoreRows(c), NEW b \in BOOLEAN, NEW m, roster' = roster,
           call' = [call EXCEPT ![c] = m],
           \/ m = Reported(c, {"error"})
           \/ m = [Reported(c, {"error"}) EXCEPT !.spoiled = b]
    PROVE  BulkInv'
<1>. DEFINE says == {"error"}
            record == Reported(c, says)
            k == call[c]
            T == SUBSET (1..MaxRows)
<1>1. /\ record \in Calling(Batches, GroupLists, ResultLists, Changes, T)
      /\ Fields(record, k.stage, k.action, k.values, k.groups,
                Append(k.results, says), k.changed, k.spoiled, k.stirred)
  BY ReportedIs, ErrorIs
<1>. HIDE DEF record
<1>2. \/ m = record
      \/ /\ m \in Calling(Batches, GroupLists, ResultLists, Changes, T)
         /\ Fields(m, record.stage, record.action, record.values, record.groups,
                   record.results, record.changed, b, record.stirred)
  <2>1. CASE m = Reported(c, {"error"})
    BY <2>1 DEF record
  <2>2. CASE m = [record EXCEPT !.spoiled = b]
    <3>. HIDE DEF T
    <3>. QED
      BY <1>1, <2>2, PutSpoiled
  <2>. QED
    BY <2>1, <2>2 DEF record
<1>3. /\ m \in Calling(Batches, GroupLists, ResultLists, Changes, T)
      /\ m.stage = k.stage /\ m.action = k.action /\ m.values = k.values
      /\ m.groups = k.groups /\ m.results = Append(k.results, says)
      /\ m.stirred = k.stirred /\ m.changed = k.changed
  BY <1>1, <1>2 DEF Fields
<1>4. RowDone(c, says, View(c, Current(c)), m)
  BY <1>3 DEF RowDone
<1>. QED
  BY <1>4, ErrorIs, RowInv

LEMMA RowRaisesInv ==
    ASSUME BulkInv, NEW c \in Calls, RowRaises(c)
    PROVE  BulkInv'
<1>1. MoreRows(c) /\ {"error"} \in Report
  BY ErrorIs DEF RowRaises
<1>2. CASE call' = [call EXCEPT ![c] = Reported(c, {"error"})] /\ UNCHANGED roster
  BY <1>1, <1>2, ErrorRowInv
<1>3. CASE ChangeRow(c, Reported(c, {"error"}))
  BY <1>1, <1>3, ChangeRowInv
<1>. QED
  BY <1>2, <1>3 DEF RowRaises

LEMMA RowSpoilsInv ==
    ASSUME BulkInv, NEW c \in Calls, RowSpoils(c)
    PROVE  BulkInv'
BY ErrorRowInv DEF RowSpoils

LEMMA AfterBlockIs ==
    ASSUME BulkTypeOK, NEW c \in Calls, call[c] # None
    PROVE  /\ AfterBlock(c) \in [Emails -> Entry]
           /\ ~ call[c].spoiled => \A e \in Emails : AfterBlock(c)[e] = View(c, e)
<1>1. \A e \in Emails : View(c, e) \in Entry
  BY ViewIs
<1>. QED
  BY <1>1 DEF AfterBlock, BulkTypeOK

LEMMA AnswerInv ==
    ASSUME BulkInv, NEW c \in Calls, Answer(c)
    PROVE  BulkInv'
<1>. DEFINE moved == {e \in Emails : AfterBlock(c)[e] # roster[e]}
<1>1. /\ call[c] # None /\ roster' = AfterBlock(c) /\ BulkTypeOK
      /\ call' = [d \in Calls |-> IF d = c THEN None ELSE Disturbed(call[d], moved)]
  BY DEF Answer, Running, BulkInv
<1>2. \A e \in Emails : e \notin moved => roster'[e] = roster[e]
  BY <1>1
<1>. HIDE DEF moved
<1>3. call'[c] = None /\ \A d \in Calls \ {c} : call'[d] = Disturbed(call[d], moved)
  BY <1>1
<1>4. BulkTypeOK'
  <2>1. roster' \in [Emails -> Entry]
    BY <1>1, AfterBlockIs
  <2>2. \A d \in Calls : Disturbed(call[d], moved) \in Call \cup {None}
    BY OthersType
  <2>. QED
    BY <1>1, <2>1, <2>2 DEF BulkTypeOK
<1>5. \A d \in Calls : call[d] = None => call'[d] = None
  BY <1>3 DEF Disturbed
<1>6. \A d \in Calls : call'[d] # None => CallInv(d)' /\ Touched(d)' = Touched(d)
  BY <1>2, <1>3, <1>5, OthersKeep
<1>7. Apart'
  BY <1>5, <1>6 DEF BulkInv, Apart
<1>. QED
  BY <1>4, <1>6, <1>7 DEF BulkInv

-----------------------------------------------------------------------------
(* The invariant.                                                          *)

LEMMA BulkInit == Init => BulkInv
<1>. SUFFICES ASSUME Init PROVE BulkInv
  OBVIOUS
<1>1. Nobody \in Entry
  BY NobodyIs
<1>2. BulkTypeOK
  BY <1>1 DEF Init, BulkTypeOK
<1>. QED
  BY <1>2 DEF Init, BulkInv, Apart

LEMMA BulkStep == BulkInv /\ [Next]_vars => BulkInv'
<1>. SUFFICES ASSUME BulkInv, [Next]_vars PROVE BulkInv'
  OBVIOUS
<1>1. ASSUME NEW e \in Addresses, SignUp(e) \/ CreateUser(e) \/ Unenroll(e) \/ Enroll(e)
      PROVE  BulkInv'
  BY <1>1, PlatformInv, BulkAssumption
<1>2. ASSUME NEW c \in Calls, NEW action \in {"enroll", "unenroll"}, NEW values \in Batches,
             Preview(c, action, values)
      PROVE  BulkInv'
  BY <1>2, PreviewInv
<1>3. ASSUME NEW c \in Calls,
             \/ Confirm(c) \/ ServeRow(c) \/ RowRaises(c) \/ RowSpoils(c)
             \/ Answer(c) \/ GiveUp(c)
      PROVE  BulkInv'
  BY <1>3, ConfirmInv, ServeRowInv, RowRaisesInv, RowSpoilsInv, AnswerInv, GiveUpInv
<1>4. CASE UNCHANGED vars
  <2>1. call' = call /\ roster' = roster
    BY <1>4 DEF vars
  <2>2. BulkTypeOK' /\ Apart'
    BY <2>1 DEF BulkInv, BulkTypeOK, Apart, Touched
  <2>3. ASSUME NEW c \in Calls PROVE CallInv(c)' = CallInv(c)
    <3>1. InOrder(c)' = InOrder(c)
      BY <2>1 DEF InOrder, Touched
    <3>2. ServedTrue(c)' = ServedTrue(c)
      BY <2>1 DEF ServedTrue, ErrorAt, StillTrue, View, At, Address
    <3>3. StillForetold(c)' = StillForetold(c)
      BY <2>1 DEF StillForetold, Followed, ErrorAt, RowForetold, Address, Touched
    <3>. QED
      BY <3>1, <3>2, <3>3 DEF CallInv
  <2>. QED
    BY <2>1, <2>2, <2>3 DEF BulkInv
<1>. QED
  BY <1>1, <1>2, <1>3, <1>4 DEF Next

\* The invariant: a batch's results are true of what it sees and stay so when
\* rows come again, what it has changed nobody else has, and as long as nobody
\* has come between, its rows have turned out as previewed.
THEOREM BulkInvariant == Spec => []BulkInv
<1>. QED
  BY BulkInit, BulkStep, PTL DEF Spec

\* The roster and the batches keep their type: a batch never has more results
\* than rows it may have.
THEOREM BulkTypeCorrect == Spec => []BulkTypeOK
<1>1. BulkInv => BulkTypeOK
  BY DEF BulkInv
<1>. QED
  BY <1>1, BulkInvariant, PTL

(* Whatever the learners, the other tools and the other batches did, and   *)
(* whatever row raised, a batch that the database did not interrupt is     *)
(* answered with the truth about every row without an error, unless        *)
(* somebody else has changed the address of that row since its turn.       *)
THEOREM RowsTrueUnlessSpoiledHolds == Spec => RowsTrueUnlessSpoiled
<1>. DEFINE TrueRows == \A c \in Calls : Answer(c) /\ ~ call[c].spoiled =>
                          \A i \in DOMAIN call[c].results : RowTrue(c, i)
<1>1. ASSUME BulkInv, [Next]_vars PROVE [TrueRows]_vars
  <2>. SUFFICES ASSUME NEW c \in Calls, Answer(c), ~ call[c].spoiled,
                       NEW i \in DOMAIN call[c].results,
                       ~ ErrorAt(c, i), i \notin call[c].stirred
                PROVE  ResultTrue(c, i)
    BY DEF RowTrue
  <2>1. /\ call[c] # None /\ roster' = AfterBlock(c) /\ BulkTypeOK
        /\ InOrder(c) /\ StillTrue(c, i)
    BY <1>1 DEF Answer, Running, BulkInv, CallInv, ServedTrue
  <2>2. i \in DOMAIN call[c].values
    <3>1. call[c].results \in Seq(Report) /\ call[c].values \in Seq(Values)
      BY <2>1, CallParts
    <3>2. Len(call[c].results) <= Len(call[c].values)
      BY <2>1 DEF InOrder
    <3>. QED
      BY <3>1, <3>2
  <2>3. Address(c, i) \in Emails \cup {None}
    BY <2>1, <2>2, AddressIs
  <2>4. call[c].results[i] \cap {"enrolled", "allowed"} = Says(View(c, Address(c, i)))
    BY <2>1 DEF StillTrue
  <2>5. CASE Address(c, i) = None
    BY <2>1, <2>3, <2>4, <2>5, ViewIs, NobodyIs DEF ResultTrue, Address
  <2>6. CASE Address(c, i) # None
    <3>1. roster'[Address(c, i)] = View(c, Address(c, i))
      BY <2>1, <2>3, <2>6, AfterBlockIs
    <3>. QED
      BY <2>4, <2>6, <3>1 DEF ResultTrue, Address
  <2>. QED
    BY <2>5, <2>6
<1>. QED
  BY <1>1, BulkInvariant, PTL DEF Spec, RowsTrueUnlessSpoiled

-----------------------------------------------------------------------------
(* The previews.                                                           *)

LEMMA RowsFinite ==
    ASSUME NEW n \in Nat, NEW X \in SUBSET (1..n)
    PROVE  IsFiniteSet(X) /\ Cardinality(X) \in Nat
<1>1. 1 \in Int /\ n \in Int
  OBVIOUS
<1>2. IsFiniteSet(1..n)
  BY <1>1, FS_Interval
<1>. QED
  BY <1>1, <1>2, FS_Subset, FS_CardinalityType

\* How many there are of A and B together, and of what lies between.
LEMMA CountBetween ==
    ASSUME NEW n \in Nat, NEW A1 \in SUBSET (1..n), NEW A2 \in SUBSET (1..n),
           NEW B \in SUBSET (1..n), NEW X \in SUBSET (1..n),
           A1 \cap A2 = {}, A1 \cup A2 \subseteq X, X \subseteq (A1 \cup A2) \cup B
    PROVE  /\ Cardinality(A1) + Cardinality(A2) <= Cardinality(X)
           /\ Cardinality(X) <= Cardinality(A1) + Cardinality(A2) + Cardinality(B)
<1>. DEFINE A == A1 \cup A2
<1>1. /\ IsFiniteSet(A1) /\ IsFiniteSet(A2) /\ IsFiniteSet(B) /\ IsFiniteSet(X)
      /\ Cardinality(A1) \in Nat /\ Cardinality(A2) \in Nat
      /\ Cardinality(B) \in Nat /\ Cardinality(X) \in Nat
  BY RowsFinite
<1>2. A \in SUBSET (1..n) /\ A \cup B \in SUBSET (1..n) /\ A \cap B \in SUBSET (1..n)
  OBVIOUS
<1>3. /\ IsFiniteSet(A) /\ Cardinality(A) \in Nat
      /\ IsFiniteSet(A \cup B) /\ Cardinality(A \cup B) \in Nat
      /\ Cardinality(A \cap B) \in Nat
  BY <1>2, RowsFinite
<1>4. Cardinality(A) = Cardinality(A1) + Cardinality(A2)
  <2>1. Cardinality(A) = Cardinality(A1) + Cardinality(A2) - Cardinality(A1 \cap A2)
    BY <1>1, FS_Union
  <2>2. Cardinality(A1 \cap A2) = 0
    BY FS_EmptySet
  <2>. QED
    BY ONLY <1>1, <1>3, <2>1, <2>2
<1>5. Cardinality(A \cup B) = Cardinality(A) + Cardinality(B) - Cardinality(A \cap B)
  BY <1>1, <1>3, FS_Union
<1>6. Cardinality(A) <= Cardinality(X)
  BY <1>1, FS_Subset
<1>7. Cardinality(X) <= Cardinality(A \cup B)
  BY <1>3, FS_Subset
<1>. HIDE DEF A
<1>. QED
  BY ONLY <1>1, <1>3, <1>4, <1>5, <1>6, <1>7

\* The rows of an undisturbed batch have turned out as previewed.
LEMMA AllForeseen ==
    ASSUME BulkInv, NEW c \in Calls, Undisturbed(c)
    PROVE  \E n \in Nat :
             /\ DOMAIN call[c].results = 1..n /\ DOMAIN call[c].groups = 1..n
             /\ \A i \in 1..n :
                  Foreseen(call[c].action, call[c].groups[i], call[c].results[i])
<1>. DEFINE n == Len(call[c].values)
<1>1. call[c] # None /\ ~ MoreRows(c) /\ Running(c) /\ Followed(c) /\ CallInv(c) /\ BulkTypeOK
  BY DEF Undisturbed, Running, Followed, BulkInv
<1>2. call[c].results \in Seq(Report) /\ call[c].values \in Seq(Values)
  BY <1>1, CallParts
<1>3. n \in Nat /\ Len(call[c].results) \in Nat
  BY <1>2, LenProperties
<1>4. Len(call[c].results) <= n /\ ~ (Len(call[c].results) < n)
  BY <1>1 DEF CallInv, InOrder, MoreRows
<1>. HIDE DEF n
<1>5. Len(call[c].results) = n
  BY ONLY <1>3, <1>4
<1>6. DOMAIN call[c].results = 1..n /\ DOMAIN call[c].values = 1..n
  BY <1>2, <1>5, LenProperties DEF n
<1>7. DOMAIN call[c].groups = 1..n
  <2>1. call[c].groups # None /\ Len(call[c].groups) = n
    BY <1>1 DEF Followed, CallInv, InOrder, n
  <2>2. call[c].groups \in GroupLists
    BY <1>1, CallParts DEF Calling
  <2>3. call[c].groups \in Seq(Groups)
    BY <2>1, <2>2, BoundedSeqIs, BulkAssumption DEF GroupLists
  <2>. QED
    BY <2>1, <2>3, LenProperties
<1>8. \A i \in 1..n : RowForetold(c, i)
  BY <1>1, <1>6 DEF CallInv, StillForetold
<1>. QED
  BY <1>3, <1>6, <1>7, <1>8 DEF RowForetold

LEMMA UnenrollTurnsOut ==
    ASSUME NEW group, NEW result, Foreseen("unenroll", group, result)
    PROVE  /\ group \in {"enrolled"} <=> {"was_enrolled"} \subseteq result /\ {} \cap result = {}
           /\ group \in {"pending"} <=> {"was_pending"} \subseteq result /\ {"was_enrolled"} \cap result = {}
           /\ group \in {"account_not_enrolled", "no_account"} <=>
                {} \subseteq result /\ {"was_enrolled", "was_pending"} \cap result = {}
<1>1. PICK entry \in Entry : /\ Group(entry) = group
                             /\ result = Outcome("unenroll", entry, Serve("unenroll", entry))
  BY DEF Foreseen
<1>2. Says(Serve("unenroll", entry)) = {}
  BY DEF Serve, UnenrollEmail, Says, Entry
<1>3. result = Was(entry)
  BY <1>1, <1>2 DEF Outcome
<1>. QED
  BY <1>1, <1>3 DEF Group, Was, Entry

LEMMA EnrollTurnsOut ==
    ASSUME NEW group, NEW result, Foreseen("enroll", group, result)
    PROVE  /\ group \in {"enrolled", "account_not_enrolled"} =>
                {"enrolled"} \subseteq result /\ {} \cap result = {}
           /\ {"enrolled"} \subseteq result /\ {} \cap result = {} =>
                \/ group \in {"enrolled", "account_not_enrolled"}
                \/ {"enrolled", "allowed"} \subseteq result /\ {} \cap result = {}
<1>1. PICK entry \in Entry : /\ Group(entry) = group
                             /\ result = Outcome("enroll", entry, Serve("enroll", entry))
  BY DEF Foreseen
<1>2. result = Says(EnrollEmail(entry))
  BY <1>1 DEF Outcome, Serve
<1>. QED
  BY <1>1, <1>2 DEF Group, Says, EnrollEmail, Entry

(* What the unenroll preview announces is what the answer to the confirmed *)
(* call reports, for batches of any length, if no one comes between.       *)
THEOREM UnenrollForetoldHolds == Spec => []UnenrollForetold
<1>1. ASSUME BulkInv PROVE UnenrollForetold
  <2>. SUFFICES ASSUME NEW c \in Calls, Undisturbed(c), call[c].action = "unenroll"
                PROVE  PreviewUnenroll(c) =
                         [will_unenroll       |-> Tally(c, {"was_enrolled"}, {}),
                          will_revoke_pending |-> Tally(c, {"was_pending"}, {"was_enrolled"}),
                          not_enrolled        |-> Tally(c, {}, {"was_enrolled", "was_pending"})]
    BY DEF UnenrollForetold
  <2>1. PICK n \in Nat :
          /\ DOMAIN call[c].results = 1..n /\ DOMAIN call[c].groups = 1..n
          /\ \A i \in 1..n : Foreseen("unenroll", call[c].groups[i], call[c].results[i])
    BY <1>1, AllForeseen
  <2>2. /\ Count(c, {"enrolled"}) = Tally(c, {"was_enrolled"}, {})
        /\ Count(c, {"pending"}) = Tally(c, {"was_pending"}, {"was_enrolled"})
        /\ Count(c, {"account_not_enrolled", "no_account"}) =
             Tally(c, {}, {"was_enrolled", "was_pending"})
    BY <2>1, UnenrollTurnsOut DEF Count, Tally
  <2>. QED
    BY <2>2 DEF PreviewUnenroll
<1>. QED
  BY <1>1, BulkInvariant, PTL

(* The enroll preview promises no enrollment that is not there when the    *)
(* confirmed call is answered, and what it did not promise is of invited   *)
(* addresses, for batches of any length, if no one comes between.          *)
THEOREM EnrollForetoldHolds == Spec => []EnrollForetold
<1>1. ASSUME BulkInv PROVE EnrollForetold
  <2>. SUFFICES ASSUME NEW c \in Calls, Undisturbed(c), call[c].action = "enroll"
                PROVE  LET promised == PreviewEnroll(c).already_enrolled
                                         + PreviewEnroll(c).will_enroll
                       IN  /\ promised <= Tally(c, {"enrolled"}, {})
                           /\ Tally(c, {"enrolled"}, {}) <=
                                promised + Tally(c, {"enrolled", "allowed"}, {})
    BY DEF EnrollForetold
  <2>. DEFINE A1 == {i \in DOMAIN call[c].groups : call[c].groups[i] \in {"enrolled"}}
              A2 == {i \in DOMAIN call[c].groups :
                       call[c].groups[i] \in {"account_not_enrolled"}}
              B  == {i \in DOMAIN call[c].results :
                       /\ {"enrolled", "allowed"} \subseteq call[c].results[i]
                       /\ {} \cap call[c].results[i] = {}}
              X  == {i \in DOMAIN call[c].results :
                       /\ {"enrolled"} \subseteq call[c].results[i]
                       /\ {} \cap call[c].results[i] = {}}
  <2>1. PICK n \in Nat :
          /\ DOMAIN call[c].results = 1..n /\ DOMAIN call[c].groups = 1..n
          /\ \A i \in 1..n : Foreseen("enroll", call[c].groups[i], call[c].results[i])
    BY <1>1, AllForeseen
  <2>2. /\ A1 \in SUBSET (1..n) /\ A2 \in SUBSET (1..n)
        /\ B \in SUBSET (1..n) /\ X \in SUBSET (1..n) /\ A1 \cap A2 = {}
    BY <2>1
  <2>3. A1 \cup A2 \subseteq X /\ X \subseteq (A1 \cup A2) \cup B
    BY <2>1, EnrollTurnsOut
  <2>4. /\ PreviewEnroll(c).already_enrolled = Cardinality(A1)
        /\ PreviewEnroll(c).will_enroll = Cardinality(A2)
        /\ Tally(c, {"enrolled"}, {}) = Cardinality(X)
        /\ Tally(c, {"enrolled", "allowed"}, {}) = Cardinality(B)
    BY DEF PreviewEnroll, Count, Tally
  <2>. HIDE DEF A1, A2, B, X
  <2>5. /\ Cardinality(A1) + Cardinality(A2) <= Cardinality(X)
        /\ Cardinality(X) <= Cardinality(A1) + Cardinality(A2) + Cardinality(B)
    BY <2>2, <2>3, CountBetween
  <2>. QED
    BY <2>4, <2>5
<1>. QED
  BY <1>1, BulkInvariant, PTL
=============================================================================
