---------------------------- MODULE FacadeProofs ----------------------------
(***************************************************************************)
(* Facade proved for every course id, user name, body and table of rows.   *)
(***************************************************************************)
EXTENDS Facade, WellFoundedInduction, FiniteSetTheorems, SequenceTheorems, TLAPS

-----------------------------------------------------------------------------
(* Functions defined by recursion over the depth of a value.  The first n  *)
(* levels of such a function are fixed by its definition, and there is a   *)
(* function for every n; the one whose value at v is that of the function  *)
(* for the depth of v is right on all levels.                              *)

Levels(n) == {v \in Values : Depth[v] < n}

\* A set of numbers that is not empty has a least.
LEMMA LeastNumber ==
    ASSUME NEW S, S \subseteq Nat, S # {}
    PROVE  \E n \in S : \A m \in S : n <= m
<1>. DEFINE before == OpToRel(<, Nat)
<1>1. /\ IsWellFoundedOn(before, Nat)
      /\ \A i, j \in Nat : j < i => <<j, i>> \in before
  BY NatLessThanWellFounded DEF OpToRel
<1>. HIDE DEF before
<1>2. PICK n \in S : \A m \in S : ~ (<<m, n>> \in before)
  BY <1>1, WFMin
<1>3. \A m \in S : ~ (m < n)
  BY <1>1, <1>2
<1>. QED
  BY <1>3

LEMMA PartsAreValues ==
    ASSUME NEW v \in Values
    PROVE  \A w \in Parts(v) : w \in Values /\ Depth[w] \in Nat /\ Depth[w] < Depth[v]
<1>1. IsValue(v) /\ Depth \in [Values -> Nat] /\ \A w \in Parts(v) : Depth[w] < Depth[v]
  BY ValuesAssumption
<1>2. CASE v.type = "list"
  <2>1. v.items \in Seq(Values) /\ Parts(v) = {v.items[i] : i \in DOMAIN v.items}
    BY <1>1, <1>2 DEF IsValue, Parts, ToSet
  <2>. QED
    BY <1>1, <2>1
<1>3. CASE v.type = "digest"
  <2>1. v.sample \in Seq(Values) /\ Parts(v) = {v.sample[i] : i \in DOMAIN v.sample}
    BY <1>1, <1>3 DEF IsValue, Parts, ToSet
  <2>. QED
    BY <1>1, <2>1
<1>4. CASE v.type = "dict"
  <2>1. /\ \A k \in DOMAIN v.fields : v.fields[k] \in Values
        /\ Parts(v) = {v.fields[k] : k \in DOMAIN v.fields}
    BY <1>1, <1>4 DEF IsValue, Parts
  <2>. QED
    BY <1>1, <2>1
<1>5. CASE v.type \notin {"list", "digest", "dict"}
  BY <1>5 DEF Parts
<1>. QED
  BY <1>2, <1>3, <1>4, <1>5

\* What becomes of a value depends on its parts only.
LEMMA RedactLevelLocal ==
    ASSUME NEW v \in Values, NEW f, NEW g, \A w \in Parts(v) : f[w] = g[w]
    PROVE  RedactLevel(v, f) = RedactLevel(v, g)
<1>1. CASE v.type = "dict"
  <2>1. \A k \in DOMAIN v.fields : v.fields[k] \in Parts(v)
    BY <1>1 DEF Parts
  <2>2. RedactFields(v.fields, f) = RedactFields(v.fields, g)
    BY <2>1 DEF RedactFields
  <2>. QED
    BY <1>1, <2>2 DEF RedactLevel
<1>2. CASE v.type # "dict"
  BY <1>2 DEF RedactLevel
<1>. QED
  BY <1>1, <1>2

LEMMA InsideLevelLocal ==
    ASSUME NEW v \in Values, NEW f, NEW g, \A w \in Parts(v) : f[w] = g[w]
    PROVE  InsideLevel(v, f) = InsideLevel(v, g)
<1>1. {f[w] : w \in Parts(v)} = {g[w] : w \in Parts(v)}
  OBVIOUS
<1>. QED
  BY <1>1 DEF InsideLevel

RedactWell(f, n) == \A v \in Levels(n) : f[v] = RedactLevel(v, f)

LEMMA RedactStarts ==
    ASSUME NEW n \in Nat
    PROVE  \E f : RedactWell(f, n)
<1>. DEFINE none == {m \in Nat : ~ \E f : RedactWell(f, m)}
<1>. SUFFICES ASSUME none # {} PROVE FALSE
  OBVIOUS
<1>1. PICK m \in none : \A i \in none : m <= i
  BY LeastNumber
<1>2. m \in Nat /\ ~ \E f : RedactWell(f, m)
  BY <1>1
<1>3. Levels(0) = {}
  BY ValuesAssumption DEF Levels
<1>4. m # 0
  BY <1>2, <1>3 DEF RedactWell
<1>5. m - 1 \in Nat /\ m - 1 \notin none
  BY <1>1, <1>2, <1>4
<1>6. PICK f : RedactWell(f, m - 1)
  BY <1>5
<1>. DEFINE g == [v \in Values |-> RedactLevel(v, f)]
<1>7. ASSUME NEW v \in Levels(m) PROVE g[v] = RedactLevel(v, g)
  <2>1. v \in Values /\ Depth[v] \in Nat /\ Depth[v] < m
    BY ValuesAssumption DEF Levels
  <2>2. ASSUME NEW w \in Parts(v) PROVE f[w] = g[w]
    <3>1. w \in Values /\ Depth[w] \in Nat /\ Depth[w] < m - 1
      BY <1>2, <2>1, PartsAreValues
    <3>. QED
      BY <1>6, <3>1 DEF Levels, RedactWell
  <2>3. RedactLevel(v, f) = RedactLevel(v, g)
    <3>. HIDE DEF g
    <3>. QED
      BY <2>1, <2>2, RedactLevelLocal
  <2>. QED
    BY <2>1, <2>3
<1>8. RedactWell(g, m)
  <2>. HIDE DEF g
  <2>. QED
    BY <1>7 DEF RedactWell
<1>. QED
  BY <1>2, <1>8

LEMMA RedactAgree ==
    ASSUME NEW m \in Nat, NEW n \in Nat, NEW f, NEW g,
           RedactWell(f, m), RedactWell(g, n)
    PROVE  \A v \in Levels(m) \cap Levels(n) : f[v] = g[v]
<1>. DEFINE apart == {v \in Levels(m) \cap Levels(n) : f[v] # g[v]}
            depths == {Depth[v] : v \in apart}
<1>. SUFFICES ASSUME apart # {} PROVE FALSE
  OBVIOUS
<1>1. depths \subseteq Nat /\ depths # {}
  BY ValuesAssumption DEF Levels
<1>2. PICK v \in apart : \A w \in apart : Depth[v] <= Depth[w]
  <2>. HIDE DEF depths
  <2>1. PICK d \in depths : \A i \in depths : d <= i
    BY <1>1, LeastNumber
  <2>. QED
    BY <2>1 DEF depths
<1>3. v \in Values /\ Depth[v] \in Nat /\ Depth[v] < m /\ Depth[v] < n
  BY ValuesAssumption DEF Levels
<1>4. ASSUME NEW w \in Parts(v) PROVE f[w] = g[w]
  <2>1. w \in Values /\ Depth[w] \in Nat /\ Depth[w] < Depth[v]
    BY <1>3, PartsAreValues
  <2>. QED
    BY <1>2, <1>3, <2>1 DEF Levels
<1>5. RedactLevel(v, f) = RedactLevel(v, g)
  BY <1>3, <1>4, RedactLevelLocal
<1>. QED
  BY <1>2, <1>5 DEF RedactWell

\* The definition of RedactValue has a solution.
LEMMA RedactIs == \A v \in Values : RedactValue[v] = RedactLevel(v, RedactValue)
<1>. DEFINE start(n) == CHOOSE f : RedactWell(f, n)
            h == [v \in Values |-> start(Depth[v] + 1)[v]]
<1>1. \A n \in Nat : RedactWell(start(n), n)
  BY RedactStarts
<1>. HIDE DEF start
<1>2. ASSUME NEW v \in Values PROVE h[v] = RedactLevel(v, h)
  <2>. DEFINE f == start(Depth[v] + 1)
  <2>1. Depth[v] \in Nat /\ v \in Levels(Depth[v] + 1) /\ RedactWell(f, Depth[v] + 1)
    BY <1>1, ValuesAssumption DEF Levels
  <2>. HIDE DEF f
  <2>2. ASSUME NEW w \in Parts(v) PROVE f[w] = h[w]
    <3>1. w \in Values /\ Depth[w] \in Nat /\ Depth[w] < Depth[v]
      BY PartsAreValues
    <3>2. RedactWell(start(Depth[w] + 1), Depth[w] + 1) /\ Depth[w] + 1 \in Nat
      BY <1>1, <3>1
    <3>3. w \in Levels(Depth[v] + 1) \cap Levels(Depth[w] + 1)
      BY <2>1, <3>1 DEF Levels
    <3>4. f[w] = start(Depth[w] + 1)[w]
      BY <2>1, <3>2, <3>3, RedactAgree
    <3>. QED
      BY <3>1, <3>4
  <2>3. RedactLevel(v, f) = RedactLevel(v, h)
    <3>. HIDE DEF h
    <3>. QED
      BY <2>2, RedactLevelLocal
  <2>4. h[v] = f[v] /\ f[v] = RedactLevel(v, f)
    BY <2>1 DEF RedactWell, f
  <2>. QED
    BY <2>3, <2>4
<1>3. h = [v \in Values |-> RedactLevel(v, h)]
  BY <1>2
<1>. HIDE DEF h
<1>4. \E f : f = [v \in Values |-> RedactLevel(v, f)]
  BY <1>3
<1>5. RedactValue = [v \in Values |-> RedactLevel(v, RedactValue)]
  BY <1>4, Zenon DEF RedactValue
<1>. QED
  BY <1>5

InsideWell(f, n) == \A v \in Levels(n) : f[v] = InsideLevel(v, f)

LEMMA InsideStarts ==
    ASSUME NEW n \in Nat
    PROVE  \E f : InsideWell(f, n)
<1>. DEFINE none == {m \in Nat : ~ \E f : InsideWell(f, m)}
<1>. SUFFICES ASSUME none # {} PROVE FALSE
  OBVIOUS
<1>1. PICK m \in none : \A i \in none : m <= i
  BY LeastNumber
<1>2. m \in Nat /\ ~ \E f : InsideWell(f, m)
  BY <1>1
<1>3. Levels(0) = {}
  BY ValuesAssumption DEF Levels
<1>4. m # 0
  BY <1>2, <1>3 DEF InsideWell
<1>5. m - 1 \in Nat /\ m - 1 \notin none
  BY <1>1, <1>2, <1>4
<1>6. PICK f : InsideWell(f, m - 1)
  BY <1>5
<1>. DEFINE g == [v \in Values |-> InsideLevel(v, f)]
<1>7. ASSUME NEW v \in Levels(m) PROVE g[v] = InsideLevel(v, g)
  <2>1. v \in Values /\ Depth[v] \in Nat /\ Depth[v] < m
    BY ValuesAssumption DEF Levels
  <2>2. ASSUME NEW w \in Parts(v) PROVE f[w] = g[w]
    <3>1. w \in Values /\ Depth[w] \in Nat /\ Depth[w] < m - 1
      BY <1>2, <2>1, PartsAreValues
    <3>. QED
      BY <1>6, <3>1 DEF Levels, InsideWell
  <2>3. InsideLevel(v, f) = InsideLevel(v, g)
    <3>. HIDE DEF g
    <3>. QED
      BY <2>1, <2>2, InsideLevelLocal
  <2>. QED
    BY <2>1, <2>3
<1>8. InsideWell(g, m)
  <2>. HIDE DEF g
  <2>. QED
    BY <1>7 DEF InsideWell
<1>. QED
  BY <1>2, <1>8

LEMMA InsideAgree ==
    ASSUME NEW m \in Nat, NEW n \in Nat, NEW f, NEW g,
           InsideWell(f, m), InsideWell(g, n)
    PROVE  \A v \in Levels(m) \cap Levels(n) : f[v] = g[v]
<1>. DEFINE apart == {v \in Levels(m) \cap Levels(n) : f[v] # g[v]}
            depths == {Depth[v] : v \in apart}
<1>. SUFFICES ASSUME apart # {} PROVE FALSE
  OBVIOUS
<1>1. depths \subseteq Nat /\ depths # {}
  BY ValuesAssumption DEF Levels
<1>2. PICK v \in apart : \A w \in apart : Depth[v] <= Depth[w]
  <2>. HIDE DEF depths
  <2>1. PICK d \in depths : \A i \in depths : d <= i
    BY <1>1, LeastNumber
  <2>. QED
    BY <2>1 DEF depths
<1>3. v \in Values /\ Depth[v] \in Nat /\ Depth[v] < m /\ Depth[v] < n
  BY ValuesAssumption DEF Levels
<1>4. ASSUME NEW w \in Parts(v) PROVE f[w] = g[w]
  <2>1. w \in Values /\ Depth[w] \in Nat /\ Depth[w] < Depth[v]
    BY <1>3, PartsAreValues
  <2>. QED
    BY <1>2, <1>3, <2>1 DEF Levels
<1>5. InsideLevel(v, f) = InsideLevel(v, g)
  BY <1>3, <1>4, InsideLevelLocal
<1>. QED
  BY <1>2, <1>5 DEF InsideWell

\* The definition of Inside has a solution.
LEMMA InsideIs == \A v \in Values : Inside[v] = InsideLevel(v, Inside)
<1>. DEFINE start(n) == CHOOSE f : InsideWell(f, n)
            h == [v \in Values |-> start(Depth[v] + 1)[v]]
<1>1. \A n \in Nat : InsideWell(start(n), n)
  BY InsideStarts
<1>. HIDE DEF start
<1>2. ASSUME NEW v \in Values PROVE h[v] = InsideLevel(v, h)
  <2>. DEFINE f == start(Depth[v] + 1)
  <2>1. Depth[v] \in Nat /\ v \in Levels(Depth[v] + 1) /\ InsideWell(f, Depth[v] + 1)
    BY <1>1, ValuesAssumption DEF Levels
  <2>. HIDE DEF f
  <2>2. ASSUME NEW w \in Parts(v) PROVE f[w] = h[w]
    <3>1. w \in Values /\ Depth[w] \in Nat /\ Depth[w] < Depth[v]
      BY PartsAreValues
    <3>2. InsideWell(start(Depth[w] + 1), Depth[w] + 1) /\ Depth[w] + 1 \in Nat
      BY <1>1, <3>1
    <3>3. w \in Levels(Depth[v] + 1) \cap Levels(Depth[w] + 1)
      BY <2>1, <3>1 DEF Levels
    <3>4. f[w] = start(Depth[w] + 1)[w]
      BY <2>1, <3>2, <3>3, InsideAgree
    <3>. QED
      BY <3>1, <3>4
  <2>3. InsideLevel(v, f) = InsideLevel(v, h)
    <3>. HIDE DEF h
    <3>. QED
      BY <2>2, InsideLevelLocal
  <2>4. h[v] = f[v] /\ f[v] = InsideLevel(v, f)
    BY <2>1 DEF InsideWell, f
  <2>. QED
    BY <2>3, <2>4
<1>3. h = [v \in Values |-> InsideLevel(v, h)]
  BY <1>2
<1>. HIDE DEF h
<1>4. \E f : f = [v \in Values |-> InsideLevel(v, f)]
  BY <1>3
<1>5. Inside = [v \in Values |-> InsideLevel(v, Inside)]
  BY <1>4, Zenon DEF Inside
<1>. QED
  BY <1>5

-----------------------------------------------------------------------------
(* What redaction leaves to be read.                                       *)

LEMMA InsideParts ==
    ASSUME NEW v \in Values
    PROVE  /\ v \in Inside[v]
           /\ \A w \in Parts(v) : Inside[w] \subseteq Inside[v]
           /\ \A x \in Inside[v] : x # v => \E w \in Parts(v) : x \in Inside[w]
BY InsideIs DEF InsideLevel

LEMMA TextExposes ==
    ASSUME NEW v \in Values, v.type = "text", Exposes(v)
    PROVE  v = Text(TRUE)
BY InsideParts DEF Exposes, Parts

LEMMA PartFromClient ==
    ASSUME NEW v \in Values, NEW w \in Parts(v)
    PROVE  /\ FromClient(v) => FromClient(w)
           /\ DictInList(w) => DictInList(v)
BY InsideParts DEF FromClient, DictInList

\* The items that are written out were in the list.
LEMMA SampleIsOfList ==
    ASSUME NEW v \in Values, v.type = "list"
    PROVE  Parts(Digest(v)) \subseteq Parts(v)
<1>1. v.items \in Seq(Values) /\ Len(v.items) \in Nat /\ MaxSample \in Nat
      /\ DOMAIN v.items = 1..Len(v.items)
  <2>1. IsValue(v) /\ MaxSample \in Nat
    BY ValuesAssumption
  <2>. QED
    BY <2>1 DEF IsValue
<1>. DEFINE n == Min({MaxSample, Len(v.items)})
<1>2. n \in Nat /\ n <= Len(v.items)
  BY <1>1 DEF Min
<1>. HIDE DEF n
<1>3. SubSeq(v.items, 1, n) = [i \in 1..n |-> v.items[i]]
  BY <1>1, <1>2
<1>4. Digest(v).sample = SubSeq(v.items, 1, n) /\ Digest(v).type = "digest"
  BY DEF Digest, n
<1>. QED
  BY <1>1, <1>2, <1>3, <1>4 DEF Parts, ToSet

PlainValue(v) == /\ v # Text(TRUE)
                 /\ v.type = "list" => Text(TRUE) \notin Parts(v)

KeptOut(v) == FromClient(v) /\ PlainValue(v) /\ Exposes(RedactValue[v]) => DictInList(v)

LEMMA ListKeptOut ==
    ASSUME NEW v \in Values, v.type = "list"
    PROVE  KeptOut(v)
<1>. SUFFICES ASSUME PlainValue(v), Exposes(RedactValue[v]), ~ DictInList(v)
              PROVE  FALSE
  BY DEF KeptOut
<1>1. RedactValue[v] = Digest(v) /\ Digest(v) \in Values
  BY RedactIs, ValuesAssumption DEF RedactLevel
<1>2. Digest(v) # Text(TRUE)
  BY DEF Digest, Text
<1>3. PICK w \in Parts(Digest(v)) : Text(TRUE) \in Inside[w]
  BY <1>1, <1>2, InsideParts DEF Exposes
<1>4. w \in Parts(v) /\ w \in Values
  BY <1>3, SampleIsOfList, PartsAreValues
<1>5. w.type = "text"
  BY <1>4, InsideParts DEF DictInList
<1>6. w = Text(TRUE)
  BY <1>3, <1>4, <1>5, TextExposes DEF Exposes
<1>. QED
  BY <1>4, <1>6 DEF PlainValue

LEMMA DictKeptOut ==
    ASSUME NEW v \in Values, v.type = "dict", \A w \in Parts(v) : KeptOut(w)
    PROVE  KeptOut(v)
<1>. SUFFICES ASSUME FromClient(v), Exposes(RedactValue[v])
              PROVE  DictInList(v)
  BY DEF KeptOut
<1>. DEFINE kept == RedactFields(v.fields, RedactValue)
<1>1. RedactValue[v] = Dict(kept) /\ Dict(kept) \in Values
  BY RedactIs, ValuesAssumption DEF RedactLevel
<1>. HIDE DEF kept
<1>2. /\ Dict(kept) # Text(TRUE)
      /\ Parts(Dict(kept)) = {kept[k] : k \in DOMAIN kept}
  BY DEF Dict, Text, Parts
<1>3. PICK k \in DOMAIN kept : Text(TRUE) \in Inside[kept[k]]
  <2>1. \E w \in Parts(Dict(kept)) : Text(TRUE) \in Inside[w]
    BY <1>1, <1>2, InsideParts DEF Exposes
  <2>. QED
    BY <1>2, <2>1
<1>4. kept[k] \in Values /\ kept[k] \in Parts(Dict(kept))
  BY <1>1, <1>2, PartsAreValues
<1>5. /\ k \in DOMAIN v.fields
      /\ kept[k] = IF Lower[k] \in Sensitive THEN Redacted ELSE RedactValue[v.fields[k]]
  BY <1>3 DEF kept, RedactFields
<1>6. Lower[k] \notin Sensitive
  <2>. SUFFICES ASSUME kept[k] = Redacted PROVE FALSE
    BY <1>5
  <2>. QED
    BY <1>3, <1>4, TextExposes DEF Exposes, Redacted, Text
<1>7. v.fields[k] \in Parts(v) /\ v.fields[k] \in Values
  BY <1>5, PartsAreValues DEF Parts
<1>8. PlainValue(v.fields[k])
  <2>1. PlainFields(v.fields)
    BY InsideParts DEF FromClient
  <2>. QED
    BY <1>5, <1>6, <2>1 DEF PlainFields, PlainValue
<1>9. FromClient(v.fields[k]) /\ Exposes(RedactValue[v.fields[k]])
  BY <1>3, <1>5, <1>6, <1>7, PartFromClient DEF Exposes
<1>10. DictInList(v.fields[k])
  BY <1>7, <1>8, <1>9 DEF KeptOut
<1>. QED
  BY <1>7, <1>10, PartFromClient

\* By the least depth at which it might fail.
LEMMA ValuesKeptOut == \A v \in Values : KeptOut(v)
<1>. DEFINE bad == {v \in Values : ~ KeptOut(v)}
            depths == {Depth[v] : v \in bad}
<1>. SUFFICES ASSUME bad # {} PROVE FALSE
  OBVIOUS
<1>1. depths \subseteq Nat /\ depths # {}
  BY ValuesAssumption
<1>2. PICK v \in bad : \A w \in bad : Depth[v] <= Depth[w]
  <2>. HIDE DEF depths
  <2>1. PICK d \in depths : \A i \in depths : d <= i
    BY <1>1, LeastNumber
  <2>. QED
    BY <2>1 DEF depths
<1>3. v \in Values /\ Depth[v] \in Nat /\ ~ KeptOut(v) /\ IsValue(v)
  BY <1>2, ValuesAssumption
<1>4. \A w \in Parts(v) : KeptOut(w)
  BY <1>2, <1>3, PartsAreValues
<1>5. v.type # "list" /\ v.type # "dict"
  BY <1>3, <1>4, ListKeptOut, DictKeptOut
<1>6. v.type \in {"text", "digest"}
  BY <1>3, <1>5 DEF IsValue
<1>7. RedactValue[v] = v
  BY <1>3, <1>5, RedactIs DEF RedactLevel
<1>8. v.type # "digest"
  BY <1>3, InsideParts DEF KeptOut, FromClient
<1>9. v = Text(TRUE)
  BY <1>3, <1>6, <1>7, <1>8, TextExposes DEF KeptOut
<1>. QED
  BY <1>3, <1>9 DEF KeptOut, PlainValue

\* In the summary of a body, what secrets can be read were in a dict in a list.
LEMMA SummaryKeptOut ==
    ASSUME NEW body, IsBody(body)
    PROVE  \A k \in DOMAIN Summary(body) :
              /\ k \in DOMAIN body
              /\ Exposes(Summary(body)[k]) => DictInList(body[k])
<1>. SUFFICES ASSUME NEW k \in DOMAIN Summary(body)
              PROVE  /\ k \in DOMAIN body
                     /\ Exposes(Summary(body)[k]) => DictInList(body[k])
  OBVIOUS
<1>1. k \in DOMAIN body /\ k # "confirm_token" /\ Plan(body)[k] = body[k]
  BY DEF Summary, RedactBody, RedactFields, Plan
<1>2. Summary(body)[k] = IF Lower[k] \in Sensitive THEN Redacted ELSE RedactValue[body[k]]
  BY <1>1 DEF Summary, RedactBody, RedactFields, Plan
<1>3. body[k] \in Values /\ FromClient(body[k])
  BY <1>1 DEF IsBody
<1>4. CASE Lower[k] \notin Sensitive
  <2>1. PlainValue(body[k])
    BY <1>1, <1>4 DEF IsBody, PlainFields, PlainValue
  <2>. QED
    BY <1>1, <1>2, <1>3, <1>4, <2>1, ValuesKeptOut DEF KeptOut
<1>5. CASE Lower[k] \in Sensitive
  <2>1. ~ Exposes(Redacted)
    BY ValuesAssumption, TextExposes DEF Redacted, Text
  <2>. QED
    BY <1>1, <1>2, <1>5, <2>1
<1>. QED
  BY <1>4, <1>5

-----------------------------------------------------------------------------
(* A request, and what is put on record of it.                             *)

LEMMA BodyOfRequest ==
    ASSUME NEW r \in Requests
    PROVE  IsBody(r.body)
<1>1. r.body \in {NoBody} \cup Bodies
  <2>1. ASSUME NEW site, NEW route, NEW bodies, r \in Request(site, route, bodies)
        PROVE  r.body \in bodies
    BY <2>1 DEF Request
  <2>2. CASE r \in Request("lms", Write("create-user", <<"users", "create">>), Bodies)
    BY <2>1, <2>2
  <2>3. CASE \E site \in DOMAIN Tables : \E route \in ToSet(Tables[site]) :
                r \in Request(site, route, {NoBody})
    BY <2>1, <2>3
  <2>4. \/ r \in Request("lms", Write("create-user", <<"users", "create">>), Bodies)
        \/ \E site \in DOMAIN Tables :
              r \in UNION {Request(site, route, {NoBody}) : route \in ToSet(Tables[site])}
    <3>. DEFINE tool == Request("lms", Write("create-user", <<"users", "create">>), Bodies)
                of(site) == UNION {Request(site, route, {NoBody}) : route \in ToSet(Tables[site])}
    <3>1. r \in (UNION {of(site) : site \in DOMAIN Tables}) \cup tool
      BY DEF Requests
    <3>. HIDE DEF tool, of
    <3>2. r \in tool \/ \E site \in DOMAIN Tables : r \in of(site)
      BY <3>1
    <3>. QED
      BY <3>2 DEF tool, of
  <2>. QED
    BY <2>2, <2>3, <2>4
<1>2. IsBody(NoBody)
  BY DEF IsBody, PlainFields, NoBody
<1>. QED
  BY <1>1, <1>2, FacadeAssumption

RecordInv == /\ IsBody(request.body)
             /\ summary \in {None, Summary(request.body)}

LEMMA RecordInit == Init => RecordInv
BY BodyOfRequest DEF Init, RecordInv

LEMMA RecordStep == RecordInv /\ [Next]_vars => RecordInv'
<1>. SUFFICES ASSUME RecordInv, [Next]_vars PROVE RecordInv'
  OBVIOUS
<1>1. request' = request
  BY DEF Next, Dispatch, BeginWalk, ServeWalk, vars
<1>2. summary' \in {summary, None, Summary(request.body)}
  BY DEF Next, Dispatch, BeginWalk, ServeWalk, vars
<1>. QED
  BY <1>1, <1>2 DEF RecordInv

(***************************************************************************)
(* redact (_rails.py:99-115) at any depth of any body: no secret can be    *)
(* read in the audit log but those in a dict inside a list.                *)
(***************************************************************************)
THEOREM SecretsStayOut == Spec => []SecretsKeptOut
<1>1. RecordInv => SecretsKeptOut
  <2>. SUFFICES ASSUME RecordInv, summary # None,
                       NEW k \in DOMAIN summary, Exposes(summary[k])
                PROVE  DictInList(request.body[k])
    BY DEF SecretsKeptOut
  <2>. QED
    BY SummaryKeptOut DEF RecordInv
<1>. QED
  BY <1>1, RecordInit, RecordStep, PTL DEF Spec

-----------------------------------------------------------------------------
(* The place of a row in a listing: how many rows stand before it, for an  *)
(* order of the rows and the rows that have a place of their own in it.    *)

Ordering(o, single) ==
    /\ single \subseteq Rows
    /\ \A r \in Rows : <<r, r>> \notin o
    /\ \A r, s, t \in Rows : <<r, s>> \in o /\ <<s, t>> \in o => <<r, t>> \in o
    /\ \A r \in single : \A s \in Rows \ {r} : <<r, s>> \in o \/ <<s, r>> \in o

Ahead(o, rows, r) == {s \in rows : <<s, r>> \in o}

Place(o, rows, r) == Cardinality(Ahead(o, rows, r))

\* Those of some rows whose place is below a number, and those whose is not.
Upto(o, rows, some, n) == {r \in some : Place(o, rows, r) < n}
From(o, rows, some, n) == {r \in some : Place(o, rows, r) >= n}

LEMMA RowSets ==
    ASSUME NEW rows, rows \subseteq Rows
    PROVE  IsFiniteSet(rows) /\ Cardinality(rows) \in Nat
                             /\ Cardinality(rows) <= Cardinality(Rows)
BY ListingAssumption, FS_Subset, FS_CardinalityType

LEMMA RowSubsets ==
    ASSUME NEW rows, rows \subseteq Rows, NEW fewer, fewer \subseteq rows
    PROVE  /\ Cardinality(fewer) \in Nat /\ Cardinality(rows) \in Nat
           /\ Cardinality(fewer) <= Cardinality(rows)
<1>1. IsFiniteSet(rows) /\ fewer \in SUBSET rows
  BY RowSets
<1>. QED
  BY <1>1, FS_Subset, FS_CardinalityType

LEMMA PlaceType ==
    ASSUME NEW o, NEW rows, rows \subseteq Rows, NEW r
    PROVE  Place(o, rows, r) \in Nat
<1>1. Ahead(o, rows, r) \subseteq Rows
  BY DEF Ahead
<1>. QED
  BY <1>1, RowSets DEF Place

\* What stands before another row has a smaller place.
LEMMA PlaceGrows ==
    ASSUME NEW o, NEW single, Ordering(o, single),
           NEW rows, rows \subseteq Rows, NEW r \in rows, NEW s \in Rows, <<r, s>> \in o
    PROVE  Place(o, rows, r) < Place(o, rows, s)
<1>1. /\ Ahead(o, rows, r) \cup {r} \subseteq Ahead(o, rows, s)
      /\ r \notin Ahead(o, rows, r)
  BY DEF Ordering, Ahead
<1>2. Ahead(o, rows, r) \subseteq Rows /\ Ahead(o, rows, s) \subseteq Rows
  BY DEF Ahead
<1>3. Cardinality(Ahead(o, rows, r) \cup {r}) = Place(o, rows, r) + 1
  BY <1>1, <1>2, RowSets, FS_AddElement DEF Place
<1>4. Cardinality(Ahead(o, rows, r) \cup {r}) <= Place(o, rows, s)
  BY <1>1, <1>2, RowSubsets DEF Place
<1>. QED
  BY <1>3, <1>4, PlaceType

LEMMA PlacesApart ==
    ASSUME NEW o, NEW single, Ordering(o, single), NEW rows, rows \subseteq Rows,
           NEW r \in single \cap rows, NEW s \in rows,
           Place(o, rows, r) = Place(o, rows, s)
    PROVE  r = s
<1>. SUFFICES ASSUME r # s PROVE FALSE
  OBVIOUS
<1>1. <<r, s>> \in o \/ <<s, r>> \in o
  BY DEF Ordering
<1>2. Place(o, rows, r) < Place(o, rows, s) \/ Place(o, rows, s) < Place(o, rows, r)
  BY <1>1, PlaceGrows
<1>. QED
  BY <1>2, PlaceType

\* A row more shifts the rows behind it by one place.
LEMMA PlaceShifts ==
    ASSUME NEW o, NEW rows, rows \subseteq Rows, NEW x \in Rows \ rows, NEW r
    PROVE  Place(o, rows \cup {x}, r)
             = IF <<x, r>> \in o THEN Place(o, rows, r) + 1 ELSE Place(o, rows, r)
<1>1. Ahead(o, rows, r) \subseteq Rows /\ x \notin Ahead(o, rows, r)
  BY DEF Ahead
<1>2. CASE <<x, r>> \in o
  <2>1. Ahead(o, rows \cup {x}, r) = Ahead(o, rows, r) \cup {x}
    BY <1>2 DEF Ahead
  <2>. QED
    BY <1>1, <1>2, <2>1, RowSets, FS_AddElement DEF Place
<1>3. CASE <<x, r>> \notin o
  <2>1. Ahead(o, rows \cup {x}, r) = Ahead(o, rows, r)
    BY <1>3 DEF Ahead
  <2>. QED
    BY <1>3, <2>1 DEF Place
<1>. QED
  BY <1>2, <1>3

\* A set is larger by no more than one row that is all it has besides.
LEMMA OneMore ==
    ASSUME NEW rows, rows \subseteq Rows, NEW more, more \subseteq Rows,
           \A r, s \in more \ rows : r = s
    PROVE  Cardinality(more) <= Cardinality(rows) + 1
<1>1. Cardinality(rows) \in Nat /\ IsFiniteSet(rows)
  BY RowSets
<1>2. CASE more \subseteq rows
  BY <1>1, <1>2, RowSubsets
<1>3. CASE ~ (more \subseteq rows)
  <2>1. PICK x \in more \ rows : TRUE
    BY <1>3
  <2>2. more \subseteq rows \cup {x} /\ rows \cup {x} \subseteq Rows
    BY <2>1
  <2>3. Cardinality(rows \cup {x}) = Cardinality(rows) + 1
    BY <1>1, <2>1, FS_AddElement
  <2>. QED
    BY <2>2, <2>3, RowSubsets
<1>. QED
  BY <1>2, <1>3

\* When a row leaves, at most one of the rows behind a place gets before it.
LEMMA LeaveUpto ==
    ASSUME NEW o, NEW single, Ordering(o, single), NEW rows, rows \subseteq Rows,
           NEW x \in rows, NEW some, some \subseteq single \cap rows, NEW n \in Nat
    PROVE  Cardinality(Upto(o, rows \ {x}, some, n)) <= Cardinality(Upto(o, rows, some, n)) + 1
<1>1. ASSUME NEW r \in some
      PROVE  /\ Place(o, rows, r) \in Nat /\ Place(o, rows \ {x}, r) \in Nat
             /\ Place(o, rows, r) <= Place(o, rows \ {x}, r) + 1
  <2>1. (rows \ {x}) \cup {x} = rows
    OBVIOUS
  <2>2. Place(o, rows, r) = IF <<x, r>> \in o THEN Place(o, rows \ {x}, r) + 1
                                              ELSE Place(o, rows \ {x}, r)
    BY <2>1, PlaceShifts
  <2>. QED
    BY <2>2, PlaceType
<1>2. ASSUME NEW r \in Upto(o, rows \ {x}, some, n) \ Upto(o, rows, some, n)
      PROVE  Place(o, rows, r) = n
  BY <1>1 DEF Upto
<1>3. \A r, s \in Upto(o, rows \ {x}, some, n) \ Upto(o, rows, some, n) : r = s
  <2>1. Upto(o, rows \ {x}, some, n) \subseteq single \cap rows
    BY DEF Upto
  <2>. QED
    BY <1>2, <2>1, PlacesApart
<1>4. Upto(o, rows \ {x}, some, n) \subseteq Rows /\ Upto(o, rows, some, n) \subseteq Rows
  BY DEF Upto
<1>. QED
  BY <1>3, <1>4, OneMore

LEMMA LeaveFrom ==
    ASSUME NEW o, NEW rows, rows \subseteq Rows, NEW x \in rows,
           NEW some, some \subseteq rows, NEW n \in Nat
    PROVE  Cardinality(From(o, rows \ {x}, some \ {x}, n)) <= Cardinality(From(o, rows, some, n))
<1>1. From(o, rows \ {x}, some \ {x}, n) \subseteq From(o, rows, some, n)
  <2>. SUFFICES ASSUME NEW r \in some \ {x}, Place(o, rows \ {x}, r) >= n
                PROVE  Place(o, rows, r) >= n
    BY DEF From
  <2>1. (rows \ {x}) \cup {x} = rows
    OBVIOUS
  <2>2. Place(o, rows, r) = IF <<x, r>> \in o THEN Place(o, rows \ {x}, r) + 1
                                              ELSE Place(o, rows \ {x}, r)
    BY <2>1, PlaceShifts
  <2>3. Place(o, rows, r) \in Nat /\ Place(o, rows \ {x}, r) \in Nat
    BY PlaceType
  <2>. QED
    BY <2>2, <2>3
<1>2. From(o, rows, some, n) \subseteq Rows
  BY DEF From
<1>. QED
  BY <1>1, <1>2, RowSubsets

LEMMA ComeUpto ==
    ASSUME NEW o, NEW rows, rows \subseteq Rows, NEW x \in Rows \ rows,
           NEW some, some \subseteq rows, NEW n \in Nat
    PROVE  Cardinality(Upto(o, rows \cup {x}, some, n)) <= Cardinality(Upto(o, rows, some, n))
<1>1. Upto(o, rows \cup {x}, some, n) \subseteq Upto(o, rows, some, n)
  <2>. SUFFICES ASSUME NEW r \in some, Place(o, rows \cup {x}, r) < n
                PROVE  Place(o, rows, r) < n
    BY DEF Upto
  <2>1. Place(o, rows \cup {x}, r) = IF <<x, r>> \in o THEN Place(o, rows, r) + 1
                                                        ELSE Place(o, rows, r)
    BY PlaceShifts
  <2>2. Place(o, rows, r) \in Nat
    BY PlaceType
  <2>. QED
    BY <2>1, <2>2
<1>2. Upto(o, rows, some, n) \subseteq Rows
  BY DEF Upto
<1>. QED
  BY <1>1, <1>2, RowSubsets

\* When a row comes, it gets behind a place itself, or it shifts one row there.
LEMMA ComeFrom ==
    ASSUME NEW o, NEW single, Ordering(o, single), NEW rows, rows \subseteq Rows,
           NEW x \in Rows \ rows, NEW some, some \subseteq single \cap (rows \cup {x}),
           NEW n \in Nat
    PROVE  Cardinality(From(o, rows \cup {x}, some, n))
             <= Cardinality(From(o, rows, some \ {x}, n)) + 1
<1>. DEFINE after == From(o, rows \cup {x}, some, n)
            before == From(o, rows, some \ {x}, n)
<1>1. ASSUME NEW r \in rows
      PROVE  /\ Place(o, rows, r) \in Nat
             /\ Place(o, rows \cup {x}, r) = IF <<x, r>> \in o THEN Place(o, rows, r) + 1
                                                               ELSE Place(o, rows, r)
  BY PlaceShifts, PlaceType
<1>2. ASSUME NEW r \in after \ before, r # x
      PROVE  r \in single \cap rows /\ Place(o, rows, r) = n - 1 /\ <<x, r>> \in o
             /\ Place(o, rows \cup {x}, r) = n
  <2>1. r \in some /\ Place(o, rows \cup {x}, r) >= n
    BY <1>2 DEF From
  <2>2. r \in single \cap rows
    BY <1>2, <2>1
  <2>3. ~ (Place(o, rows, r) >= n)
    BY <1>2, <2>1 DEF From
  <2>4. /\ Place(o, rows, r) \in Nat
        /\ Place(o, rows \cup {x}, r) = IF <<x, r>> \in o THEN Place(o, rows, r) + 1
                                                           ELSE Place(o, rows, r)
    BY <1>1, <2>2
  <2>. HIDE DEF after, before
  <2>5. <<x, r>> \in o
    BY <2>1, <2>3, <2>4
  <2>. QED
    BY <2>1, <2>2, <2>3, <2>4, <2>5
<1>3. \A r, s \in after \ before : r # x /\ s # x => r = s
  <2>. HIDE DEF after, before
  <2>. SUFFICES ASSUME NEW r \in after \ before, NEW s \in after \ before, r # x, s # x
                PROVE  r = s
    OBVIOUS
  <2>1. /\ r \in single \cap rows /\ s \in single \cap rows
        /\ Place(o, rows, r) = Place(o, rows, s)
    BY <1>2
  <2>. QED
    BY <2>1, PlacesApart
<1>4. ASSUME NEW r \in after \ before, r # x, x \in after PROVE FALSE
  <2>1. Place(o, rows \cup {x}, x) < Place(o, rows \cup {x}, r)
    <3>1. rows \cup {x} \subseteq Rows /\ x \in rows \cup {x} /\ r \in Rows /\ <<x, r>> \in o
      BY <1>2, <1>4
    <3>. HIDE DEF after, before
    <3>. QED
      BY <3>1, PlaceGrows
  <2>2. Place(o, rows \cup {x}, x) >= n
    BY <1>4 DEF From
  <2>3. Place(o, rows \cup {x}, x) \in Nat /\ Place(o, rows \cup {x}, r) = n
    <3>1. rows \cup {x} \subseteq Rows
      OBVIOUS
    <3>. QED
      BY <1>2, <1>4, <3>1, PlaceType
  <2>. QED
    BY <2>1, <2>2, <2>3
<1>5. \A r, s \in after \ before : r = s
  BY <1>3, <1>4
<1>6. after \subseteq Rows /\ before \subseteq Rows
  BY DEF From
<1>. HIDE DEF after, before
<1>7. Cardinality(after) <= Cardinality(before) + 1
  BY <1>5, <1>6, OneMore
<1>. QED
  BY <1>7 DEF after, before

-----------------------------------------------------------------------------
(* The orders the database may give the rows.                              *)

InOrder(o, rows, seq) ==
    /\ seq \in SetToSeqs(rows)
    /\ \A i, j \in DOMAIN seq : <<seq[i], seq[j]>> \in o => i < j

LEMMA SeqOfRows ==
    ASSUME NEW rows, rows \subseteq Rows, NEW seq \in SetToSeqs(rows)
    PROVE  /\ Cardinality(rows) \in Nat
           /\ seq \in Seq(rows) /\ Len(seq) = Cardinality(rows)
           /\ DOMAIN seq = 1..Cardinality(rows)
           /\ \A i \in 1..Cardinality(rows) : seq[i] \in rows
           /\ \A i, j \in 1..Cardinality(rows) : seq[i] = seq[j] => i = j
<1>1. Cardinality(rows) \in Nat
  BY RowSets
<1>2. /\ seq \in [1..Cardinality(rows) -> rows]
      /\ \A i, j \in 1..Cardinality(rows) : i # j => seq[i] # seq[j]
  BY DEF SetToSeqs
<1>3. seq \in Seq(rows) /\ Len(seq) = Cardinality(rows)
  BY <1>1, <1>2
<1>. QED
  BY <1>1, <1>2, <1>3

StretchOf(seq, a, b) == {seq[i] : i \in a..b}

\* A stretch of the sequence has as many rows as it has numbers.
LEMMA Stretch ==
    ASSUME NEW rows, rows \subseteq Rows, NEW seq \in SetToSeqs(rows),
           NEW a \in Nat \ {0}, NEW b \in Nat, b <= Cardinality(rows)
    PROVE  Cardinality(StretchOf(seq, a, b)) = IF a > b THEN 0 ELSE b - a + 1
<1>. DEFINE part == {seq[i] : i \in a..b}
            f == [i \in a..b |-> seq[i]]
<1>1. /\ Cardinality(rows) \in Nat
      /\ \A i \in 1..Cardinality(rows) : seq[i] \in rows
      /\ \A i, j \in 1..Cardinality(rows) : seq[i] = seq[j] => i = j
  BY SeqOfRows
<1>2. \A i \in a..b : i \in 1..Cardinality(rows)
  BY <1>1
<1>3. f \in Bijection(a..b, part)
  <2>1. f \in [a..b -> part] /\ \A y \in part : \E i \in a..b : f[i] = y
    OBVIOUS
  <2>2. \A i, j \in a..b : f[i] = f[j] => i = j
    BY <1>1, <1>2
  <2>. HIDE DEF f, part
  <2>. QED
    BY <2>1, <2>2 DEF Bijection, Injection, Surjection, IsInjective
<1>4. /\ IsFiniteSet(a..b)
      /\ Cardinality(a..b) = IF a > b THEN 0 ELSE b - a + 1
  BY FS_Interval
<1>5. Cardinality(part) = Cardinality(a..b)
  <2>. HIDE DEF f, part
  <2>. QED
    BY <1>3, <1>4, FS_Bijection DEF ExistsBijection
<1>. QED
  BY <1>4, <1>5 DEF StretchOf

LEMMA AllInSeq ==
    ASSUME NEW rows, rows \subseteq Rows, NEW seq \in SetToSeqs(rows), NEW r \in rows
    PROVE  \E i \in 1..Cardinality(rows) : seq[i] = r
<1>. DEFINE all == StretchOf(seq, 1, Cardinality(rows))
<1>1. Cardinality(rows) \in Nat /\ IsFiniteSet(rows) /\ all \subseteq rows
  BY SeqOfRows, RowSets DEF StretchOf
<1>2. Cardinality(all) = Cardinality(rows)
  BY <1>1, Stretch
<1>3. all = rows
  <2>. HIDE DEF all
  <2>. QED
    BY <1>1, <1>2, FS_Subset
<1>. QED
  BY <1>3 DEF StretchOf

\* A row without a tie stands at its place in every order.
LEMMA PlaceInSeq ==
    ASSUME NEW o, NEW single, Ordering(o, single), NEW rows, rows \subseteq Rows,
           NEW seq, InOrder(o, rows, seq),
           NEW i \in 1..Cardinality(rows), seq[i] \in single
    PROVE  Place(o, rows, seq[i]) = i - 1
<1>1. /\ Cardinality(rows) \in Nat /\ seq \in SetToSeqs(rows)
      /\ DOMAIN seq = 1..Cardinality(rows)
      /\ \A j \in 1..Cardinality(rows) : seq[j] \in rows
      /\ \A j, k \in 1..Cardinality(rows) : seq[j] = seq[k] => j = k
  BY SeqOfRows DEF InOrder
<1>2. \A j \in 1..Cardinality(rows) : <<seq[j], seq[i]>> \in o <=> j < i
  <2>. SUFFICES ASSUME NEW j \in 1..Cardinality(rows)
                PROVE  <<seq[j], seq[i]>> \in o <=> j < i
    OBVIOUS
  <2>1. <<seq[j], seq[i]>> \in o => j < i
    BY <1>1 DEF InOrder
  <2>2. <<seq[i], seq[j]>> \in o => i < j
    BY <1>1 DEF InOrder
  <2>3. j # i => <<seq[j], seq[i]>> \in o \/ <<seq[i], seq[j]>> \in o
    BY <1>1 DEF Ordering
  <2>. QED
    BY <1>1, <2>1, <2>2, <2>3
<1>3. Ahead(o, rows, seq[i]) = StretchOf(seq, 1, i - 1)
  <2>1. ASSUME NEW s \in Ahead(o, rows, seq[i]) PROVE s \in StretchOf(seq, 1, i - 1)
    <3>1. PICK j \in 1..Cardinality(rows) : seq[j] = s
      BY <1>1, AllInSeq DEF Ahead
    <3>. QED
      BY <1>1, <1>2, <3>1 DEF Ahead, StretchOf
  <2>2. ASSUME NEW j \in 1..(i - 1) PROVE seq[j] \in Ahead(o, rows, seq[i])
    BY <1>1, <1>2 DEF Ahead
  <2>. QED
    BY <2>1, <2>2 DEF StretchOf
<1>4. Cardinality(StretchOf(seq, 1, i - 1)) = i - 1
  <2>1. i - 1 \in Nat /\ i - 1 <= Cardinality(rows) /\ 1 \in Nat \ {0}
    BY <1>1
  <2>2. Cardinality(StretchOf(seq, 1, i - 1)) = IF 1 > i - 1 THEN 0 ELSE (i - 1) - 1 + 1
    BY <1>1, <2>1, Stretch
  <2>. QED
    BY <2>1, <2>2
<1>. QED
  BY <1>3, <1>4 DEF Place

LEMMA MinOfTwo ==
    ASSUME NEW a \in Nat, NEW b \in Nat
    PROVE  Min({a, b}) = IF a <= b THEN a ELSE b
<1>. DEFINE least(x) == x \in {a, b} /\ \A y \in {a, b} : x <= y
<1>1. \A x : least(x) <=> x = IF a <= b THEN a ELSE b
  OBVIOUS
<1>2. Min({a, b}) = CHOOSE x \in {a, b} : \A y \in {a, b} : x <= y
  BY DEF Min
<1>3. \E x \in {a, b} : \A y \in {a, b} : x <= y
  BY <1>1
<1>4. least(Min({a, b}))
  BY <1>2, <1>3
<1>. QED
  BY <1>1, <1>4

\* The rows of the page that begins after a place.
PageOf(seq, size, from, n) == {seq[i] : i \in {j \in 1..size : from < j /\ j <= from + n}}

\* A page holds the rows at its places, and is full unless the rows end in it.
LEMMA PageIs ==
    ASSUME NEW rows, rows \subseteq Rows, NEW seq \in SetToSeqs(rows),
           NEW from \in Nat, NEW n \in Nat \ {0}
    PROVE  LET page == ToSet(Slice(seq, from, n))
               size == Cardinality(rows) IN
           /\ page = PageOf(seq, size, from, n)
           /\ Cardinality(page) < n => size < from + n
<1>. DEFINE size == Cardinality(rows)
            last == Min({from + n, Len(seq)})
<1>1. size \in Nat /\ seq \in Seq(rows) /\ Len(seq) = size
  BY SeqOfRows
<1>2. /\ last \in Nat /\ last <= size /\ last <= from + n
      /\ last = size \/ last = from + n
  <2>1. from + n \in Nat
    OBVIOUS
  <2>2. Min({from + n, size}) = IF from + n <= size THEN from + n ELSE size
    BY <1>1, <2>1, MinOfTwo
  <2>3. last = Min({from + n, size})
    BY <1>1
  <2>. HIDE DEF last, size
  <2>. QED
    BY <1>1, <2>1, <2>2, <2>3
<1>3. Slice(seq, from, n) = SubSeq(seq, from + 1, last)
  BY DEF Slice
<1>. HIDE DEF last, size
<1>4. ToSet(SubSeq(seq, from + 1, last)) = StretchOf(seq, from + 1, last)
  <2>1. SubSeq(seq, from + 1, last)
          = [i \in 1..(last - from) |-> seq[from + i]]
    BY <1>1, <1>2
  <2>2. ASSUME NEW r \in StretchOf(seq, from + 1, last)
        PROVE  r \in ToSet(SubSeq(seq, from + 1, last))
    <3>1. PICK i \in (from + 1)..last : r = seq[i]
      BY DEF StretchOf
    <3>2. i - from \in 1..(last - from) /\ from + (i - from) = i
      BY <1>2, <3>1
    <3>. QED
      BY <2>1, <3>1, <3>2 DEF ToSet
  <2>3. ASSUME NEW r \in ToSet(SubSeq(seq, from + 1, last))
        PROVE  r \in StretchOf(seq, from + 1, last)
    <3>1. PICK i \in 1..(last - from) : r = seq[from + i]
      BY <2>1 DEF ToSet
    <3>2. from + i \in (from + 1)..last
      BY <1>2, <3>1
    <3>. QED
      BY <3>1, <3>2 DEF StretchOf
  <2>. QED
    BY <2>2, <2>3
<1>5. (from + 1)..last = {j \in 1..size : from < j /\ j <= from + n}
  BY <1>1, <1>2
<1>6. ASSUME size >= from + n PROVE Cardinality(StretchOf(seq, from + 1, last)) = n
  <2>1. last = from + n
    BY <1>1, <1>2, <1>6
  <2>2. from + 1 \in Nat \ {0} /\ last \in Nat /\ last <= Cardinality(rows)
        /\ seq \in SetToSeqs(rows)
    BY <1>2 DEF size
  <2>3. Cardinality(StretchOf(seq, from + 1, last))
          = IF from + 1 > last THEN 0 ELSE last - (from + 1) + 1
    BY <2>2, Stretch
  <2>. QED
    BY <2>1, <2>3
<1>7. Cardinality(ToSet(Slice(seq, from, n))) < n => size < from + n
  BY <1>1, <1>3, <1>4, <1>6
<1>. QED
  BY <1>3, <1>4, <1>5, <1>7 DEF size, PageOf, StretchOf

\* A page holds the rows from a place up to the next that have their own.
Holds(page, o, single, rows, from, next) ==
    /\ page \subseteq rows
    /\ \A r \in rows \cap single :
          r \in page <=> from <= Place(o, rows, r) /\ Place(o, rows, r) < next

LEMMA PageHolds ==
    ASSUME NEW o, NEW single, Ordering(o, single), NEW rows, rows \subseteq Rows,
           NEW seq, InOrder(o, rows, seq), NEW from \in Nat, NEW n \in Nat \ {0}
    PROVE  Holds(ToSet(Slice(seq, from, n)), o, single, rows, from, from + n)
<1>. DEFINE page == ToSet(Slice(seq, from, n))
            size == Cardinality(rows)
<1>1. /\ size \in Nat /\ seq \in SetToSeqs(rows)
      /\ \A j \in 1..size : seq[j] \in rows
      /\ \A j, k \in 1..size : seq[j] = seq[k] => j = k
  BY SeqOfRows DEF InOrder
<1>2. page = PageOf(seq, size, from, n)
  BY <1>1, PageIs
<1>. HIDE DEF page
<1>3. ASSUME NEW r \in rows \cap single
      PROVE  r \in page <=> from <= Place(o, rows, r) /\ Place(o, rows, r) < from + n
  <2>1. PICK i \in 1..size : seq[i] = r
    BY <1>1, AllInSeq
  <2>2. Place(o, rows, r) = i - 1
    BY <2>1, PlaceInSeq
  <2>3. r \in page <=> from < i /\ i <= from + n
    BY <1>1, <1>2, <2>1 DEF PageOf
  <2>. HIDE DEF size
  <2>4. i \in Nat
    BY <1>1, <2>1
  <2>. QED
    BY <2>2, <2>3, <2>4
<1>4. page \subseteq rows
  BY <1>1, <1>2 DEF PageOf
<1>. QED
  BY <1>3, <1>4 DEF page, Holds

\* Behind a place there are no more rows than the rest of the listing.
LEMMA Rest ==
    ASSUME NEW o, NEW single, Ordering(o, single), NEW rows, rows \subseteq Rows,
           NEW seq, InOrder(o, rows, seq), NEW n \in Nat
    PROVE  Cardinality(From(o, rows, rows \cap single, n))
             <= IF n < Cardinality(rows) THEN Cardinality(rows) - n ELSE 0
<1>. DEFINE size == Cardinality(rows)
            rest == StretchOf(seq, n + 1, size)
<1>1. /\ size \in Nat /\ seq \in SetToSeqs(rows)
      /\ \A j \in 1..size : seq[j] \in rows
  BY SeqOfRows DEF InOrder
<1>2. From(o, rows, rows \cap single, n) \subseteq rest
  <2>. SUFFICES ASSUME NEW r \in rows \cap single, Place(o, rows, r) >= n
                PROVE  r \in rest
    BY DEF From
  <2>1. PICK i \in 1..size : seq[i] = r
    BY <1>1, AllInSeq
  <2>2. Place(o, rows, r) = i - 1
    BY <2>1, PlaceInSeq
  <2>3. i \in (n + 1)..size
    <3>. HIDE DEF size
    <3>. QED
      BY <1>1, <2>1, <2>2
  <2>. QED
    BY <2>1, <2>3 DEF StretchOf
<1>3. Cardinality(rest) = IF n + 1 > size THEN 0 ELSE size - (n + 1) + 1
  BY <1>1, Stretch
<1>4. rest \subseteq rows
  BY <1>1 DEF StretchOf
<1>. HIDE DEF rest
<1>5. /\ Cardinality(From(o, rows, rows \cap single, n)) \in Nat
      /\ Cardinality(rest) \in Nat
      /\ Cardinality(From(o, rows, rows \cap single, n)) <= Cardinality(rest)
  <2>1. rest \subseteq Rows
    BY <1>4
  <2>. QED
    BY <1>2, <2>1, RowSubsets
<1>. HIDE DEF size
<1>6. Cardinality(From(o, rows, rows \cap single, n)) <= IF n < size THEN size - n ELSE 0
  BY <1>1, <1>3, <1>5
<1>. QED
  BY <1>6 DEF size

-----------------------------------------------------------------------------
(* The invariant of a walk.  Of the rows that stand before the next page,  *)
(* one was missed only for each that left; each row behind it that was got *)
(* already, or again, had one come to shift it.                            *)

OrderNow == {p \in Rows \X Rows : Precedes(p[1], p[2])}

Single == {r \in Rows : Alone(r)}

Missed == Upto(OrderNow, Listed, Single \cap (steady \ returned), walk.offset)

Repeated == From(OrderNow, Listed, Single \cap Listed \cap returned, walk.offset)

Fresh == /\ returned = {} /\ walk.offset = 0
         /\ came = 0 /\ slipped = 0 /\ left = 0 /\ again = 0

WalkInv ==
    /\ WalkTypeOK
    /\ rank \in [Rows -> Int]
    /\ walk.pc = "closed" => Fresh
    /\ walk.pc # "closed" => listing \in Listings /\ walk.limit \in Limits
    /\ Walking => /\ steady \subseteq Listed
                  /\ Cardinality(Missed) <= left
                  /\ again + Cardinality(Repeated) <= came
    /\ walk.pc = "counted" => Cardinality(Listed) <= walk.total + slipped
    /\ WalkMissesNoMore
    /\ RepeatsForArrivals

\* The rows of a table that a listing shows.
Shown(t) == IF listing = "audit-log" /\ ~ superuser THEN t \cap own ELSE t

NewestFirst == listing \in {"audit-log", "course-certificates"}

LEMMA QueryIs ==
    ASSUME listing \in Listings
    PROVE  /\ Query.newestFirst = NewestFirst
           /\ Listed = Shown(table)
           /\ walk.limit \in Limits => Capped \in Nat \ {0}
<1>1. CASE listing = "audit-log"
  <2>1. Query = AuditLogQuery
    BY <1>1 DEF Query
  <2>2. walk.limit \in Limits => Min({walk.limit, PageCap}) \in Nat \ {0}
    BY ListingAssumption, MinOfTwo
  <2>. QED
    BY <1>1, <2>1, <2>2 DEF AuditLogQuery, Listed, Capped, Shown, NewestFirst
<1>2. CASE listing = "users"
  <2>1. Query = UsersQuery
    BY <1>2 DEF Query
  <2>2. NewestFirst = FALSE /\ listing # "audit-log"
    BY <1>2 DEF NewestFirst
  <2>. QED
    BY <2>1, <2>2, ListingAssumption DEF UsersQuery, Listed, Capped, Shown
<1>3. CASE listing = "courses"
  <2>1. Query = CoursesQuery
    BY <1>3 DEF Query
  <2>2. NewestFirst = FALSE /\ listing # "audit-log"
    BY <1>3 DEF NewestFirst
  <2>. QED
    BY <2>1, <2>2, ListingAssumption DEF CoursesQuery, Listed, Capped, Shown
<1>4. CASE listing = "course-certificates"
  <2>1. Query = CertificatesQuery
    BY <1>4 DEF Query
  <2>. QED
    BY <1>4, <2>1, ListingAssumption
       DEF CertificatesQuery, Listed, Capped, Shown, NewestFirst
<1>. QED
  BY <1>1, <1>2, <1>3, <1>4 DEF Listings

\* While the listing, its order and its client stay, so do the places.
LEMMA SameListing ==
    ASSUME listing \in Listings, UNCHANGED <<listing, rank, own, superuser>>
    PROVE  /\ OrderNow' = OrderNow
           /\ Single' = Single
           /\ Listed' = Shown(table')
<1>1. /\ Query'.newestFirst = NewestFirst
      /\ Listed' = Shown(table')
  <2>1. CASE listing = "audit-log"
    <3>1. Query' = AuditLogQuery'
      BY <2>1 DEF Query
    <3>. QED
      BY <2>1, <3>1 DEF AuditLogQuery, Listed, Shown, NewestFirst
  <2>2. CASE listing = "users"
    <3>1. Query' = UsersQuery'
      BY <2>2 DEF Query
    <3>2. NewestFirst = FALSE /\ listing # "audit-log" /\ listing' # "audit-log"
      BY <2>2 DEF NewestFirst
    <3>. QED
      BY <3>1, <3>2 DEF UsersQuery, Listed, Shown
  <2>3. CASE listing = "courses"
    <3>1. Query' = CoursesQuery'
      BY <2>3 DEF Query
    <3>2. NewestFirst = FALSE /\ listing # "audit-log" /\ listing' # "audit-log"
      BY <2>3 DEF NewestFirst
    <3>. QED
      BY <3>1, <3>2 DEF CoursesQuery, Listed, Shown
  <2>4. CASE listing = "course-certificates"
    <3>1. Query' = CertificatesQuery'
      BY <2>4 DEF Query
    <3>. QED
      BY <2>4, <3>1 DEF CertificatesQuery, Listed, Shown, NewestFirst
  <2>. QED
    BY <2>1, <2>2, <2>3, <2>4 DEF Listings
<1>2. Query'.newestFirst = Query.newestFirst
  BY <1>1, QueryIs
<1>3. OrderNow' = OrderNow
  BY <1>2 DEF OrderNow, Precedes
<1>4. Single' = Single
  BY DEF Single, Alone
<1>. QED
  BY <1>1, <1>3, <1>4

LEMMA OrderingNow ==
    ASSUME listing \in Listings, rank \in [Rows -> Int]
    PROVE  /\ Ordering(OrderNow, Single)
           /\ Listed \subseteq Rows => \A seq \in Orders : InOrder(OrderNow, Listed, seq)
<1>. DEFINE before(r, s) == IF NewestFirst THEN rank[r] > rank[s] ELSE rank[r] < rank[s]
<1>1. \A r, s : Precedes(r, s) <=> before(r, s)
  BY QueryIs DEF Precedes
<1>2. \A r, s \in Rows : <<r, s>> \in OrderNow <=> before(r, s)
  BY <1>1 DEF OrderNow
<1>3. \A r \in Rows : rank[r] \in Int
  OBVIOUS
<1>4. Ordering(OrderNow, Single)
  <2>1. \A r \in Rows : <<r, r>> \notin OrderNow
    BY <1>2, <1>3
  <2>2. \A r, s, t \in Rows : before(r, s) /\ before(s, t) => before(r, t)
    BY <1>3
  <2>3. \A r \in Single : \A s \in Rows \ {r} : before(r, s) \/ before(s, r)
    BY <1>3 DEF Single, Alone
  <2>. HIDE DEF before
  <2>4. Single \subseteq Rows
    BY DEF Single
  <2>5. \A r, s, t \in Rows : <<r, s>> \in OrderNow /\ <<s, t>> \in OrderNow
                                => <<r, t>> \in OrderNow
    BY <1>2, <2>2
  <2>6. \A r \in Single : \A s \in Rows \ {r} : <<r, s>> \in OrderNow \/ <<s, r>> \in OrderNow
    BY <1>2, <2>3, <2>4
  <2>. QED
    BY <2>1, <2>4, <2>5, <2>6 DEF Ordering
<1>5. ASSUME Listed \subseteq Rows, NEW seq \in Orders
      PROVE  InOrder(OrderNow, Listed, seq)
  <2>1. /\ seq \in SetToSeqs(Listed)
        /\ \A i, j \in DOMAIN seq : Precedes(seq[i], seq[j]) => i < j
    BY DEF Orders
  <2>2. ASSUME NEW i \in DOMAIN seq, NEW j \in DOMAIN seq, <<seq[i], seq[j]>> \in OrderNow
        PROVE  Precedes(seq[i], seq[j])
    BY <2>2 DEF OrderNow
  <2>. QED
    BY <2>1, <2>2 DEF InOrder
<1>. QED
  BY <1>4, <1>5

\* What a step of a walk may count on.
LEMMA InWalk ==
    ASSUME WalkInv, Walking
    PROVE  /\ listing \in Listings /\ walk.limit \in Limits
           /\ table \subseteq Rows /\ own \subseteq Rows
           /\ returned \subseteq Rows /\ steady \subseteq Listed
           /\ Listed = Shown(table) /\ Listed \subseteq Rows
           /\ Capped \in Nat \ {0}
           /\ walk.offset \in Nat /\ walk.total \in Nat
           /\ came \in Nat /\ slipped \in Nat /\ left \in Nat /\ again \in Nat
           /\ slipped <= came
           /\ Ordering(OrderNow, Single)
           /\ Cardinality(Missed) <= left /\ Cardinality(Missed) \in Nat
           /\ again + Cardinality(Repeated) <= came /\ Cardinality(Repeated) \in Nat
<1>1. listing \in Listings /\ walk.limit \in Limits
  BY DEF WalkInv, Walking
<1>2. /\ table \subseteq Rows /\ own \subseteq Rows /\ returned \subseteq Rows
      /\ walk.offset \in Nat /\ slipped <= came
      /\ came \in Nat /\ slipped \in Nat /\ left \in Nat /\ again \in Nat
  BY DEF WalkInv, WalkTypeOK
<1>3. walk.total \in Nat
  <2>1. walk.total \in 0..Cardinality(Rows) /\ Cardinality(Rows) \in Nat
    BY RowSets DEF WalkInv, WalkTypeOK
  <2>. QED
    BY <2>1
<1>4. Listed = Shown(table) /\ Capped \in Nat \ {0}
  BY <1>1, QueryIs
<1>5. Listed \subseteq Rows
  BY <1>2, <1>4 DEF Shown
<1>6. /\ steady \subseteq Listed
      /\ Cardinality(Missed) <= left
      /\ again + Cardinality(Repeated) <= came
      /\ rank \in [Rows -> Int]
  BY DEF WalkInv
<1>7. Missed \subseteq Rows /\ Repeated \subseteq Rows
  BY DEF Missed, Repeated, Upto, From, Single
<1>. QED
  BY <1>1, <1>2, <1>3, <1>4, <1>5, <1>6, <1>7, OrderingNow, RowSets

LEMMA WalkInitial == WalkInit => WalkInv
<1>. SUFFICES ASSUME WalkInit PROVE WalkInv
  OBVIOUS
<1>1. Cardinality(Rows) \in Nat
  BY RowSets
<1>2. WalkTypeOK
  <2>1. walk \in [pc : {"closed", "asked", "counted", "done"}, offset : Nat,
                   limit : Nat, total : 0..Cardinality(Rows)]
    BY <1>1 DEF WalkInit
  <2>2. table \cup own \cup returned \cup steady \subseteq Rows
    BY DEF WalkInit
  <2>3. {came, slipped, left, again} \subseteq Nat /\ slipped <= came
    BY DEF WalkInit
  <2>4. listing \in Listings \cup {None} /\ superuser \in BOOLEAN
    BY DEF WalkInit
  <2>. QED
    BY <2>1, <2>2, <2>3, <2>4 DEF WalkTypeOK
<1>. QED
  BY <1>2 DEF WalkInit, WalkInv, Fresh, Walking, WalkMissesNoMore, RepeatsForArrivals

LEMMA OpenStep ==
    ASSUME WalkInv, NEW l \in Listings, Open(l)
    PROVE  WalkInv'
<1>1. /\ Fresh /\ WalkTypeOK
      /\ returned' = returned /\ came' = came /\ slipped' = slipped
      /\ left' = left /\ again' = again
  BY DEF WalkInv, Open
<1>2. PICK n \in Limits : walk' = [walk EXCEPT !.pc = "asked", !.limit = n]
  BY DEF Open
<1>3. /\ walk' \in [pc : {"closed", "asked", "counted", "done"}, offset : Nat,
                    limit : Nat, total : 0..Cardinality(Rows)]
      /\ walk'.pc = "asked" /\ walk'.limit \in Limits /\ walk'.offset = 0
  BY <1>1, <1>2, ListingAssumption DEF WalkTypeOK, Fresh
<1>4. listing' \in Listings /\ table' \subseteq Rows /\ own' \subseteq Rows
      /\ superuser' \in BOOLEAN /\ steady' = Listed'
  BY DEF Open
<1>5. Listed' \subseteq table'
  BY <1>4 DEF Listings, Listed, Query, AuditLogQuery, UsersQuery, CoursesQuery,
              CertificatesQuery
<1>6. WalkTypeOK'
  BY <1>1, <1>3, <1>4, <1>5 DEF WalkTypeOK
<1>7. rank' \in [Rows -> Int]
  BY RowSets DEF Open
<1>8. Missed' = {}
  <2>1. \A r : Place(OrderNow', Listed', r) \in Nat
    BY <1>4, <1>5, PlaceType
  <2>. QED
    BY <1>3, <2>1 DEF Missed, Upto
<1>9. Repeated' = {}
  BY <1>1 DEF Repeated, From, Fresh
<1>10. Cardinality({}) = 0
  BY FS_EmptySet
<1>. QED
  BY <1>1, <1>3, <1>4, <1>6, <1>7, <1>8, <1>9, <1>10
     DEF WalkInv, Walking, Fresh, WalkMissesNoMore, RepeatsForArrivals

LEMMA CountStep ==
    ASSUME WalkInv, Count
    PROVE  WalkInv'
<1>1. Walking /\ walk.pc = "asked"
  BY DEF Count, Walking
<1>2. walk' = [walk EXCEPT !.pc = "counted", !.total = Cardinality(Listed)]
  BY DEF Count
<1>3. UNCHANGED <<listing, rank, table, own, superuser, returned,
                  steady, came, slipped, left, again>>
  BY DEF Count
<1>4. /\ Listed \subseteq Rows /\ Listed = Shown(table) /\ listing \in Listings
      /\ slipped \in Nat
  BY <1>1, InWalk
<1>5. OrderNow' = OrderNow /\ Single' = Single /\ Listed' = Listed
  BY <1>3, <1>4, SameListing
<1>6. Cardinality(Listed) \in 0..Cardinality(Rows) /\ Cardinality(Listed) \in Nat
  BY <1>4, RowSets
<1>7. /\ walk' \in [pc : {"closed", "asked", "counted", "done"}, offset : Nat,
                    limit : Nat, total : 0..Cardinality(Rows)]
      /\ walk'.pc = "counted" /\ walk'.limit = walk.limit
      /\ walk'.offset = walk.offset /\ walk'.total = Cardinality(Listed)
  BY <1>2, <1>6 DEF WalkInv, WalkTypeOK
<1>8. WalkTypeOK'
  BY <1>3, <1>7 DEF WalkInv, WalkTypeOK
<1>9. Missed' = Missed /\ Repeated' = Repeated
  BY <1>3, <1>5, <1>7 DEF Missed, Repeated
<1>10. /\ steady \subseteq Listed /\ Cardinality(Missed) <= left
       /\ again + Cardinality(Repeated) <= came /\ walk.limit \in Limits
       /\ rank \in [Rows -> Int] /\ RepeatsForArrivals
  BY <1>1 DEF WalkInv
<1>11. Cardinality(Listed') <= walk'.total + slipped'
  BY <1>3, <1>4, <1>5, <1>6, <1>7
<1>. QED
  BY <1>3, <1>4, <1>5, <1>7, <1>8, <1>9, <1>10, <1>11
     DEF WalkInv, Walking, WalkMissesNoMore, RepeatsForArrivals

\* A step that only moves a row keeps the client where it is.
LEMMA RowMoves ==
    ASSUME WalkInv, Walking, UNCHANGED <<listing, rank, own, superuser, walk, returned>>,
           WalkTypeOK', steady' \subseteq Listed',
           Cardinality(Missed') <= left', again' + Cardinality(Repeated') <= came',
           again' <= came',
           walk.pc = "counted" => Cardinality(Listed') <= walk.total + slipped'
    PROVE  WalkInv'
<1>1. walk' = walk /\ walk.pc \in {"asked", "counted"}
  BY DEF Walking
<1>2. listing' \in Listings /\ walk'.limit \in Limits /\ rank' \in [Rows -> Int]
  BY <1>1 DEF WalkInv
<1>. QED
  BY <1>1, <1>2 DEF WalkInv, Walking, WalkMissesNoMore, RepeatsForArrivals

LEMMA ComeStep ==
    ASSUME WalkInv, NEW x \in Rows, Come(x)
    PROVE  WalkInv'
<1>1. /\ Walking /\ x \notin table /\ table' = table \cup {x}
      /\ UNCHANGED <<listing, rank, own, superuser, walk, returned, steady, left, again>>
      /\ came' = came + Cardinality(Listed' \ Listed)
      /\ slipped' = IF walk.pc = "counted" THEN slipped + Cardinality(Listed' \ Listed)
                                           ELSE slipped
  BY DEF Come
<1>2. /\ listing \in Listings /\ Listed = Shown(table) /\ Listed \subseteq Rows
      /\ steady \subseteq Listed /\ walk.offset \in Nat /\ walk.total \in Nat
      /\ came \in Nat /\ slipped \in Nat /\ left \in Nat /\ again \in Nat
      /\ slipped <= came
      /\ Ordering(OrderNow, Single)
      /\ Cardinality(Missed) <= left /\ Cardinality(Missed) \in Nat
      /\ again + Cardinality(Repeated) <= came /\ Cardinality(Repeated) \in Nat
  BY <1>1, InWalk
<1>3. /\ OrderNow' = OrderNow /\ Single' = Single /\ Listed' = Shown(table \cup {x})
  BY <1>1, <1>2, SameListing
<1>4. Cardinality(Listed) \in Nat /\ IsFiniteSet(Listed)
  BY <1>2, RowSets
<1>5. walk.pc = "counted" => Cardinality(Listed) <= walk.total + slipped
  BY DEF WalkInv
<1>. DEFINE got == Single \cap Listed \cap returned
<1>6. CASE x \in Shown(table \cup {x})
  <2>1. Listed' = Listed \cup {x} /\ x \notin Listed
    BY <1>1, <1>2, <1>3, <1>6 DEF Shown
  <2>2. Listed' \ Listed = {x} /\ Cardinality({x}) = 1
    BY <2>1, FS_Singleton
  <2>3. /\ came' = came + 1
        /\ slipped' = IF walk.pc = "counted" THEN slipped + 1 ELSE slipped
    BY <1>1, <2>2
  <2>4. Cardinality(Listed') = Cardinality(Listed) + 1
    BY <1>4, <2>1, FS_AddElement
  <2>5. Missed' = Upto(OrderNow, Listed \cup {x}, Single \cap (steady \ returned), walk.offset)
    BY <1>1, <1>3, <2>1 DEF Missed
  <2>6. Cardinality(Missed') <= Cardinality(Missed)
    <3>1. Single \cap (steady \ returned) \subseteq Listed
      BY <1>2
    <3>. QED
      BY <1>2, <2>1, <2>5, <3>1, ComeUpto DEF Missed
  <2>7. Repeated' = From(OrderNow, Listed \cup {x},
                         Single \cap (Listed \cup {x}) \cap returned, walk.offset)
    BY <1>1, <1>3, <2>1 DEF Repeated
  <2>8. Cardinality(Repeated') <= Cardinality(Repeated) + 1
    <3>. DEFINE some == Single \cap (Listed \cup {x}) \cap returned
    <3>1. some \subseteq Single \cap (Listed \cup {x}) /\ some \ {x} = got
      BY <2>1
    <3>. HIDE DEF some, got
    <3>2. Cardinality(From(OrderNow, Listed \cup {x}, some, walk.offset))
            <= Cardinality(From(OrderNow, Listed, some \ {x}, walk.offset)) + 1
      BY <1>2, <2>1, <3>1, ComeFrom
    <3>3. Repeated = From(OrderNow, Listed, got, walk.offset)
      BY DEF Repeated, got
    <3>. QED
      BY <2>7, <3>1, <3>2, <3>3 DEF some
  <2>9. Cardinality(Missed') \in Nat /\ Cardinality(Repeated') \in Nat
    <3>1. Missed' \subseteq Rows /\ Repeated' \subseteq Rows
      BY <1>2, <2>5, <2>7 DEF Upto, From
    <3>. QED
      BY <3>1, RowSets
  <2>10. WalkTypeOK'
    BY <1>1, <1>2, <2>3 DEF WalkInv, WalkTypeOK
  <2>11. /\ Cardinality(Missed') <= left'
         /\ again' + Cardinality(Repeated') <= came' /\ again' <= came'
    BY <1>1, <1>2, <2>3, <2>6, <2>8, <2>9
  <2>12. walk.pc = "counted" => Cardinality(Listed') <= walk.total + slipped'
    BY <1>2, <1>4, <1>5, <2>3, <2>4
  <2>13. steady' \subseteq Listed'
    BY <1>1, <1>2, <2>1
  <2>. QED
    BY <1>1, <2>10, <2>11, <2>12, <2>13, RowMoves
<1>7. CASE x \notin Shown(table \cup {x})
  <2>1. Listed' = Listed
    BY <1>2, <1>3, <1>7 DEF Shown
  <2>2. Cardinality(Listed' \ Listed) = 0
    <3>1. Listed' \ Listed = {}
      BY <2>1
    <3>. QED
      BY <3>1, FS_EmptySet
  <2>3. came' = came /\ slipped' = slipped
    BY <1>1, <1>2, <2>2
  <2>4. Missed' = Missed /\ Repeated' = Repeated
    BY <1>1, <1>3, <2>1 DEF Missed, Repeated
  <2>5. WalkTypeOK'
    BY <1>1, <1>2, <2>3 DEF WalkInv, WalkTypeOK
  <2>6. again' <= came'
    BY <1>1, <1>2, <2>3
  <2>. QED
    BY <1>1, <1>2, <1>5, <2>1, <2>3, <2>4, <2>5, <2>6, RowMoves
<1>. QED
  BY <1>6, <1>7

LEMMA LeaveStep ==
    ASSUME WalkInv, NEW x \in Rows, Leave(x)
    PROVE  WalkInv'
<1>1. /\ Walking /\ x \in table /\ table' = table \ {x} /\ steady' = steady \ {x}
      /\ UNCHANGED <<listing, rank, own, superuser, walk, returned, came, slipped, again>>
      /\ left' = left + Cardinality(Listed \ Listed')
  BY DEF Leave
<1>2. /\ listing \in Listings /\ Listed = Shown(table) /\ Listed \subseteq Rows
      /\ steady \subseteq Listed /\ walk.offset \in Nat /\ walk.total \in Nat
      /\ came \in Nat /\ slipped \in Nat /\ left \in Nat /\ again \in Nat
      /\ slipped <= came
      /\ Ordering(OrderNow, Single)
      /\ Cardinality(Missed) <= left /\ Cardinality(Missed) \in Nat
      /\ again + Cardinality(Repeated) <= came /\ Cardinality(Repeated) \in Nat
  BY <1>1, InWalk
<1>3. OrderNow' = OrderNow /\ Single' = Single /\ Listed' = Shown(table \ {x})
  BY <1>1, <1>2, SameListing
<1>4. Listed' = Listed \ {x} /\ steady' \subseteq Listed'
  BY <1>1, <1>2, <1>3 DEF Shown
<1>5. walk.pc = "counted" => Cardinality(Listed') <= walk.total + slipped'
  <2>1. /\ Cardinality(Listed') <= Cardinality(Listed)
        /\ Cardinality(Listed') \in Nat /\ Cardinality(Listed) \in Nat
    BY <1>2, <1>4, RowSubsets
  <2>2. walk.pc = "counted" => Cardinality(Listed) <= walk.total + slipped
    BY DEF WalkInv
  <2>. QED
    BY <1>1, <1>2, <2>1, <2>2
<1>6. CASE x \in Listed
  <2>1. Listed \ Listed' = {x} /\ Cardinality({x}) = 1
    BY <1>4, <1>6, FS_Singleton
  <2>2. left' = left + 1
    BY <1>1, <2>1
  <2>. DEFINE due == Single \cap (steady \ returned)
              got == Single \cap Listed \cap returned
  <2>3. due \subseteq Single \cap Listed /\ got \subseteq Listed
    BY <1>2
  <2>4. Missed' = Upto(OrderNow, Listed \ {x}, due \ {x}, walk.offset)
    <3>1. Single \cap ((steady \ {x}) \ returned) = due \ {x}
      OBVIOUS
    <3>. QED
      BY <1>1, <1>3, <1>4, <3>1 DEF Missed
  <2>5. Repeated' = From(OrderNow, Listed \ {x}, got \ {x}, walk.offset)
    <3>1. Single \cap (Listed \ {x}) \cap returned = got \ {x}
      OBVIOUS
    <3>. QED
      BY <1>1, <1>3, <1>4, <3>1 DEF Repeated
  <2>6. Missed = Upto(OrderNow, Listed, due, walk.offset)
        /\ Repeated = From(OrderNow, Listed, got, walk.offset)
    BY DEF Missed, Repeated
  <2>. HIDE DEF due, got
  <2>7. Cardinality(Missed') <= Cardinality(Missed) + 1 /\ Cardinality(Missed') \in Nat
    <3>1. Cardinality(Upto(OrderNow, Listed \ {x}, due, walk.offset))
            <= Cardinality(Missed) + 1
      BY <1>2, <1>6, <2>3, <2>6, LeaveUpto
    <3>2. Missed' \subseteq Upto(OrderNow, Listed \ {x}, due, walk.offset)
      BY <2>4 DEF Upto
    <3>3. Upto(OrderNow, Listed \ {x}, due, walk.offset) \subseteq Rows
      BY <1>2, <2>3 DEF Upto
    <3>4. /\ Cardinality(Missed') \in Nat
          /\ Cardinality(Upto(OrderNow, Listed \ {x}, due, walk.offset)) \in Nat
          /\ Cardinality(Missed') <= Cardinality(Upto(OrderNow, Listed \ {x}, due, walk.offset))
      BY <3>2, <3>3, RowSubsets
    <3>. QED
      BY <1>2, <3>1, <3>4
  <2>8. Cardinality(Repeated') <= Cardinality(Repeated) /\ Cardinality(Repeated') \in Nat
    <3>1. Cardinality(Repeated') <= Cardinality(Repeated)
      BY <1>2, <1>6, <2>3, <2>5, <2>6, LeaveFrom
    <3>2. Repeated' \subseteq Rows
      BY <1>2, <2>3, <2>5 DEF From
    <3>. QED
      BY <3>1, <3>2, RowSets
  <2>9. /\ Cardinality(Missed') <= left'
        /\ again' + Cardinality(Repeated') <= came' /\ again' <= came'
    BY <1>1, <1>2, <2>2, <2>7, <2>8
  <2>10. WalkTypeOK'
    BY <1>1, <1>2, <2>2 DEF WalkInv, WalkTypeOK
  <2>. QED
    BY <1>1, <1>4, <1>5, <2>9, <2>10, RowMoves
<1>7. CASE x \notin Listed
  <2>1. Listed' = Listed /\ steady' = steady
    BY <1>1, <1>2, <1>4, <1>7
  <2>2. Listed \ Listed' = {} /\ Cardinality({}) = 0
    BY <2>1, FS_EmptySet
  <2>3. left' = left
    BY <1>1, <1>2, <2>2
  <2>4. Missed' = Missed /\ Repeated' = Repeated
    BY <1>1, <1>3, <2>1 DEF Missed, Repeated
  <2>5. WalkTypeOK'
    BY <1>1, <1>2, <2>3 DEF WalkInv, WalkTypeOK
  <2>6. again' <= came'
    BY <1>1, <1>2
  <2>. QED
    BY <1>1, <1>2, <1>4, <1>5, <2>3, <2>4, <2>5, <2>6, RowMoves
<1>. QED
  BY <1>6, <1>7

\* What a page does to the rows before and behind the next one.
LEMMA PageTurns ==
    ASSUME WalkInv, Walking, NEW seq \in Orders
    PROVE  LET page == ToSet(Slice(seq, walk.offset, Capped))
               next == walk.offset + Capped
               got  == {r \in page \cap returned : Alone(r)} IN
           /\ page \subseteq Listed
           /\ Upto(OrderNow, Listed, Single \cap (steady \ (returned \cup page)), next)
                \subseteq Missed
           /\ Cardinality(got) \in Nat
           /\ Cardinality(got)
                + Cardinality(From(OrderNow, Listed,
                                   Single \cap Listed \cap (returned \cup page), next))
                = Cardinality(Repeated)
<1>. DEFINE page == ToSet(Slice(seq, walk.offset, Capped))
            next == walk.offset + Capped
            got  == {r \in page \cap returned : Alone(r)}
            later == From(OrderNow, Listed, Single \cap Listed \cap (returned \cup page), next)
<1>1. /\ Listed \subseteq Rows /\ steady \subseteq Listed
      /\ Ordering(OrderNow, Single) /\ InOrder(OrderNow, Listed, seq)
      /\ walk.offset \in Nat /\ Capped \in Nat \ {0} /\ next \in Nat /\ walk.offset < next
  <2>1. rank \in [Rows -> Int]
    BY DEF WalkInv
  <2>. QED
    BY <2>1, InWalk, OrderingNow
<1>2. /\ page \subseteq Listed
      /\ \A r \in Listed \cap Single :
            r \in page <=> walk.offset <= Place(OrderNow, Listed, r)
                           /\ Place(OrderNow, Listed, r) < next
  <2>1. Holds(page, OrderNow, Single, Listed, walk.offset, next)
    BY <1>1, PageHolds
  <2>. QED
    BY <2>1 DEF Holds
<1>3. \A r : Place(OrderNow, Listed, r) \in Nat
  BY <1>1, PlaceType
<1>4. got = {r \in page \cap returned : r \in Single}
  BY <1>1, <1>2 DEF Single
<1>. HIDE DEF page, next, got
<1>5. Upto(OrderNow, Listed, Single \cap (steady \ (returned \cup page)), next) \subseteq Missed
  <2>. SUFFICES ASSUME NEW r \in Single \cap (steady \ (returned \cup page)),
                       Place(OrderNow, Listed, r) < next
                PROVE  Place(OrderNow, Listed, r) < walk.offset
    BY DEF Upto, Missed
  <2>1. r \in Listed \cap Single /\ r \notin page
    BY <1>1
  <2>. QED
    BY <1>1, <1>2, <1>3, <2>1
<1>6. got \cup later = Repeated /\ got \cap later = {}
  <2>1. \A r \in got : r \in Repeated /\ r \notin later
    <3>. SUFFICES ASSUME NEW r \in got
                  PROVE  r \in Repeated /\ r \notin later
      OBVIOUS
    <3>1. r \in page /\ r \in returned /\ r \in Single /\ r \in Listed
      BY <1>2, <1>4
    <3>2. walk.offset <= Place(OrderNow, Listed, r) /\ Place(OrderNow, Listed, r) < next
      BY <1>2, <3>1
    <3>. QED
      BY <1>1, <1>3, <3>1, <3>2 DEF Repeated, From
  <2>2. \A r \in later : r \in Repeated
    <3>. SUFFICES ASSUME NEW r \in Single \cap Listed \cap (returned \cup page),
                         Place(OrderNow, Listed, r) >= next
                  PROVE  r \in Repeated
      BY DEF From
    <3>1. r \notin page
      BY <1>1, <1>2, <1>3
    <3>2. Place(OrderNow, Listed, r) >= walk.offset
      BY <1>1, <1>3
    <3>. QED
      BY <3>1, <3>2 DEF Repeated, From
  <2>3. \A r \in Repeated : r \in got \/ r \in later
    <3>. SUFFICES ASSUME NEW r \in Single \cap Listed \cap returned,
                         Place(OrderNow, Listed, r) >= walk.offset
                  PROVE  r \in got \/ r \in later
      BY DEF Repeated, From
    <3>1. CASE Place(OrderNow, Listed, r) < next
      BY <1>2, <1>4, <3>1
    <3>2. CASE ~ (Place(OrderNow, Listed, r) < next)
      <4>1. Place(OrderNow, Listed, r) >= next
        BY <1>1, <1>3, <3>2
      <4>. QED
        BY <4>1 DEF From
    <3>. QED
      BY <3>1, <3>2
  <2>. HIDE DEF later
  <2>. QED
    BY <2>1, <2>2, <2>3
<1>7. got \subseteq Rows /\ later \subseteq Rows
  BY <1>1, <1>2, <1>4 DEF From
<1>. HIDE DEF later
<1>8. /\ IsFiniteSet(got) /\ IsFiniteSet(later)
      /\ Cardinality(got) \in Nat /\ Cardinality(later) \in Nat
  BY <1>7, RowSets
<1>9. Cardinality(got \cup later) = Cardinality(got) + Cardinality(later) - Cardinality({})
  BY <1>6, <1>8, FS_Union
<1>10. Cardinality({}) = 0
  BY FS_EmptySet
<1>11. Cardinality(got) + Cardinality(later) = Cardinality(Repeated)
  BY <1>6, <1>8, <1>9, <1>10
<1>. QED
  BY <1>2, <1>5, <1>8, <1>11 DEF page, next, got, later

\* When a walk stops, no more rows are behind its last page than slipped in.
LEMMA StopsAtEnd ==
    ASSUME WalkInv, walk.pc = "counted", NEW seq \in Orders,
           Stop(ToSet(Slice(seq, walk.offset, Capped)), walk.offset + Capped)
    PROVE  Cardinality(From(OrderNow, Listed, Listed \cap Single, walk.offset + Capped))
             <= slipped
<1>. DEFINE page == ToSet(Slice(seq, walk.offset, Capped))
            next == walk.offset + Capped
            size == Cardinality(Listed)
            rest == Cardinality(From(OrderNow, Listed, Listed \cap Single, next))
<1>1. Walking
  BY DEF Walking
<1>2. /\ Listed \subseteq Rows
      /\ Ordering(OrderNow, Single) /\ InOrder(OrderNow, Listed, seq)
      /\ walk.offset \in Nat /\ Capped \in Nat \ {0} /\ next \in Nat
      /\ walk.total \in Nat /\ slipped \in Nat
  <2>1. rank \in [Rows -> Int]
    BY DEF WalkInv
  <2>. QED
    BY <1>1, <2>1, InWalk, OrderingNow
<1>3. size \in Nat /\ size <= walk.total + slipped /\ seq \in SetToSeqs(Listed)
  BY <1>2, RowSets DEF WalkInv, InOrder
<1>4. rest <= IF next < size THEN size - next ELSE 0
  BY <1>2, Rest
<1>5. Cardinality(page) < Capped => size < next
  BY <1>2, <1>3, PageIs
<1>6. next >= walk.total \/ Cardinality(page) < Capped
  BY DEF Stop, Echo
<1>7. rest \in Nat
  <2>1. From(OrderNow, Listed, Listed \cap Single, next) \subseteq Rows
    BY <1>2 DEF From
  <2>. QED
    BY <2>1, RowSets
<1>. HIDE DEF page, next, size, rest
<1>8. rest <= slipped
  BY <1>2, <1>3, <1>4, <1>5, <1>6, <1>7
<1>. QED
  BY <1>8 DEF rest, next

LEMMA FetchStep ==
    ASSUME WalkInv, Fetch
    PROVE  WalkInv'
<1>. DEFINE next == walk.offset + Capped
<1>1. walk.pc = "counted" /\ Walking
      /\ UNCHANGED <<listing, rank, table, own, superuser, steady, came, slipped, left>>
  BY DEF Fetch, Walking
<1>2. PICK seq \in Orders :
        LET page == ToSet(Slice(seq, walk.offset, Capped)) IN
        /\ returned' = returned \cup page
        /\ again' = again + Cardinality({r \in page \cap returned : Alone(r)})
        /\ walk' = IF Stop(page, next) THEN [walk EXCEPT !.pc = "done"]
                   ELSE [walk EXCEPT !.pc = "asked", !.offset = next]
  BY DEF Fetch, Echo
<1>. DEFINE page == ToSet(Slice(seq, walk.offset, Capped))
            got  == {r \in page \cap returned : Alone(r)}
            due  == Upto(OrderNow, Listed, Single \cap (steady \ (returned \cup page)), next)
            later == From(OrderNow, Listed, Single \cap Listed \cap (returned \cup page), next)
<1>3. /\ returned' = returned \cup page
      /\ again' = again + Cardinality(got)
      /\ walk' = IF Stop(page, next) THEN [walk EXCEPT !.pc = "done"]
                 ELSE [walk EXCEPT !.pc = "asked", !.offset = next]
  BY <1>2
<1>4. /\ page \subseteq Listed /\ due \subseteq Missed
      /\ Cardinality(got) \in Nat
      /\ Cardinality(got) + Cardinality(later) = Cardinality(Repeated)
  BY <1>1, PageTurns
<1>5. /\ listing \in Listings /\ walk.limit \in Limits
      /\ Listed = Shown(table) /\ Listed \subseteq Rows /\ returned \subseteq Rows
      /\ steady \subseteq Listed
      /\ walk.offset \in Nat /\ Capped \in Nat \ {0}
      /\ came \in Nat /\ slipped \in Nat /\ left \in Nat /\ again \in Nat
      /\ Cardinality(Missed) <= left /\ Cardinality(Missed) \in Nat
      /\ again + Cardinality(Repeated) <= came /\ Cardinality(Repeated) \in Nat
  BY <1>1, InWalk
<1>6. OrderNow' = OrderNow /\ Single' = Single /\ Listed' = Listed
  BY <1>1, <1>5, SameListing
<1>7. /\ Cardinality(due) \in Nat /\ Cardinality(due) <= left
      /\ Cardinality(later) \in Nat
  <2>1. Missed \subseteq Rows /\ later \subseteq Rows
    BY <1>5 DEF Missed, Upto, From
  <2>2. /\ Cardinality(due) \in Nat /\ Cardinality(due) <= Cardinality(Missed)
        /\ Cardinality(later) \in Nat
    BY <1>4, <2>1, RowSubsets, RowSets
  <2>. QED
    BY <1>5, <2>2
<1>8. again' \in Nat /\ again' + Cardinality(later) <= came /\ again' <= came
  <2>. HIDE DEF got, later
  <2>. QED
    BY <1>3, <1>4, <1>5, <1>7
<1>9. /\ walk \in [pc : {"closed", "asked", "counted", "done"}, offset : Nat,
                   limit : Nat, total : 0..Cardinality(Rows)]
      /\ rank \in [Rows -> Int]
  BY DEF WalkInv, WalkTypeOK
<1>10. /\ walk' \in [pc : {"closed", "asked", "counted", "done"}, offset : Nat,
                     limit : Nat, total : 0..Cardinality(Rows)]
       /\ walk'.limit = walk.limit
       /\ walk'.pc = IF Stop(page, next) THEN "done" ELSE "asked"
       /\ walk'.pc = "asked" => walk'.offset = next
  <2>1. next \in Nat
    BY <1>5
  <2>. HIDE DEF next, page
  <2>. QED
    BY <1>3, <1>9, <2>1
<1>11. WalkTypeOK'
  <2>1. returned' \subseteq Rows
    BY <1>3, <1>4, <1>5
  <2>. HIDE DEF next, page, got
  <2>. QED
    BY <1>1, <1>8, <1>10, <2>1 DEF WalkInv, WalkTypeOK
<1>12. CASE ~ Stop(page, next)
  <2>1. walk'.pc = "asked" /\ walk'.offset = next
    BY <1>10, <1>12
  <2>2. Missed' = due /\ Repeated' = later
    BY <1>1, <1>3, <1>6, <2>1 DEF Missed, Repeated
  <2>. HIDE DEF due, later, next, page, got
  <2>. QED
    BY <1>1, <1>5, <1>6, <1>7, <1>8, <1>9, <1>10, <1>11, <2>1, <2>2
       DEF WalkInv, Walking, WalkMissesNoMore, RepeatsForArrivals
<1>13. CASE Stop(page, next)
  <2>1. walk'.pc = "done"
    BY <1>10, <1>13
  <2>. DEFINE rest == From(OrderNow, Listed, Listed \cap Single, next)
              lost == {r \in steady \ (returned \cup page) : Alone(r)}
  <2>2. Cardinality(rest) <= slipped
    BY <1>1, <1>13, StopsAtEnd
  <2>3. lost \subseteq due \cup rest
    <3>1. \A r : Place(OrderNow, Listed, r) \in Nat
      BY <1>5, PlaceType
    <3>2. next \in Nat
      BY <1>5
    <3>. SUFFICES ASSUME NEW r \in lost PROVE r \in due \/ r \in rest
      OBVIOUS
    <3>3. r \in Single /\ r \in Listed /\ r \in steady \ (returned \cup page)
      BY <1>5 DEF Single
    <3>4. Place(OrderNow, Listed, r) < next \/ Place(OrderNow, Listed, r) >= next
      BY <3>1, <3>2
    <3>. HIDE DEF next, page
    <3>. QED
      BY <3>3, <3>4 DEF Upto, From
  <2>4. due \subseteq Rows /\ rest \subseteq Rows
    BY <1>4, <1>5 DEF Missed, Upto, From
  <2>. HIDE DEF due, rest, page
  <2>5. /\ Cardinality(due \cup rest) <= Cardinality(due) + Cardinality(rest)
        /\ Cardinality(due \cup rest) \in Nat /\ Cardinality(rest) \in Nat
    <3>1. /\ IsFiniteSet(due) /\ IsFiniteSet(rest) /\ due \cap rest \subseteq Rows
          /\ due \cup rest \subseteq Rows
      BY <2>4, RowSets
    <3>2. Cardinality(due \cup rest)
            = Cardinality(due) + Cardinality(rest) - Cardinality(due \cap rest)
      BY <3>1, FS_Union
    <3>3. /\ Cardinality(due \cap rest) \in Nat /\ Cardinality(rest) \in Nat
          /\ Cardinality(due \cup rest) \in Nat
      BY <2>4, <3>1, RowSets
    <3>. QED
      BY <1>7, <3>2, <3>3
  <2>6. Cardinality(lost) <= Cardinality(due \cup rest) /\ Cardinality(lost) \in Nat
    <3>1. due \cup rest \subseteq Rows
      BY <2>4
    <3>. HIDE DEF lost
    <3>. QED
      BY <2>3, <3>1, RowSubsets
  <2>. HIDE DEF lost
  <2>7. Cardinality(lost) <= left + slipped
    BY <1>5, <1>7, <2>2, <2>5, <2>6
  <2>8. {r \in steady' \ returned' : Alone(r)'} = lost
    <3>1. \A r : Alone(r)' <=> Alone(r)
      BY <1>1 DEF Alone
    <3>. QED
      BY <1>1, <1>3, <3>1 DEF lost
  <2>9. WalkMissesNoMore'
    BY <1>1, <2>7, <2>8 DEF WalkMissesNoMore
  <2>. QED
    BY <1>1, <1>5, <1>8, <1>9, <1>10, <1>11, <2>1, <2>9
       DEF WalkInv, Walking, RepeatsForArrivals
<1>. QED
  BY <1>12, <1>13

LEMMA WalkStep == WalkInv /\ [Next]_vars => WalkInv'
<1>. SUFFICES ASSUME WalkInv, [Next]_vars PROVE WalkInv'
  OBVIOUS
<1>1. CASE BeginWalk
  <2>1. view.view \in Listings /\ Open(view.view)
    BY <1>1 DEF BeginWalk
  <2>. QED
    BY <2>1, OpenStep
<1>2. CASE ServeWalk
  <2>1. Count \/ Fetch \/ \E r \in Rows : Come(r) \/ Leave(r)
    BY <1>2 DEF ServeWalk, WalkNext
  <2>. QED
    BY <2>1, CountStep, FetchStep, ComeStep, LeaveStep
<1>3. CASE Dispatch \/ UNCHANGED vars
  <2>1. UNCHANGED walkVars
    BY <1>3 DEF Dispatch, vars
  <2>. QED
    BY <2>1 DEF walkVars, WalkInv, WalkTypeOK, Fresh, Walking, Missed, Repeated,
                OrderNow, Single, Upto, From, Place, Ahead, Precedes, Alone, Listed,
                Query, AuditLogQuery, UsersQuery, CoursesQuery, CertificatesQuery,
                WalkMissesNoMore, RepeatsForArrivals
<1>. QED
  BY <1>1, <1>2, <1>3 DEF Next

(***************************************************************************)
(* A walk through a listing (AuditLogView, users.py, analytics.py,         *)
(* certificates.py), done: of the rows that were listed all the time and   *)
(* tie with none, it missed no more than rows left the listing or came     *)
(* between a count and its page.                                           *)
(***************************************************************************)
THEOREM WalksMissNoMore == Spec => []WalkMissesNoMore
<1>1. Init => WalkInv
  BY WalkInitial DEF Init
<1>2. WalkInv => WalkMissesNoMore
  BY DEF WalkInv
<1>. QED
  BY <1>1, <1>2, WalkStep, PTL DEF Spec

(***************************************************************************)
(* A walk gets no more rows a second time than rows came into view.        *)
(***************************************************************************)
THEOREM RepeatsNeedArrivals == Spec => []RepeatsForArrivals
<1>1. Init => WalkInv
  BY WalkInitial DEF Init
<1>2. WalkInv => RepeatsForArrivals
  BY DEF WalkInv
<1>. QED
  BY <1>1, <1>2, WalkStep, PTL DEF Spec

-----------------------------------------------------------------------------
(* Routing: what the URL of a route is, segment by segment, that its own   *)
(* pattern matches it and captures the arguments it was made of, and that  *)
(* the patterns before it do not.                                          *)

Segments(S) == Seq(S)

\* What FlattenSeq joins up to one of its pieces, and its recursion.
Join(s, g, i) == IF i = 1 THEN s[i] ELSE g[i-1] \o s[i]

LEMMA FlattenIs ==
    ASSUME NEW s, Len(s) \in Nat \ {0},
           NEW h, h = [i \in 1..Len(s) |-> Join(s, h, i)]
    PROVE  \E g : /\ g = [i \in 1..Len(s) |-> Join(s, g, i)]
                  /\ FlattenSeq(s) = g[Len(s)]
<1>. DEFINE g == CHOOSE f : f = [i \in 1..Len(s) |-> IF i = 1 THEN s[i] ELSE f[i-1] \o s[i]]
<1>1. h = [i \in 1..Len(s) |-> IF i = 1 THEN s[i] ELSE h[i-1] \o s[i]]
  BY DEF Join
<1>2. g = [i \in 1..Len(s) |-> IF i = 1 THEN s[i] ELSE g[i-1] \o s[i]]
  BY <1>1
<1>3. FlattenSeq(s) = g[Len(s)]
  <2>1. Len(s) # 0
    OBVIOUS
  <2>. QED
    BY <2>1, Zenon DEF FlattenSeq
<1>. QED
  BY <1>2, <1>3 DEF Join

Cat(s, t) == s \o t

FirstTwo(s)   == Cat(s[1], s[2])
FirstThree(s) == Cat(FirstTwo(s), s[3])
FirstFour(s)  == Cat(FirstThree(s), s[4])

\* The pieces a URL is made of, at most four, one behind the other.
LEMMA FlattenFew ==
    ASSUME NEW s, NEW n \in 1..4, Len(s) = n
    PROVE  FlattenSeq(s) = IF n = 1 THEN s[1] ELSE IF n = 2 THEN FirstTwo(s)
                           ELSE IF n = 3 THEN FirstThree(s) ELSE FirstFour(s)
<1>. DEFINE upto(i) == IF i = 1 THEN s[1] ELSE IF i = 2 THEN FirstTwo(s)
                       ELSE IF i = 3 THEN FirstThree(s) ELSE FirstFour(s)
            h == [i \in 1..n |-> upto(i)]
<1>1. \A i \in 1..n : i \in {1, 2, 3, 4} /\ (i # 1 => i - 1 \in 1..n /\ i - 1 \in {1, 2, 3})
  OBVIOUS
<1>2. upto(1) = s[1] /\ upto(2) = Cat(upto(1), s[2]) /\ upto(3) = Cat(upto(2), s[3])
      /\ upto(4) = Cat(upto(3), s[4])
  BY DEF FirstTwo, FirstThree, FirstFour
<1>3. \A i \in 1..n : h[i] = upto(i)
  OBVIOUS
<1>. HIDE DEF h, upto
<1>4. \A i \in 1..n : h[i] = IF i = 1 THEN s[i] ELSE Cat(h[i-1], s[i])
  <2>. SUFFICES ASSUME NEW i \in 1..n
                PROVE  h[i] = IF i = 1 THEN s[i] ELSE Cat(h[i-1], s[i])
    OBVIOUS
  <2>1. CASE i = 1
    BY <1>2, <1>3, <2>1
  <2>2. CASE i # 1
    <3>1. h[i - 1] = upto(i - 1) /\ h[i] = upto(i)
      BY <1>1, <1>3, <2>2
    <3>2. upto(i) = Cat(upto(i - 1), s[i])
      <4>1. CASE i = 2
        BY <1>2, <4>1
      <4>2. CASE i = 3
        BY <1>2, <4>2
      <4>3. CASE i = 4
        BY <1>2, <4>3
      <4>. QED
        BY <1>1, <2>2, <4>1, <4>2, <4>3
    <3>. QED
      BY <2>2, <3>1, <3>2
  <2>. QED
    BY <2>1, <2>2
<1>5. h = [i \in 1..n |-> Join(s, h, i)]
  <2>1. \A i \in 1..n : h[i] = Join(s, h, i)
    BY <1>4 DEF Join, Cat
  <2>2. h = [i \in 1..n |-> h[i]]
    BY DEF h
  <2>. QED
    BY <2>1, <2>2
<1>6. PICK g : /\ g = [i \in 1..n |-> Join(s, g, i)]
               /\ FlattenSeq(s) = g[n]
  BY <1>5, FlattenIs
<1>7. \A i \in 1..n : g[i] = IF i = 1 THEN s[i] ELSE Cat(g[i-1], s[i])
  BY <1>6 DEF Join, Cat
<1>8. \A i \in 1..n : g[i] = upto(i)
  <2>1. g[1] = upto(1)
    <3>1. 1 \in 1..n
      OBVIOUS
    <3>. QED
      BY <1>2, <1>7, <3>1
  <2>2. ASSUME 2 \in 1..n PROVE g[2] = upto(2)
    BY <1>2, <1>7, <2>1, <2>2
  <2>3. ASSUME 3 \in 1..n PROVE g[3] = upto(3)
    <3>1. 2 \in 1..n
      BY <2>3
    <3>. QED
      BY <1>2, <1>7, <2>2, <2>3, <3>1
  <2>4. ASSUME 4 \in 1..n PROVE g[4] = upto(4)
    <3>1. 3 \in 1..n
      BY <2>4
    <3>. QED
      BY <1>2, <1>7, <2>3, <2>4, <3>1
  <2>. QED
    BY <1>1, <2>1, <2>2, <2>3, <2>4
<1>9. n \in 1..n /\ FlattenSeq(s) = upto(n)
  BY <1>6, <1>8
<1>. QED
  BY <1>9 DEF upto

\* A URL has a piece behind some of its segments.
HasAt(url, from, piece) == /\ from + Len(piece) <= Len(url)
                           /\ \A k \in 1..Len(piece) : url[from + k] = piece[k]

LEMMA CatIs ==
    ASSUME NEW S, NEW s \in Segments(S), NEW t \in Segments(S)
    PROVE  /\ Cat(s, t) \in Segments(S) /\ Len(Cat(s, t)) = Len(s) + Len(t)
           /\ Len(s) \in Nat /\ Len(t) \in Nat
           /\ HasAt(Cat(s, t), Len(s), t)
           /\ \A k \in 1..Len(s) : Cat(s, t)[k] = s[k]
<1>1. /\ Cat(s, t) \in Segments(S) /\ Len(Cat(s, t)) = Len(s) + Len(t)
      /\ Len(s) \in Nat /\ Len(t) \in Nat
  BY DEF Cat, Segments
<1>2. \A k \in 1..Len(s) : Cat(s, t)[k] = s[k]
  BY DEF Cat, Segments
<1>3. \A k \in 1..Len(t) : Cat(s, t)[Len(s) + k] = t[k]
  BY DEF Cat, Segments
<1>. QED
  BY <1>1, <1>2, <1>3 DEF HasAt

LEMMA HasAtCat ==
    ASSUME NEW S, NEW s \in Segments(S), NEW t \in Segments(S), NEW from \in Nat,
           NEW piece \in Segments(S), HasAt(s, from, piece)
    PROVE  HasAt(Cat(s, t), from, piece)
<1>. DEFINE u == Cat(s, t)
            m == Len(piece)
            n == Len(s)
<1>1. /\ Len(u) = n + Len(t) /\ n \in Nat /\ Len(t) \in Nat
      /\ \A k \in 1..n : u[k] = s[k]
  BY CatIs
<1>2. m \in Nat
  BY DEF Segments
<1>3. from + m <= n /\ \A k \in 1..m : s[from + k] = piece[k]
  BY DEF HasAt
<1>. HIDE DEF u, m, n
<1>4. from + m <= Len(u)
  BY <1>1, <1>2, <1>3
<1>5. \A k \in 1..m : u[from + k] = piece[k]
  <2>. SUFFICES ASSUME NEW k \in 1..m PROVE u[from + k] = piece[k]
    OBVIOUS
  <2>1. from + k \in 1..n
    BY <1>1, <1>2, <1>3
  <2>. QED
    BY <1>1, <1>3, <2>1
<1>. QED
  BY <1>4, <1>5 DEF HasAt, u, m

\* Where a piece begins.
Start(q, i) == IF i = 1 THEN 0
               ELSE IF i = 2 THEN Len(q[1])
               ELSE IF i = 3 THEN Len(q[1]) + Len(q[2])
               ELSE Len(q[1]) + Len(q[2]) + Len(q[3])

LEMMA PiecesInUrl ==
    ASSUME NEW S, NEW n \in 1..4, NEW q \in [1..n -> Segments(S)]
    PROVE  /\ FlattenSeq(q) \in Segments(S)
           /\ Len(FlattenSeq(q)) = Start(q, n) + Len(q[n])
           /\ \A i \in 1..n : HasAt(FlattenSeq(q), Start(q, i), q[i])
<1>. DEFINE url == FlattenSeq(q)
<1>1. Len(q) = n
  <2>1. q \in Seq(Segments(S))
    OBVIOUS
  <2>. QED
    OBVIOUS
<1>2. url = IF n = 1 THEN q[1] ELSE IF n = 2 THEN FirstTwo(q)
            ELSE IF n = 3 THEN FirstThree(q) ELSE FirstFour(q)
  BY <1>1, FlattenFew
<1>. HIDE DEF url
<1>. DEFINE a == q[1]
            b == q[2]
            c == q[3]
            d == q[4]
            ab == FirstTwo(q)
            abc == FirstThree(q)
            abcd == FirstFour(q)
<1>3. /\ a \in Segments(S)
      /\ n # 1 => b \in Segments(S)
      /\ n \notin {1, 2} => c \in Segments(S)
      /\ n = 4 => d \in Segments(S)
  OBVIOUS
<1>4. /\ ab = Cat(a, b) /\ abc = Cat(ab, c) /\ abcd = Cat(abc, d)
      /\ Start(q, 1) = 0 /\ Start(q, 2) = Len(a) /\ Start(q, 3) = Len(a) + Len(b)
      /\ Start(q, 4) = Len(a) + Len(b) + Len(c)
  BY DEF FirstTwo, FirstThree, FirstFour, Start
<1>5. \A i \in 1..n : i \in {1, 2, 3, 4} /\ (n = 1 => i = 1) /\ (n = 2 => i \in {1, 2})
                      /\ (n = 3 => i \in {1, 2, 3})
  OBVIOUS
<1>6. HasAt(a, 0, a) /\ Len(a) \in Nat
  <2>1. a \in Seq(S)
    BY <1>3 DEF Segments
  <2>. HIDE DEF a
  <2>. QED
    BY <2>1 DEF HasAt
<1>7. q[1] = a /\ q[2] = b /\ q[3] = c /\ q[4] = d
  OBVIOUS
<1>. HIDE DEF a, b, c, d, ab, abc, abcd
<1>8. ASSUME n # 1
      PROVE  /\ ab \in Segments(S) /\ Len(ab) = Len(a) + Len(b) /\ Len(b) \in Nat
             /\ HasAt(ab, 0, a) /\ HasAt(ab, Len(a), b)
  <2>1. b \in Segments(S)
    BY <1>3, <1>8
  <2>2. HasAt(ab, 0, a)
    BY <1>3, <1>4, <1>6, <2>1, HasAtCat
  <2>. QED
    BY <1>3, <1>4, <2>1, <2>2, CatIs
<1>9. ASSUME n \notin {1, 2}
      PROVE  /\ abc \in Segments(S) /\ Len(abc) = Len(a) + Len(b) + Len(c) /\ Len(c) \in Nat
             /\ HasAt(abc, 0, a) /\ HasAt(abc, Len(a), b)
             /\ HasAt(abc, Len(a) + Len(b), c)
  <2>1. /\ c \in Segments(S) /\ b \in Segments(S) /\ ab \in Segments(S)
        /\ Len(ab) = Len(a) + Len(b) /\ Len(b) \in Nat
        /\ HasAt(ab, 0, a) /\ HasAt(ab, Len(a), b)
    BY <1>3, <1>8, <1>9
  <2>2. HasAt(abc, 0, a) /\ HasAt(abc, Len(a), b)
    BY <1>3, <1>4, <1>6, <2>1, HasAtCat
  <2>3. /\ abc \in Segments(S) /\ Len(abc) = Len(ab) + Len(c) /\ Len(c) \in Nat
        /\ HasAt(abc, Len(ab), c)
    BY <1>4, <2>1, CatIs
  <2>. QED
    BY <2>1, <2>2, <2>3
<1>10. ASSUME n = 4
       PROVE  /\ abcd \in Segments(S) /\ Len(abcd) = Len(a) + Len(b) + Len(c) + Len(d)
              /\ HasAt(abcd, 0, a) /\ HasAt(abcd, Len(a), b)
              /\ HasAt(abcd, Len(a) + Len(b), c)
              /\ HasAt(abcd, Len(a) + Len(b) + Len(c), d)
  <2>1. /\ d \in Segments(S) /\ c \in Segments(S) /\ b \in Segments(S) /\ abc \in Segments(S)
        /\ Len(abc) = Len(a) + Len(b) + Len(c) /\ Len(b) \in Nat /\ Len(c) \in Nat
        /\ HasAt(abc, 0, a) /\ HasAt(abc, Len(a), b) /\ HasAt(abc, Len(a) + Len(b), c)
        /\ Len(a) + Len(b) \in Nat
    BY <1>3, <1>6, <1>8, <1>9, <1>10
  <2>2. /\ HasAt(abcd, 0, a) /\ HasAt(abcd, Len(a), b)
        /\ HasAt(abcd, Len(a) + Len(b), c)
    BY <1>3, <1>4, <1>6, <2>1, HasAtCat
  <2>3. /\ abcd \in Segments(S) /\ Len(abcd) = Len(abc) + Len(d)
        /\ HasAt(abcd, Len(abc), d)
    BY <1>4, <2>1, CatIs
  <2>. QED
    BY <2>1, <2>2, <2>3
<1>11. CASE n = 1
  BY <1>2, <1>3, <1>4, <1>5, <1>6, <1>7, <1>11 DEF url
<1>12. CASE n = 2
  <2>1. url = ab
    BY <1>2, <1>12 DEF ab
  <2>. QED
    BY <1>4, <1>5, <1>7, <1>8, <1>12, <2>1 DEF url
<1>13. CASE n = 3
  <2>1. url = abc
    BY <1>2, <1>13 DEF abc
  <2>. QED
    BY <1>4, <1>5, <1>7, <1>9, <1>13, <2>1 DEF url
<1>14. CASE n = 4
  <2>1. url = abcd
    BY <1>2, <1>14 DEF abcd
  <2>. QED
    BY <1>4, <1>5, <1>7, <1>10, <1>14, <2>1 DEF url
<1>. QED
  BY <1>11, <1>12, <1>13, <1>14

IsPattern(p) == /\ Len(p) \in 1..4 /\ DOMAIN p = 1..Len(p)
                /\ \A i, j \in PathAt(p) : i = j

Texts(p) == STRING \cup {p[i] : i \in DOMAIN p}

Piece(p, args, i) == IF i \in Converters(p) THEN args[i] ELSE <<p[i]>>

LEMMA OneSegment == ASSUME NEW S, NEW u \in S PROVE <<u>> \in Seq(S)
OBVIOUS

LEMMA SeqGrows == ASSUME NEW S, NEW T, S \subseteq T, NEW s \in Seq(S) PROVE s \in Seq(T)
<1>1. s \in [1..Len(s) -> T] /\ Len(s) \in Nat
  OBVIOUS
<1>. QED
  BY <1>1, SeqDef

LEMMA PieceIs ==
    ASSUME NEW p, IsPattern(p), NEW args \in Arguments(p), NEW i \in 1..Len(p)
    PROVE  /\ Piece(p, args, i) \in Segments(Texts(p))
           /\ Len(Piece(p, args, i)) \in Nat \ {0}
           /\ i \notin PathAt(p) => Len(Piece(p, args, i)) = 1
<1>1. p[i] \in Texts(p) /\ DOMAIN p = 1..Len(p)
  BY DEF IsPattern, Texts
<1>2. CASE i \in Converters(p)
  <2>1. /\ args[i] \in CourseIds \cup {<<u>> : u \in Usernames}
        /\ IF i \in PathAt(p) THEN args[i] \in CourseIds ELSE Len(args[i]) = 1
    BY <1>2 DEF Arguments
  <2>2. args[i] \in Seq(Texts(p))
    <3>1. STRING \subseteq Texts(p)
      BY DEF Texts
    <3>2. CASE args[i] \in CourseIds
      <4>1. args[i] \in Seq(STRING)
        BY <3>2, FacadeAssumption
      <4>. QED
        BY <3>1, <4>1, SeqGrows
    <3>3. CASE \E u \in Usernames : args[i] = <<u>>
      <4>1. PICK u \in Usernames : args[i] = <<u>>
        BY <3>3
      <4>2. u \in Texts(p)
        BY <3>1, FacadeAssumption
      <4>3. <<u>> \in Seq(Texts(p))
        BY <4>2, OneSegment
      <4>. QED
        BY ONLY <4>1, <4>3
    <3>. QED
      BY <2>1, <3>2, <3>3
  <2>3. Piece(p, args, i) = args[i]
    BY <1>2 DEF Piece
  <2>4. Len(args[i]) \in Nat \ {0}
    <3>1. CASE i \in PathAt(p)
      BY <2>1, <3>1, FacadeAssumption
    <3>2. CASE i \notin PathAt(p)
      BY <2>1, <3>2
    <3>. QED
      BY <3>1, <3>2
  <2>. QED
    BY <2>1, <2>2, <2>3, <2>4 DEF Segments
<1>3. CASE i \notin Converters(p)
  <2>1. Piece(p, args, i) = <<p[i]>>
    BY <1>3 DEF Piece
  <2>2. <<p[i]>> \in Seq(Texts(p)) /\ Len(<<p[i]>>) = 1
    BY <1>1
  <2>. QED
    BY <2>1, <2>2 DEF Segments
<1>. QED
  BY <1>2, <1>3

\* The length of a URL, and where the segments of a pattern are in it.
LEMMA UrlIs ==
    ASSUME NEW route, IsPattern(route.pattern), NEW args \in Arguments(route.pattern)
    PROVE  LET p == route.pattern
               url == UrlOf(route, args)
               extra == Len(url) - Len(p) IN
           /\ url \in Segments(Texts(p)) /\ extra \in Nat
           /\ PathAt(p) = {} => extra = 0
           /\ \A m \in PathAt(p) : Len(args[m]) = extra + 1
           /\ \A i \in 1..Len(p) :
                 HasAt(url, IF \E j \in PathAt(p) : j < i THEN i - 1 + extra ELSE i - 1,
                       Piece(p, args, i))
<1>. DEFINE p == route.pattern
            n == Len(p)
            q == [i \in 1..n |-> Piece(p, args, i)]
            url == UrlOf(route, args)
            extra == Len(url) - n
<1>1. n \in 1..4 /\ DOMAIN p = 1..n
      /\ \A i, j \in PathAt(p) : i = j
  BY DEF IsPattern
<1>2. \A i \in 1..n : /\ q[i] = Piece(p, args, i) /\ q[i] \in Segments(Texts(p)) /\ Len(q[i]) \in Nat \ {0}
                      /\ i \notin PathAt(p) => Len(q[i]) = 1
  BY PieceIs
<1>3. url = FlattenSeq(q)
  <2>1. DOMAIN args = Converters(p)
    BY DEF Arguments
  <2>2. q = [i \in DOMAIN p |-> IF i \in DOMAIN args THEN args[i] ELSE <<p[i]>>]
    BY <1>1, <2>1 DEF Piece
  <2>. HIDE DEF q
  <2>. QED
    BY <2>2 DEF UrlOf
<1>4. q \in [1..n -> Segments(Texts(p))]
  BY <1>2
<1>5. \A m \in PathAt(p) : m \in 1..n /\ q[m] = args[m]
  BY <1>1, <1>2 DEF PathAt, Converters, Piece
<1>. HIDE DEF q, url, p
<1>6. /\ url \in Segments(Texts(p)) /\ Len(url) = Start(q, n) + Len(q[n])
      /\ \A i \in 1..n : HasAt(url, Start(q, i), q[i])
  <2>. HIDE DEF n
  <2>. QED
    BY <1>1, <1>3, <1>4, PiecesInUrl
<1>. HIDE DEF n
<1>. DEFINE before(i) == \E j \in PathAt(p) : j < i
<1>. DEFINE len(i) == Len(q[i])
<1>7. \A i \in 1..n : i \in {1, 2, 3, 4}
  BY <1>1
<1>. HIDE DEF len
<1>10. \A i : Start(q, i) = IF i = 1 THEN 0 ELSE IF i = 2 THEN len(1)
                            ELSE IF i = 3 THEN len(1) + len(2)
                            ELSE len(1) + len(2) + len(3)
  BY DEF Start, len
<1>8. CASE PathAt(p) = {}
  <2>1. \A i \in 1..n : len(i) = 1
    BY <1>2, <1>8 DEF len
  <2>2. \A i \in 1..n : Start(q, i) = i - 1
    BY <1>1, <1>7, <1>10, <2>1
  <2>3. Len(url) = n
    <3>1. Len(url) = Start(q, n) + len(n)
      BY <1>6 DEF len
    <3>. QED
      BY <1>1, <2>1, <2>2, <3>1
  <2>4. \A i \in 1..n : ~ before(i)
    BY <1>8
  <2>. QED
    BY <1>1, <1>2, <1>6, <1>8, <2>2, <2>3, <2>4 DEF p, n, url
<1>9. CASE PathAt(p) # {}
  <2>1. PICK m \in PathAt(p) : TRUE
    BY <1>9
  <2>2. /\ PathAt(p) = {m} /\ m \in 1..n /\ q[m] = args[m] /\ Len(q[m]) \in Nat \ {0}
        /\ \A i \in 1..n : i # m => Len(q[i]) = 1
    BY <1>1, <1>2, <1>5, <2>1
  <2>9. m \in 1..n /\ len(m) \in Nat /\ \A i \in 1..n : i # m => len(i) = 1
    BY <2>2 DEF len
  <2>10. \A i \in 1..n : Start(q, i) = IF m < i THEN i - 2 + len(m) ELSE i - 1
    BY <1>1, <1>7, <1>10, <2>9
  <2>3. \A i \in 1..n : Start(q, i) = IF m < i THEN i - 2 + Len(q[m]) ELSE i - 1
    BY <2>10 DEF len
  <2>4. Len(url) = n - 1 + Len(q[m])
    <3>1. Len(url) = Start(q, n) + len(n)
      BY <1>6 DEF len
    <3>2. Len(url) = n - 1 + len(m)
      BY <1>1, <2>9, <2>10, <3>1
    <3>. QED
      BY <3>2 DEF len
  <2>5. \A i \in 1..n : before(i) <=> m < i
    BY <2>2
  <2>6. extra \in Nat /\ Len(args[m]) = extra + 1
    BY <1>1, <2>2, <2>4
  <2>7. \A i \in 1..n : Start(q, i) = IF before(i) THEN i - 1 + extra ELSE i - 1
    BY <1>1, <2>2, <2>3, <2>4, <2>5
  <2>. HIDE DEF extra, before
  <2>8. \A i \in 1..n : HasAt(url, IF before(i) THEN i - 1 + extra ELSE i - 1,
                              Piece(p, args, i))
    BY <1>2, <1>6, <2>7
  <2>. QED
    BY <1>6, <1>9, <2>2, <2>6, <2>8 DEF p, n, url, extra, before
<1>. QED
  BY <1>8, <1>9

LEMMA PieceInUrl ==
    ASSUME NEW S, NEW url \in Seq(S), NEW piece \in Seq(S), NEW from \in Nat,
           Len(piece) # 0, HasAt(url, from, piece)
    PROVE  SubSeq(url, from + 1, from + Len(piece)) = piece
<1>. DEFINE n == Len(piece)
            cut == SubSeq(url, from + 1, from + n)
<1>1. n \in Nat \ {0} /\ from + n <= Len(url) /\ \A k \in 1..n : url[from + k] = piece[k]
  BY DEF HasAt
<1>2. cut \in Seq(S) /\ Len(cut) = n
  BY <1>1
<1>3. \A k \in 1..n : cut[k] = url[from + k]
  BY <1>1
<1>. HIDE DEF n, cut
<1>4. \A k \in 1..n : cut[k] = piece[k]
  BY <1>1, <1>3
<1>5. cut \in Seq(S) /\ piece \in Seq(S) /\ Len(cut) = Len(piece)
      /\ \A k \in 1..Len(cut) : cut[k] = piece[k]
  BY <1>2, <1>4 DEF n
<1>6. cut = piece
  BY <1>5, SeqEqual
<1>. QED
  BY <1>6 DEF cut, n

\* What the segments of a pattern stand for in its own URL.
LEMMA OwnParts ==
    ASSUME NEW route, IsPattern(route.pattern), NEW args \in Arguments(route.pattern),
           NEW i \in 1..Len(route.pattern)
    PROVE  Part(route.pattern, UrlOf(route, args), i) = Piece(route.pattern, args, i)
<1>. DEFINE p == route.pattern
            url == UrlOf(route, args)
            extra == Len(url) - Len(p)
            piece == Piece(p, args, i)
            before == \E j \in PathAt(p) : j < i
<1>1. /\ url \in Seq(Texts(p)) /\ extra \in Nat
      /\ PathAt(p) = {} => extra = 0
      /\ \A m \in PathAt(p) : Len(args[m]) = extra + 1
      /\ HasAt(url, IF before THEN i - 1 + extra ELSE i - 1, piece)
  BY UrlIs DEF Segments
<1>2. /\ piece \in Seq(Texts(p)) /\ Len(piece) \in Nat \ {0}
      /\ i \notin PathAt(p) => Len(piece) = 1
  BY PieceIs DEF Segments
<1>3. i \in Nat \ {0} /\ \A j, k \in PathAt(p) : j = k
  BY DEF IsPattern
<1>4. i \in PathAt(p) => piece = args[i] /\ ~ before
  <2>1. \A j \in PathAt(p) : j \in Nat
    BY DEF IsPattern, PathAt
  <2>2. i \in PathAt(p) => i \in Converters(p)
    BY DEF PathAt, Converters
  <2>. QED
    BY <1>3, <2>1, <2>2 DEF Piece
<1>5. Part(p, url, i) = IF before THEN <<url[i + extra]>>
                        ELSE SubSeq(url, i, IF i \in PathAt(p) THEN i + extra ELSE i)
  BY DEF Part
<1>. HIDE DEF p, url, extra, piece, before
<1>6. CASE before
  <2>1. Len(piece) = 1 /\ HasAt(url, i - 1 + extra, piece)
    BY <1>1, <1>2, <1>4, <1>6
  <2>2. url[(i - 1 + extra) + 1] = piece[1]
    BY <2>1 DEF HasAt
  <2>3. (i - 1 + extra) + 1 = i + extra
    BY <1>1, <1>3
  <2>4. piece = <<piece[1]>>
    BY <1>2, <2>1
  <2>5. Part(p, url, i) = <<piece[1]>>
    BY <1>5, <1>6, <2>2, <2>3
  <2>. QED
    BY <2>4, <2>5 DEF p, url, piece
<1>7. CASE ~ before
  <2>1. HasAt(url, i - 1, piece) /\ i - 1 \in Nat
    BY <1>1, <1>3, <1>7
  <2>2. SubSeq(url, (i - 1) + 1, (i - 1) + Len(piece)) = piece
    BY <1>1, <1>2, <2>1, PieceInUrl
  <2>3. (i - 1) + 1 = i
    BY <1>3
  <2>4. (i - 1) + Len(piece) = IF i \in PathAt(p) THEN i + extra ELSE i
    <3>1. CASE i \in PathAt(p)
      <4>1. Len(piece) = extra + 1
        BY <1>1, <1>4, <3>1
      <4>2. extra \in Nat /\ i \in Nat
        BY <1>1, <1>3
      <4>. HIDE DEF before
      <4>. QED
        BY ONLY <3>1, <4>1, <4>2
    <3>2. CASE i \notin PathAt(p)
      <4>1. Len(piece) = 1 /\ i \in Nat
        BY <1>2, <1>3, <3>2
      <4>. QED
        BY ONLY <3>2, <4>1
    <3>. QED
      BY <3>1, <3>2
  <2>. QED
    BY <1>5, <1>7, <2>2, <2>3, <2>4 DEF p, url, piece
<1>. QED
  BY <1>6, <1>7

LEMMA OwnMatch ==
    ASSUME NEW route, IsPattern(route.pattern), NEW args \in Arguments(route.pattern)
    PROVE  LET p == route.pattern
               url == UrlOf(route, args) IN
           /\ Matches(p, url)
           /\ [i \in Converters(p) |-> Part(p, url, i)] = args
<1>. DEFINE p == route.pattern
            url == UrlOf(route, args)
<1>1. \A i \in DOMAIN p : Part(p, url, i) = Piece(p, args, i)
  BY OwnParts DEF IsPattern
<1>2. Len(url) - Len(p) \in Nat /\ (PathAt(p) = {} => Len(url) - Len(p) = 0)
      /\ Len(p) \in Nat /\ Len(url) \in Nat
  <2>1. url \in Seq(Texts(p))
    BY UrlIs DEF Segments
  <2>2. Len(url) \in Nat
    BY <2>1
  <2>3. Len(p) \in Nat
    BY DEF IsPattern
  <2>4. Len(url) - Len(p) \in Nat /\ (PathAt(p) = {} => Len(url) - Len(p) = 0)
    BY UrlIs
  <2>. QED
    BY <2>2, <2>3, <2>4
<1>3. args = [i \in Converters(p) |-> args[i]]
  <2>1. args \in [Converters(p) -> CourseIds \cup {<<u>> : u \in Usernames}]
    BY DEF Arguments
  <2>. HIDE DEF p
  <2>. QED
    BY <2>1
<1>4. \A i \in Converters(p) : i \in DOMAIN p
  BY DEF Converters
<1>. HIDE DEF url
<1>5. Matches(p, url)
  <2>1. \A i \in DOMAIN p \ Converters(p) : Part(p, url, i) = <<p[i]>>
    BY <1>1 DEF Piece
  <2>. HIDE DEF p
  <2>. QED
    BY <1>2, <2>1 DEF Matches
<1>6. \A i \in Converters(p) : Part(p, url, i) = args[i]
  BY <1>1, <1>4 DEF Piece
<1>7. [i \in Converters(p) |-> Part(p, url, i)] = args
  BY <1>3, <1>6
<1>. QED
  BY <1>5, <1>7 DEF url

\* No URL of p is one that q matches: there is a segment that cannot be both,
\* or a length.
Word(p, i) == i \in 1..Len(p) /\ p[i] \notin {Str, Path}

SameSpot(q, p, i) == \/ /\ \A j \in PathAt(q) : ~ j < i
                        /\ \A j \in PathAt(p) : ~ j < i
                     \/ /\ Len(q) = Len(p)
                        /\ \E j \in PathAt(q) : j < i
                        /\ \E j \in PathAt(p) : j < i

OtherWord(q, p) == \E i \in 1..3 : /\ Word(q, i) /\ Word(p, i) /\ SameSpot(q, p, i)
                                   /\ q[i] # p[i]

TooShort(q, p) == PathAt(q) = {} /\ Len(q) < Len(p)

TooLong(q, p) == PathAt(p) = {} /\ Len(q) > Len(p)

Apart(q, p) == OtherWord(q, p) \/ TooShort(q, p) \/ TooLong(q, p)

LEMMA ApartNoMatch ==
    ASSUME NEW route, IsPattern(route.pattern), NEW args \in Arguments(route.pattern),
           NEW q, IsPattern(q), Apart(q, route.pattern)
    PROVE  ~ Matches(q, UrlOf(route, args))
<1>. DEFINE p == route.pattern
            url == UrlOf(route, args)
<1>. SUFFICES ASSUME Matches(q, url) PROVE FALSE
  OBVIOUS
<1>1. /\ Matches(p, url) /\ Len(url) \in Nat /\ Len(url) - Len(p) \in Nat
      /\ PathAt(p) = {} => Len(url) - Len(p) = 0
  <2>1. url \in Seq(Texts(p))
    BY UrlIs DEF Segments
  <2>2. Len(url) \in Nat
    BY <2>1
  <2>. QED
    BY <2>2, UrlIs, OwnMatch
<1>2. Len(p) \in Nat /\ Len(q) \in Nat /\ DOMAIN p = 1..Len(p) /\ DOMAIN q = 1..Len(q)
  BY DEF IsPattern
<1>. HIDE DEF p, url
<1>3. CASE TooShort(q, p) \/ TooLong(q, p)
  <2>1. IF PathAt(q) = {} THEN Len(url) = Len(q) ELSE Len(url) >= Len(q)
    BY DEF Matches
  <2>. QED
    BY <1>1, <1>2, <1>3, <2>1 DEF TooShort, TooLong
<1>4. CASE OtherWord(q, p)
  <2>1. PICK i \in 1..3 : Word(q, i) /\ Word(p, i) /\ SameSpot(q, p, i) /\ q[i] # p[i]
    BY <1>4 DEF OtherWord
  <2>2. /\ i \in DOMAIN p \ Converters(p) /\ i \in DOMAIN q \ Converters(q)
        /\ i \notin PathAt(p) /\ i \notin PathAt(q)
    BY <1>2, <2>1 DEF Word, Converters, PathAt
  <2>3. Part(p, url, i) = <<p[i]>> /\ Part(q, url, i) = <<q[i]>>
    BY <1>1, <2>2 DEF Matches
  <2>4. Part(p, url, i) = Part(q, url, i)
    BY <2>1, <2>2 DEF Part, SameSpot
  <2>5. <<p[i]>>[1] = <<q[i]>>[1]
    BY <2>3, <2>4
  <2>. QED
    BY <2>1, <2>5
<1>. QED
  BY <1>3, <1>4 DEF Apart, p

LEMMA OtherFirst ==
    ASSUME NEW q, NEW p, IsPattern(q), IsPattern(p), Word(q, 1), Word(p, 1), q[1] # p[1]
    PROVE  Apart(q, p)
<1>1. (\A j \in PathAt(q) : ~ j < 1) /\ (\A j \in PathAt(p) : ~ j < 1)
  BY DEF IsPattern, PathAt
<1>2. SameSpot(q, p, 1)
  BY <1>1 DEF SameSpot
<1>. QED
  BY <1>2 DEF Apart, OtherWord

LEMMA OtherSecond ==
    ASSUME NEW q, NEW p, IsPattern(q), IsPattern(p), Word(q, 1), Word(p, 1),
           Word(q, 2), Word(p, 2), q[2] # p[2]
    PROVE  Apart(q, p)
<1>1. ASSUME NEW r, IsPattern(r), Word(r, 1)
      PROVE  \A j \in PathAt(r) : ~ j < 2
  <2>1. \A j \in PathAt(r) : j \in Nat \ {0} /\ r[j] = Path
    BY <1>1 DEF IsPattern, PathAt
  <2>. QED
    BY <1>1, <2>1 DEF Word
<1>2. (\A j \in PathAt(q) : ~ j < 2) /\ (\A j \in PathAt(p) : ~ j < 2)
  BY <1>1
<1>3. SameSpot(q, p, 2)
  BY <1>2 DEF SameSpot
<1>. QED
  BY <1>3 DEF Apart, OtherWord

\* The first route that matches is the one the URL was made for.
LEMMA FirstHit ==
    ASSUME NEW routes, NEW n \in Nat, DOMAIN routes = 1..n, NEW j \in 1..n,
           IsPattern(routes[j].pattern), NEW args \in Arguments(routes[j].pattern),
           \A i \in 1..(j-1) : ~ Matches(routes[i].pattern, UrlOf(routes[j], args))
    PROVE  Resolve(routes, UrlOf(routes[j], args))
             = [view |-> routes[j].view, args |-> args, writes |-> routes[j].writes]
<1>. DEFINE url == UrlOf(routes[j], args)
            hits == {i \in DOMAIN routes : Matches(routes[i].pattern, url)}
<1>1. j \in hits /\ [i \in Converters(routes[j].pattern) |-> Part(routes[j].pattern, url, i)]
                      = args
  BY OwnMatch
<1>2. \A i \in hits : i \in 1..n /\ j <= i
  <2>. SUFFICES ASSUME NEW i \in hits PROVE i \in 1..n /\ j <= i
    OBVIOUS
  <2>1. i \in 1..n /\ Matches(routes[i].pattern, url)
    OBVIOUS
  <2>2. i \notin 1..(j-1)
    BY <2>1
  <2>. HIDE DEF hits, url
  <2>. QED
    BY <2>1, <2>2
<1>. HIDE DEF hits
<1>3. Min(hits) = j
  <2>1. j \in hits /\ \A i \in hits : j <= i
    BY <1>1, <1>2
  <2>2. \A k \in hits : (\A i \in hits : k <= i) => k = j
    BY <1>1, <1>2
  <2>3. Min(hits) = CHOOSE k \in hits : \A i \in hits : k <= i
    BY DEF Min
  <2>. QED
    BY <2>1, <2>2, <2>3
<1>4. hits # {}
  BY <1>1
<1>. QED
  BY <1>1, <1>3, <1>4 DEF Resolve, hits

\* A pattern that begins with the word w, and goes on with the word v.
Known(p, w) == IsPattern(p) /\ Word(p, 1) /\ p[1] = w
Second(p, v) == Word(p, 2) /\ p[2] = v

LEMMA Shapes ==
    ASSUME NEW a, a \notin {Str, Path}, NEW b, NEW c, NEW d
    PROVE  /\ Known(<<a>>, a)
           /\ Known(<<a, b>>, a)
           /\ b # Path \/ c # Path => Known(<<a, b, c>>, a)
           /\ Path \notin {b, c} => Known(<<a, b, c, d>>, a)
<1>1. Known(<<a>>, a)
  BY DEF Known, IsPattern, Word, PathAt
<1>2. Known(<<a, b>>, a)
  BY DEF Known, IsPattern, Word, PathAt
<1>3. b # Path \/ c # Path => Known(<<a, b, c>>, a)
  <2>1. PathAt(<<a, b, c>>) = {i \in 2..3 : <<a, b, c>>[i] = Path}
    BY DEF PathAt
  <2>2. \A i \in 2..3 : i = 2 \/ i = 3
    OBVIOUS
  <2>3. <<a, b, c>>[2] = b /\ <<a, b, c>>[3] = c
    OBVIOUS
  <2>4. b # Path \/ c # Path => \A i, j \in PathAt(<<a, b, c>>) : i = j
    BY <2>1, <2>2, <2>3, Zenon
  <2>. QED
    BY <2>4 DEF Known, IsPattern, Word
<1>4. Path \notin {b, c} => Known(<<a, b, c, d>>, a)
  BY DEF Known, IsPattern, Word, PathAt
<1>. QED
  BY <1>1, <1>2, <1>3, <1>4

LEMMA OneFewer ==
    ASSUME NEW a, NEW b, NEW c, NEW d, Path \notin {a, b, c}
    PROVE  Apart(<<a, b, c>>, <<a, b, c, d>>)
<1>1. PathAt(<<a, b, c>>) = {}
  BY DEF PathAt
<1>2. Len(<<a, b, c>>) = 3 /\ Len(<<a, b, c, d>>) = 4
  OBVIOUS
<1>. QED
  BY <1>1, <1>2 DEF Apart, TooShort

\* In both tables a pattern is apart from those before it, but for the team
\* of a course and the course.
LEMMA LmsApart ==
    /\ DOMAIN LmsRoutes = 1..29
    /\ \A j \in 1..29 : /\ IsPattern(LmsRoutes[j].pattern)
                        /\ \A i \in 1..(j-1) : (i = 5 /\ j = 6) \/
                              Apart(LmsRoutes[i].pattern, LmsRoutes[j].pattern)
<1>. DEFINE pat(i) == LmsRoutes[i].pattern
<1>1. DOMAIN LmsRoutes = 1..29
  BY DEF LmsRoutes, CourseRoutes, Read, Write
\* The patterns.
<1>2. pat(1) = <<"health">>
  BY DEF LmsRoutes, CourseRoutes, Read, Write
<1>3. pat(2) = <<"whoami">>
  BY DEF LmsRoutes, CourseRoutes, Read, Write
<1>4. pat(3) = <<"analytics", "overview">>
  BY DEF LmsRoutes, CourseRoutes, Read, Write
<1>5. pat(4) = <<"courses">>
  BY DEF LmsRoutes, CourseRoutes, Read, Write
<1>6. pat(5) = <<"courses", Path, "team">>
  BY DEF LmsRoutes, CourseRoutes, Read, Write
<1>7. pat(6) = <<"courses", Path>>
  BY DEF LmsRoutes, CourseRoutes, Read, Write
<1>8. pat(7) = <<"users">>
  BY DEF LmsRoutes, CourseRoutes, Read, Write
<1>9. pat(8) = <<"users", Str, "roles">>
  BY DEF LmsRoutes, CourseRoutes, Read, Write
<1>10. pat(9) = <<"grades", Str, Path>>
  BY DEF LmsRoutes, CourseRoutes, Read, Write
<1>11. pat(10) = <<"audit">>
  BY DEF LmsRoutes, CourseRoutes, Read, Write
<1>12. pat(11) = <<"enroll">>
  BY DEF LmsRoutes, CourseRoutes, Read, Write
<1>13. pat(12) = <<"unenroll">>
  BY DEF LmsRoutes, CourseRoutes, Read, Write
<1>14. pat(13) = <<"bulk-enroll">>
  BY DEF LmsRoutes, CourseRoutes, Read, Write
<1>15. pat(14) = <<"users", "create">>
  BY DEF LmsRoutes, CourseRoutes, Read, Write
<1>16. pat(15) = <<"users", "deactivate">>
  BY DEF LmsRoutes, CourseRoutes, Read, Write
<1>17. pat(16) = <<"roles", "set">>
  BY DEF LmsRoutes, CourseRoutes, Read, Write
<1>18. pat(17) = <<"access", "instructor">>
  BY DEF LmsRoutes, CourseRoutes, Read, Write
<1>19. pat(18) = <<"students", "reset-attempts">>
  BY DEF LmsRoutes, CourseRoutes, Read, Write
<1>20. pat(19) = <<"certificates", "course", Path>>
  BY DEF LmsRoutes, CourseRoutes, Read, Write
<1>21. pat(20) = <<"certificates", "user", Str>>
  BY DEF LmsRoutes, CourseRoutes, Read, Write
<1>22. pat(21) = <<"certificates", "user", Str, Path>>
  BY DEF LmsRoutes, CourseRoutes, Read, Write
<1>23. pat(22) = <<"certificates", "generate">>
  BY DEF LmsRoutes, CourseRoutes, Read, Write
<1>24. pat(23) = <<"certificates", "regenerate">>
  BY DEF LmsRoutes, CourseRoutes, Read, Write
<1>25. pat(24) = <<"certificates", "invalidate">>
  BY DEF LmsRoutes, CourseRoutes, Read, Write
<1>26. pat(25) = <<"reports", "submit">>
  BY DEF LmsRoutes, CourseRoutes, Read, Write
<1>27. pat(26) = <<"reports", "tasks", Path>>
  BY DEF LmsRoutes, CourseRoutes, Read, Write
<1>28. pat(27) = <<"reports", "downloads", Path>>
  BY DEF LmsRoutes, CourseRoutes, Read, Write
<1>29. pat(28) = <<"retirement", "status", Str>>
  BY DEF LmsRoutes, CourseRoutes, Read, Write
<1>30. pat(29) = <<"retirement", "request">>
  BY DEF LmsRoutes, CourseRoutes, Read, Write
<1>. HIDE DEF pat
\* Their first words, and what follows those that share one.
<1>31. Known(pat(1), "health") /\ Known(pat(2), "whoami") /\
       Known(pat(3), "analytics") /\ Known(pat(4), "courses") /\
       Known(pat(5), "courses")
  BY <1>2, <1>3, <1>4, <1>5, <1>6, Shapes DEF Str, Path
<1>32. Known(pat(6), "courses") /\ Known(pat(7), "users") /\
       Known(pat(8), "users") /\ Known(pat(9), "grades") /\
       Known(pat(10), "audit")
  BY <1>7, <1>8, <1>9, <1>10, <1>11, Shapes DEF Str, Path
<1>33. Known(pat(11), "enroll") /\ Known(pat(12), "unenroll") /\
       Known(pat(13), "bulk-enroll") /\ Known(pat(14), "users") /\
       Known(pat(15), "users")
  BY <1>12, <1>13, <1>14, <1>15, <1>16, Shapes DEF Str, Path
<1>34. Known(pat(16), "roles") /\ Known(pat(17), "access") /\
       Known(pat(18), "students") /\ Known(pat(19), "certificates") /\
       Known(pat(20), "certificates")
  BY <1>17, <1>18, <1>19, <1>20, <1>21, Shapes DEF Str, Path
<1>35. Known(pat(21), "certificates") /\ Known(pat(22), "certificates") /\
       Known(pat(23), "certificates") /\ Known(pat(24), "certificates") /\
       Known(pat(25), "reports")
  BY <1>22, <1>23, <1>24, <1>25, <1>26, Shapes DEF Str, Path
<1>36. Known(pat(26), "reports") /\ Known(pat(27), "reports") /\
       Known(pat(28), "retirement") /\ Known(pat(29), "retirement")
  BY <1>27, <1>28, <1>29, <1>30, Shapes DEF Str, Path
<1>37. Apart(pat(4), pat(5))
  BY <1>5, <1>6 DEF Apart, TooShort, PathAt, Path, Str
<1>38. Apart(pat(4), pat(6))
  BY <1>5, <1>7 DEF Apart, TooShort, PathAt, Path, Str
<1>39. Apart(pat(7), pat(8))
  BY <1>8, <1>9 DEF Apart, TooShort, PathAt, Path, Str
<1>40. Apart(pat(7), pat(14))
  BY <1>8, <1>15 DEF Apart, TooShort, PathAt, Path, Str
<1>41. Apart(pat(8), pat(14))
  BY <1>9, <1>15 DEF Apart, TooLong, PathAt, Path, Str
<1>42. Apart(pat(7), pat(15))
  BY <1>8, <1>16 DEF Apart, TooShort, PathAt, Path, Str
<1>43. Apart(pat(8), pat(15))
  BY <1>9, <1>16 DEF Apart, TooLong, PathAt, Path, Str
<1>44. Apart(pat(20), pat(21))
  BY <1>21, <1>22, OneFewer DEF Path, Str
<1>45. Second(pat(14), "create") /\ Second(pat(15), "deactivate")
  BY <1>15, <1>16 DEF Second, Word, Str, Path
<1>46. Second(pat(19), "course") /\ Second(pat(20), "user") /\
       Second(pat(21), "user") /\ Second(pat(22), "generate") /\
       Second(pat(23), "regenerate") /\ Second(pat(24), "invalidate")
  BY <1>20, <1>21, <1>22, <1>23, <1>24, <1>25 DEF Second, Word, Str, Path
<1>47. Second(pat(25), "submit") /\ Second(pat(26), "tasks") /\
       Second(pat(27), "downloads")
  BY <1>26, <1>27, <1>28 DEF Second, Word, Str, Path
<1>48. Second(pat(28), "status") /\ Second(pat(29), "request")
  BY <1>29, <1>30 DEF Second, Word, Str, Path
<1>49. ASSUME NEW a, NEW b, NEW v, NEW u, Known(a, v), Known(b, u), v # u
       PROVE  Apart(a, b)
  BY <1>49, OtherFirst DEF Known
<1>50. ASSUME NEW a, NEW b, NEW v, NEW u, NEW c, Known(a, c), Known(b, c),
              Second(a, v), Second(b, u), v # u
       PROVE  Apart(a, b)
  BY <1>50, OtherSecond DEF Known, Second
\* Those with a word of their own, then the others.
<1>51. \A j \in {1, 2, 3, 4} : \A i \in 1..(j-1) : Apart(pat(i), pat(j))
  BY <1>31, <1>49
<1>52. \A j \in {7, 9, 10, 11} : \A i \in 1..(j-1) : Apart(pat(i), pat(j))
  BY <1>31, <1>32, <1>33, <1>49
<1>53. \A j \in {12, 13, 16, 17} : \A i \in 1..(j-1) : Apart(pat(i), pat(j))
  BY <1>31, <1>32, <1>33, <1>34, <1>49
<1>54. \A j \in {18, 19, 25, 28} : \A i \in 1..(j-1) : Apart(pat(i), pat(j))
  BY <1>31, <1>32, <1>33, <1>34, <1>35, <1>36, <1>49
<1>55. \A i \in 1..4 : Apart(pat(i), pat(5))
  BY <1>31, <1>37, <1>49
<1>56. \A i \in 1..5 : Apart(pat(i), pat(6)) \/ i = 5
  BY <1>31, <1>32, <1>38, <1>49
<1>57. \A i \in 1..7 : Apart(pat(i), pat(8))
  BY <1>31, <1>32, <1>39, <1>49
<1>58. \A i \in 1..13 : Apart(pat(i), pat(14))
  BY <1>31, <1>32, <1>33, <1>40, <1>41, <1>45, <1>49, <1>50
<1>59. \A i \in 1..14 : Apart(pat(i), pat(15))
  BY <1>31, <1>32, <1>33, <1>42, <1>43, <1>45, <1>49, <1>50
<1>60. \A i \in 1..19 : Apart(pat(i), pat(20))
  BY <1>31, <1>32, <1>33, <1>34, <1>46, <1>49, <1>50
<1>61. \A i \in 1..20 : Apart(pat(i), pat(21))
  BY <1>31, <1>32, <1>33, <1>34, <1>35, <1>44, <1>46, <1>49, <1>50
<1>62. \A i \in 1..21 : Apart(pat(i), pat(22))
  BY <1>31, <1>32, <1>33, <1>34, <1>35, <1>46, <1>49, <1>50
<1>63. \A i \in 1..22 : Apart(pat(i), pat(23))
  BY <1>31, <1>32, <1>33, <1>34, <1>35, <1>46, <1>49, <1>50
<1>64. \A i \in 1..23 : Apart(pat(i), pat(24))
  BY <1>31, <1>32, <1>33, <1>34, <1>35, <1>46, <1>49, <1>50
<1>65. \A i \in 1..25 : Apart(pat(i), pat(26))
  BY <1>31, <1>32, <1>33, <1>34, <1>35, <1>36, <1>47, <1>49, <1>50
<1>66. \A i \in 1..26 : Apart(pat(i), pat(27))
  BY <1>31, <1>32, <1>33, <1>34, <1>35, <1>36, <1>47, <1>49, <1>50
<1>67. \A i \in 1..28 : Apart(pat(i), pat(29))
  BY <1>31, <1>32, <1>33, <1>34, <1>35, <1>36, <1>48, <1>49, <1>50
<1>68. \A j \in 1..29 : IsPattern(pat(j))
  BY <1>31, <1>32, <1>33, <1>34, <1>35, <1>36 DEF Known
<1>69. \A j \in 1..29 : \A i \in 1..(j-1) : Apart(pat(i), pat(j)) \/ (i = 5 /\ j = 6)
  BY <1>51, <1>52, <1>53, <1>54, <1>55, <1>56, <1>57, <1>58, <1>59, <1>60,
     <1>61, <1>62, <1>63, <1>64, <1>65, <1>66, <1>67
<1>. QED
  BY <1>1, <1>68, <1>69 DEF pat

LEMMA CmsApart ==
    /\ DOMAIN CmsRoutes = 1..8
    /\ \A j \in 1..8 : /\ IsPattern(CmsRoutes[j].pattern)
                       /\ \A i \in 1..(j-1) :
                             Apart(CmsRoutes[i].pattern, CmsRoutes[j].pattern)
<1>. DEFINE pat(i) == CmsRoutes[i].pattern
<1>1. DOMAIN CmsRoutes = 1..8
  BY DEF CmsRoutes, Read, Write
\* The patterns.
<1>2. pat(1) = <<"courses", "settings">>
  BY DEF CmsRoutes, Read, Write
<1>3. pat(2) = <<"courses", Path, "outline">>
  BY DEF CmsRoutes, Read, Write
<1>4. pat(3) = <<"courses", Path, "settings">>
  BY DEF CmsRoutes, Read, Write
<1>5. pat(4) = <<"blocks", "create">>
  BY DEF CmsRoutes, Read, Write
<1>6. pat(5) = <<"blocks", "create-tree">>
  BY DEF CmsRoutes, Read, Write
<1>7. pat(6) = <<"blocks", "update">>
  BY DEF CmsRoutes, Read, Write
<1>8. pat(7) = <<"blocks", "publish">>
  BY DEF CmsRoutes, Read, Write
<1>9. pat(8) = <<"blocks", "delete">>
  BY DEF CmsRoutes, Read, Write
<1>. HIDE DEF pat
\* Their first words, and what follows those that share one.
<1>10. Known(pat(1), "courses") /\ Known(pat(2), "courses") /\
       Known(pat(3), "courses") /\ Known(pat(4), "blocks") /\
       Known(pat(5), "blocks")
  BY <1>2, <1>3, <1>4, <1>5, <1>6, Shapes DEF Str, Path
<1>11. Known(pat(6), "blocks") /\ Known(pat(7), "blocks") /\
       Known(pat(8), "blocks")
  BY <1>7, <1>8, <1>9, Shapes DEF Str, Path
<1>12. Apart(pat(1), pat(2))
  BY <1>2, <1>3 DEF Apart, TooShort, PathAt, Path, Str
<1>13. Apart(pat(1), pat(3))
  BY <1>2, <1>4 DEF Apart, TooShort, PathAt, Path, Str
<1>14. Apart(pat(2), pat(3))
  BY <1>3, <1>4 DEF Apart, OtherWord, SameSpot, Word, PathAt, Path, Str
<1>15. Second(pat(1), "settings")
  BY <1>2 DEF Second, Word, Str, Path
<1>16. Second(pat(4), "create") /\ Second(pat(5), "create-tree") /\
       Second(pat(6), "update") /\ Second(pat(7), "publish") /\
       Second(pat(8), "delete")
  BY <1>5, <1>6, <1>7, <1>8, <1>9 DEF Second, Word, Str, Path
<1>17. ASSUME NEW a, NEW b, NEW v, NEW u, Known(a, v), Known(b, u), v # u
       PROVE  Apart(a, b)
  BY <1>17, OtherFirst DEF Known
<1>18. ASSUME NEW a, NEW b, NEW v, NEW u, NEW c, Known(a, c), Known(b, c),
              Second(a, v), Second(b, u), v # u
       PROVE  Apart(a, b)
  BY <1>18, OtherSecond DEF Known, Second
\* Those with a word of their own, then the others.
<1>19. \A j \in {1, 4} : \A i \in 1..(j-1) : Apart(pat(i), pat(j))
  BY <1>10, <1>17
<1>20. \A i \in 1..1 : Apart(pat(i), pat(2))
  BY <1>10, <1>12, <1>15, <1>17, <1>18
<1>21. \A i \in 1..2 : Apart(pat(i), pat(3))
  BY <1>10, <1>13, <1>14, <1>15, <1>17, <1>18
<1>22. \A i \in 1..4 : Apart(pat(i), pat(5))
  BY <1>10, <1>16, <1>17, <1>18
<1>23. \A i \in 1..5 : Apart(pat(i), pat(6))
  BY <1>10, <1>11, <1>16, <1>17, <1>18
<1>24. \A i \in 1..6 : Apart(pat(i), pat(7))
  BY <1>10, <1>11, <1>16, <1>17, <1>18
<1>25. \A i \in 1..7 : Apart(pat(i), pat(8))
  BY <1>10, <1>11, <1>16, <1>17, <1>18
<1>26. \A j \in 1..8 : IsPattern(pat(j))
  BY <1>10, <1>11 DEF Known
<1>27. \A j \in 1..8 : \A i \in 1..(j-1) : Apart(pat(i), pat(j))
  BY <1>19, <1>20, <1>21, <1>22, <1>23, <1>24, <1>25
<1>. QED
  BY <1>1, <1>26, <1>27 DEF pat

\* The exception: a course id that ends in /team.
LEMMA DetailNotTeam ==
    ASSUME NEW route, route.pattern = <<"courses", Path>>,
           NEW args \in Arguments(route.pattern),
           \A i \in DOMAIN args : ~ (Len(args[i]) > 1 /\ Last(args[i]) = "team")
    PROVE  ~ Matches(<<"courses", Path, "team">>, UrlOf(route, args))
<1>. DEFINE p == <<"courses", Path>>
            q == <<"courses", Path, "team">>
            url == UrlOf(route, args)
            extra == Len(url) - 2
            id == args[2]
<1>. SUFFICES ASSUME Matches(q, url) PROVE FALSE
  OBVIOUS
<1>1. IsPattern(route.pattern) /\ Len(p) = 2 /\ PathAt(p) = {2} /\ Converters(p) = {2}
  BY DEF IsPattern, PathAt, Converters, Str, Path
<1>2. PathAt(q) = {2} /\ Converters(q) = {2} /\ Len(q) = 3 /\ q[3] = "team" /\ DOMAIN q = 1..3
  BY DEF PathAt, Converters, Str, Path
<1>3. /\ url \in Seq(Texts(route.pattern)) /\ extra \in Nat /\ Len(id) = extra + 1
      /\ HasAt(url, 1, id)
  <2>5. /\ url \in Segments(Texts(route.pattern)) /\ Len(url) - Len(route.pattern) \in Nat
        /\ \A m \in PathAt(route.pattern) : Len(args[m]) = Len(url) - Len(route.pattern) + 1
        /\ \A i \in 1..Len(route.pattern) :
              HasAt(url, IF \E j \in PathAt(route.pattern) : j < i
                           THEN i - 1 + (Len(url) - Len(route.pattern)) ELSE i - 1,
                    Piece(route.pattern, args, i))
    BY <1>1, UrlIs
  <2>6. route.pattern = p /\ 2 \in 1..Len(p) /\ 2 \in PathAt(p)
    BY <1>1
  <2>. HIDE DEF p, url, id
  <2>1. /\ url \in Segments(Texts(route.pattern)) /\ extra \in Nat /\ Len(args[2]) = extra + 1
        /\ HasAt(url, IF \E j \in PathAt(p) : j < 2 THEN 2 - 1 + extra ELSE 2 - 1,
                 Piece(p, args, 2))
    BY <1>1, <2>5, <2>6
  <2>. USE DEF id
  <2>2. Piece(p, args, 2) = id
    BY <1>1 DEF Piece
  <2>3. ~ \E j \in PathAt(p) : j < 2
    BY <1>1
  <2>. QED
    BY <2>1, <2>2, <2>3 DEF Segments
<1>4. DOMAIN args = {2}
  BY <1>1 DEF Arguments
<1>. HIDE DEF url, id, p, q
<1>5. Len(url) \in Nat
  BY <1>3
<1>6. Len(url) >= 3 /\ Part(q, url, 3) = <<"team">>
  BY <1>2 DEF Matches
<1>7. Part(q, url, 3) = <<url[Len(url)]>>
  <2>1. Part(q, url, 3) = <<url[3 + (Len(url) - 3)]>>
    BY <1>2 DEF Part
  <2>2. 3 + (Len(url) - 3) = Len(url)
    BY <1>5
  <2>. QED
    BY <2>1, <2>2
<1>8. url[Len(url)] = "team"
  <2>1. <<url[Len(url)]>>[1] = <<"team">>[1]
    BY <1>6, <1>7
  <2>. QED
    BY <2>1
<1>9. id[extra + 1] = "team"
  <2>1. extra + 1 \in 1..Len(id) /\ 1 + (extra + 1) = Len(url)
    BY <1>3, <1>5
  <2>2. url[1 + (extra + 1)] = id[extra + 1]
    BY <1>3, <2>1 DEF HasAt
  <2>. QED
    BY <1>8, <2>1, <2>2
<1>10. Len(id) > 1 /\ Last(id) = "team"
  BY <1>3, <1>5, <1>6, <1>9 DEF Last
<1>. QED
  BY <1>4, <1>10 DEF id

\* Every request is for a route of its site, with arguments that fit.
LEMMA RequestIs ==
    ASSUME NEW r \in Requests
    PROVE  /\ r.site \in {"lms", "cms"}
           /\ \E j \in DOMAIN Tables[r.site] : r.route = Tables[r.site][j]
           /\ r.args \in Arguments(r.route.pattern)
<1>. DEFINE create == Write("create-user", <<"users", "create">>)
<1>1. ASSUME NEW site \in {"lms", "cms"}, NEW j \in DOMAIN Tables[site], NEW bodies,
             r \in Request(site, Tables[site][j], bodies)
      PROVE  /\ r.site = site /\ r.route = Tables[site][j]
             /\ r.args \in Arguments(r.route.pattern)
  BY <1>1 DEF Request
<1>2. \/ \E site \in DOMAIN Tables : \E route \in ToSet(Tables[site]) :
           r \in Request(site, route, {NoBody})
      \/ r \in Request("lms", create, Bodies)
  BY DEF Requests
<1>3. DOMAIN Tables = {"lms", "cms"}
  BY DEF Tables
<1>4. 14 \in DOMAIN Tables["lms"] /\ create = Tables["lms"][14]
  <2>1. Tables["lms"] = LmsRoutes
    BY DEF Tables
  <2>2. DOMAIN LmsRoutes = 1..29
    BY LmsApart
  <2>3. LmsRoutes[14] = create
    BY DEF LmsRoutes, CourseRoutes
  <2>4. 14 \in 1..29
    OBVIOUS
  <2>. HIDE DEF create
  <2>. QED
    BY <2>1, <2>2, <2>3, <2>4
<1>. HIDE DEF create
<1>5. CASE \E site \in DOMAIN Tables : \E route \in ToSet(Tables[site]) :
             r \in Request(site, route, {NoBody})
  <2>1. PICK site \in {"lms", "cms"} : \E route \in ToSet(Tables[site]) :
                                         r \in Request(site, route, {NoBody})
    BY <1>3, <1>5
  <2>2. PICK j \in DOMAIN Tables[site] : r \in Request(site, Tables[site][j], {NoBody})
    BY <2>1 DEF ToSet
  <2>. QED
    BY <1>1, <2>2
<1>6. CASE r \in Request("lms", create, Bodies)
  BY <1>1, <1>4, <1>6
<1>. QED
  BY <1>2, <1>5, <1>6

SwallowedAt(route, args) == /\ route.view = "course-detail"
                            /\ \E i \in DOMAIN args : Len(args[i]) > 1 /\ Last(args[i]) = "team"

LEMMA Reaches ==
    ASSUME NEW r \in Requests, ~ SwallowedAt(r.route, r.args)
    PROVE  Resolve(Tables[r.site], UrlOf(r.route, r.args))
             = [view |-> r.route.view, args |-> r.args, writes |-> r.route.writes]
<1>1. /\ r.site \in {"lms", "cms"} /\ r.args \in Arguments(r.route.pattern)
      /\ \E j \in DOMAIN Tables[r.site] : r.route = Tables[r.site][j]
  BY RequestIs
<1>2. Tables["lms"] = LmsRoutes /\ Tables["cms"] = CmsRoutes
  BY DEF Tables
<1>3. CASE r.site = "lms"
  <2>1. PICK j \in 1..29 : r.route = LmsRoutes[j]
    BY <1>1, <1>2, <1>3, LmsApart
  <2>2. DOMAIN LmsRoutes = 1..29 /\ \A i \in 1..29 : IsPattern(LmsRoutes[i].pattern)
    BY LmsApart
  <2>3. ASSUME NEW i \in 1..(j-1), Apart(LmsRoutes[i].pattern, LmsRoutes[j].pattern)
        PROVE  ~ Matches(LmsRoutes[i].pattern, UrlOf(LmsRoutes[j], r.args))
    <3>1. i \in 1..29
      OBVIOUS
    <3>. QED
      BY <1>1, <2>1, <2>2, <2>3, <3>1, ApartNoMatch
  <2>4. ASSUME j = 6
        PROVE  ~ Matches(LmsRoutes[5].pattern, UrlOf(LmsRoutes[j], r.args))
    <3>1. /\ LmsRoutes[5].pattern = <<"courses", Path, "team">>
          /\ LmsRoutes[6].pattern = <<"courses", Path>>
          /\ LmsRoutes[6].view = "course-detail"
      BY DEF LmsRoutes, CourseRoutes, Read, Write
    <3>2. \A i \in DOMAIN r.args : ~ (Len(r.args[i]) > 1 /\ Last(r.args[i]) = "team")
      BY <2>1, <2>4, <3>1 DEF SwallowedAt
    <3>. QED
      BY <1>1, <2>1, <2>4, <3>1, <3>2, DetailNotTeam
  <2>5. \A i \in 1..(j-1) : ~ Matches(LmsRoutes[i].pattern, UrlOf(LmsRoutes[j], r.args))
    <3>1. \A i \in 1..(j-1) : Apart(LmsRoutes[i].pattern, LmsRoutes[j].pattern)
                              \/ (i = 5 /\ j = 6)
      BY LmsApart
    <3>. QED
      BY <2>3, <2>4, <3>1
  <2>6. IsPattern(LmsRoutes[j].pattern) /\ r.args \in Arguments(LmsRoutes[j].pattern)
    BY <1>1, <2>1, <2>2
  <2>7. Resolve(LmsRoutes, UrlOf(LmsRoutes[j], r.args))
          = [view |-> LmsRoutes[j].view, args |-> r.args, writes |-> LmsRoutes[j].writes]
    BY <2>2, <2>5, <2>6, FirstHit
  <2>. QED
    BY <1>2, <1>3, <2>1, <2>7
<1>4. CASE r.site = "cms"
  <2>1. PICK j \in 1..8 : r.route = CmsRoutes[j]
    BY <1>1, <1>2, <1>4, CmsApart
  <2>2. DOMAIN CmsRoutes = 1..8 /\ \A i \in 1..8 : IsPattern(CmsRoutes[i].pattern)
    BY CmsApart
  <2>3. \A i \in 1..(j-1) : ~ Matches(CmsRoutes[i].pattern, UrlOf(CmsRoutes[j], r.args))
    <3>. SUFFICES ASSUME NEW i \in 1..(j-1)
                  PROVE  ~ Matches(CmsRoutes[i].pattern, UrlOf(CmsRoutes[j], r.args))
      OBVIOUS
    <3>1. i \in 1..8 /\ Apart(CmsRoutes[i].pattern, CmsRoutes[j].pattern)
      BY CmsApart
    <3>. QED
      BY <1>1, <2>1, <2>2, <3>1, ApartNoMatch
  <2>4. IsPattern(CmsRoutes[j].pattern) /\ r.args \in Arguments(CmsRoutes[j].pattern)
    BY <1>1, <2>1, <2>2
  <2>5. Resolve(CmsRoutes, UrlOf(CmsRoutes[j], r.args))
          = [view |-> CmsRoutes[j].view, args |-> r.args, writes |-> CmsRoutes[j].writes]
    BY <2>2, <2>3, <2>4, FirstHit
  <2>. QED
    BY <1>2, <1>4, <2>1, <2>5
<1>. QED
  BY <1>1, <1>3, <1>4

ViewOf(r) == Resolve(Tables[r.site], UrlOf(r.route, r.args))

RouteInv == /\ request \in Requests
            /\ view \in {None, ViewOf(request)}
            /\ summary # None => view # None /\ view.writes

LEMMA RouteStep == RouteInv /\ [Next]_vars => RouteInv'
<1>. SUFFICES ASSUME RouteInv, [Next]_vars PROVE RouteInv'
  OBVIOUS
<1>1. CASE Dispatch
  <2>1. request' = request /\ view' = ViewOf(request) /\ request \in Requests
        /\ summary' = IF view'.writes THEN Summary(request.body) ELSE None
    BY <1>1 DEF Dispatch, RouteInv, ViewOf
  <2>2. view' # None
    BY <2>1, NoneAssumption DEF ViewOf
  <2>. QED
    BY <2>1, <2>2 DEF RouteInv
<1>2. CASE BeginWalk \/ ServeWalk \/ UNCHANGED vars
  <2>1. UNCHANGED <<request, view, summary>>
    BY <1>2 DEF BeginWalk, ServeWalk, vars
  <2>. QED
    BY <2>1 DEF RouteInv
<1>. QED
  BY <1>1, <1>2 DEF Next

LEMMA RouteInitial == Init => RouteInv
BY DEF Init, RouteInv

LEMMA ViewsOnly ==
    ASSUME NEW r \in Requests
    PROVE  ViewOf(r) = NotFound \/ ViewOf(r).view \in Views
<1>. DEFINE routes == Tables[r.site]
            url == UrlOf(r.route, r.args)
            hits == {i \in DOMAIN routes : Matches(routes[i].pattern, url)}
<1>1. r.site \in DOMAIN Tables
  <2>1. DOMAIN Tables = {"lms", "cms"}
    BY DEF Tables
  <2>. QED
    BY <2>1, RequestIs
<1>2. DOMAIN routes \subseteq Nat
  <2>1. Tables["lms"] = LmsRoutes /\ Tables["cms"] = CmsRoutes
    BY DEF Tables
  <2>2. DOMAIN LmsRoutes = 1..29 /\ DOMAIN CmsRoutes = 1..8
    BY LmsApart, CmsApart
  <2>3. r.site \in {"lms", "cms"}
    BY RequestIs
  <2>. QED
    BY <2>1, <2>2, <2>3
<1>3. CASE hits = {}
  BY <1>3 DEF ViewOf, Resolve
<1>4. CASE hits # {}
  <2>1. hits \in SUBSET Nat /\ hits # {}
    BY <1>2, <1>4
  <2>. HIDE DEF hits
  <2>2. Min(hits) \in hits
    <3>1. Min(hits) = CHOOSE i \in hits : \A k \in hits : i <= k
      BY DEF Min
    <3>2. \E i \in hits : \A k \in hits : i <= k
      BY <2>1, LeastNumber
    <3>. QED
      BY <3>1, <3>2
  <2>3. Min(hits) \in DOMAIN routes
    BY <2>2 DEF hits
  <2>4. ViewOf(r).view = routes[Min(hits)].view
    BY <1>4 DEF ViewOf, Resolve, hits
  <2>. HIDE DEF routes
  <2>5. routes[Min(hits)] \in ToSet(routes)
    BY <2>3 DEF ToSet
  <2>6. routes[Min(hits)].view \in Views
    BY <1>1, <2>5 DEF Views, routes
  <2>. QED
    BY <2>4, <2>6
<1>. QED
  BY <1>3, <1>4

(***************************************************************************)
(* The facade's state has its types: a request reaches no view but those   *)
(* of the two route tables, and only a write is put on record.             *)
(***************************************************************************)
THEOREM FacadeTypes == Spec => []FacadeTypeOK
<1>1. Init => WalkInv /\ RouteInv
  BY WalkInitial, RouteInitial DEF Init
<1>2. WalkInv /\ RouteInv => FacadeTypeOK
  <2>. SUFFICES ASSUME WalkInv, RouteInv PROVE FacadeTypeOK
    OBVIOUS
  <2>1. view \in {None, NotFound} \/ view.view \in Views
    BY ViewsOnly DEF RouteInv
  <2>. QED
    BY <2>1 DEF FacadeTypeOK, RouteInv, WalkInv
<1>. QED
  BY <1>1, <1>2, WalkStep, RouteStep, PTL DEF Spec

(***************************************************************************)
(* "sub-routes of a course must precede the bare course-detail route or    *)
(* they get swallowed by it" (urls.py:22-23): for every course id and user *)
(* name, the URL made for a view and its arguments reaches that view with  *)
(* these arguments, but for the detail of a course whose id ends in /team. *)
(***************************************************************************)
THEOREM UrlsReachTheirViews == Spec => []OwnView
<1>1. RouteInv => OwnView
  <2>. SUFFICES ASSUME RouteInv, view # None, ~ Swallowed
                PROVE  view.view = request.route.view /\ view.args = request.args
    BY DEF OwnView
  <2>1. request \in Requests /\ view = ViewOf(request)
    BY DEF RouteInv
  <2>2. ~ SwallowedAt(request.route, request.args)
    BY DEF Swallowed, SwallowedAt
  <2>3. ViewOf(request) = [view |-> request.route.view, args |-> request.args,
                           writes |-> request.route.writes]
    BY <2>1, <2>2, Reaches DEF ViewOf
  <2>. QED
    BY <2>1, <2>3
<1>. QED
  BY <1>1, RouteInitial, RouteStep, PTL DEF Spec
=============================================================================
