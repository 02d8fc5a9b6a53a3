--------------------------- MODULE AuthoringProofs ---------------------------
(***************************************************************************)
(* Proofs about Authoring, for any number of calls, blocks, fields and     *)
(* sections, and any node lists.                                           *)
(***************************************************************************)
EXTENDS Authoring, SequenceTheorems, WellFoundedInduction, TLAPS

Stages == {"create", "read", "save", "answered", "failed"}
Parts == {"content", "children"}

\* Where a call may be, by its kind.
TreeShape(k) ==
    /\ k.nodes \in Trees /\ k.edit = <<>> /\ k.publish = "no"
    /\ Len(k.made) <= Len(k.nodes)
    /\ k.stage = "create" => Len(k.made) < Len(k.nodes)
    /\ k.stage \in {"read", "save"} => Len(k.made) > 0
    /\ k.stage = "answered" => Len(k.made) = Len(k.nodes)

OtherShape(k) ==
    /\ k.nodes = <<>> /\ k.made = <<>> /\ k.stage # "create"
    /\ k.kind = "settings" =>
         /\ k.target = Root /\ k.publish = "no"
         /\ k.stage \in {"read", "save"} => k.edit \in SettingsEdits

Shape(k) ==
    /\ IF k.kind = "tree" THEN TreeShape(k) ELSE OtherShape(k)
    /\ k.stage = "save" => k.copy \in Block

Shapes == \A c \in Calls : call[c] # None => Shape(call[c])

TypeInv == AuthoringTypeOK /\ Shapes

-----------------------------------------------------------------------------
(* The data.                                                               *)

LEMMA EditIs ==
    ASSUME NEW edit
    PROVE  edit \in Edits <=> /\ DOMAIN edit \in SUBSET Fields
                              /\ edit \in [DOMAIN edit -> Values]
BY DEF Edits

LEMMA NoEditIs == <<>> \in Edits /\ Edited(Default, <<>>) = Default
<1>1. <<>> \in [{} -> Values] /\ {} \in SUBSET Fields
  OBVIOUS
<1>2. DOMAIN <<>> = {}
  OBVIOUS
<1>. QED
  BY <1>1, <1>2 DEF Edits, Edited, Default

LEMMA EditedType ==
    ASSUME NEW content \in Content, NEW edit,
           \A f \in DOMAIN edit : edit[f] \in Values
    PROVE  Edited(content, edit) \in Content
BY DEF Edited, Content

LEMMA DefaultType == Default \in Content
BY DEF Default, Content

LEMMA TreeIs ==
    ASSUME NEW nodes \in Trees
    PROVE  /\ nodes \in Seq(Node) /\ Len(nodes) \in Nat /\ Len(nodes) > 0
           /\ \A i \in 1..Len(nodes) :
                nodes[i].edit \in Edits /\ nodes[i].up \in Nat /\ nodes[i].up < i
<1>1. nodes \in Seq(Node) /\ nodes # <<>> /\ \A i \in DOMAIN nodes : nodes[i].up < i
  BY AuthoringAssumption
<1>2. \A i \in 1..Len(nodes) : nodes[i] \in Node
  BY <1>1
<1>. QED
  BY <1>1, <1>2, EmptySeq, LenProperties DEF Node

\* A call and a block are records of their fields.
LEMMA CallIsRecord ==
    ASSUME NEW k \in Call
    PROVE  k = [kind |-> k.kind, target |-> k.target, nodes |-> k.nodes,
                made |-> k.made, edit |-> k.edit, publish |-> k.publish,
                overlapped |-> k.overlapped, copy |-> k.copy, stage |-> k.stage]
<1>. DEFINE Nodes == Trees \cup {<<>>}
            Mades == Seq(Blocks)
            Copies == Block \cup {None}
            Edits_ == Edits
            Targets == Locators
<1>1. k \in [kind : {"tree", "update", "settings"}, target : Targets, nodes : Nodes,
             made : Mades, edit : Edits_, publish : Publish, overlapped : SUBSET Parts,
             copy : Copies, stage : Stages]
  BY DEF Call, Stages, Parts
<1>. HIDE DEF Nodes, Mades, Copies, Edits_, Targets
<1>. QED
  BY <1>1

LEMMA CallFields ==
    ASSUME NEW k \in Call
    PROVE  /\ k.kind \in {"tree", "update", "settings"} /\ k.target \in Locators
           /\ k.nodes \in Trees \cup {<<>>} /\ k.made \in Seq(Blocks)
           /\ k.edit \in Edits /\ k.publish \in Publish /\ k.overlapped \in SUBSET Parts
           /\ k.copy \in Block \cup {None} /\ k.stage \in Stages
BY DEF Call, Stages, Parts

LEMMA BlockIs ==
    ASSUME NEW block \in Block
    PROVE  /\ block # None /\ block.content \in Content
           /\ block.children \in SUBSET Blocks
BY NoneIsNoRecord DEF Block

LEMMA NewBlockIs ==
    ASSUME NEW content \in Content, NEW children \in SUBSET Blocks
    PROVE  LET block == [content |-> content, children |-> children]
           IN  /\ block \in Block /\ block # None
               /\ block.content = content /\ block.children = children
BY NoneIsNoRecord DEF Block

\* Another list of children.
Relisted(block, children) == [block EXCEPT !.children = children]

LEMMA RelistedIs ==
    ASSUME NEW block \in Block, NEW children \in SUBSET Blocks
    PROVE  /\ Relisted(block, children) \in Block
           /\ Relisted(block, children) # None
           /\ Relisted(block, children).content = block.content
           /\ Relisted(block, children).children = children
<1>. DEFINE n == Relisted(block, children)
<1>1. block = [content |-> block.content, children |-> block.children]
      /\ block.content \in Content
  BY DEF Block
<1>2. n = [content |-> block.content, children |-> children]
  BY <1>1 DEF Relisted
<1>. HIDE DEF n
<1>. QED
  BY <1>1, <1>2, NewBlockIs DEF n

\* What a step may make of a call that is under way.
Becomes(k, made, edit, overlapped, copy, stage) ==
    [kind |-> k.kind, target |-> k.target, nodes |-> k.nodes, made |-> made,
     edit |-> edit, publish |-> k.publish, overlapped |-> overlapped,
     copy |-> copy, stage |-> stage]

IsNow(n, k, made, edit, overlapped, copy, stage) ==
    /\ n \in Call /\ n # None
    /\ n.kind = k.kind /\ n.target = k.target /\ n.nodes = k.nodes
    /\ n.made = made /\ n.edit = edit /\ n.publish = k.publish
    /\ n.overlapped = overlapped /\ n.copy = copy /\ n.stage = stage

LEMMA BecomesType ==
    ASSUME NEW k \in Call, NEW made \in Seq(Blocks), NEW edit \in Edits,
           NEW overlapped \in SUBSET Parts, NEW copy \in Block \cup {None},
           NEW stage \in Stages
    PROVE  IsNow(Becomes(k, made, edit, overlapped, copy, stage),
                 k, made, edit, overlapped, copy, stage)
<1>. DEFINE n == Becomes(k, made, edit, overlapped, copy, stage)
<1>1. n \in Call
  BY CallFields DEF Becomes, Call, Stages, Parts
<1>2. n # None
  BY <1>1, NoneIsNoRecord
<1>. QED
  BY <1>1, <1>2 DEF Becomes, IsNow

\* The ways the actions write it.
Staged(k, stage) == [k EXCEPT !.stage = stage]
Overlapped(k, overlapped) == [k EXCEPT !.overlapped = overlapped]
WithMade(k, made, stage) == [k EXCEPT !.made = made, !.stage = stage]
WithCopy(k, overlapped, copy, stage) ==
    [k EXCEPT !.copy = copy, !.overlapped = overlapped, !.stage = stage]
WithEdit(k, edit, overlapped, copy, stage) ==
    [k EXCEPT !.copy = copy, !.overlapped = overlapped, !.edit = edit, !.stage = stage]

LEMMA ExceptIs ==
    ASSUME NEW k \in Call, NEW made, NEW edit, NEW overlapped, NEW copy, NEW stage
    PROVE  /\ Staged(k, stage) = Becomes(k, k.made, k.edit, k.overlapped, k.copy, stage)
           /\ Overlapped(k, overlapped) =
                Becomes(k, k.made, k.edit, overlapped, k.copy, k.stage)
           /\ WithMade(k, made, stage) =
                Becomes(k, made, k.edit, k.overlapped, k.copy, stage)
           /\ WithCopy(k, overlapped, copy, stage) =
                Becomes(k, k.made, k.edit, overlapped, copy, stage)
           /\ WithEdit(k, edit, overlapped, copy, stage) =
                Becomes(k, k.made, edit, overlapped, copy, stage)
<1>1. k = Becomes(k, k.made, k.edit, k.overlapped, k.copy, k.stage)
  BY CallIsRecord DEF Becomes
<1>. DEFINE k1 == [k EXCEPT !.copy = copy]
            k2 == [k1 EXCEPT !.overlapped = overlapped]
            k3 == [k2 EXCEPT !.edit = edit]
            k4 == [k EXCEPT !.made = made]
<1>2. /\ k1 = Becomes(k, k.made, k.edit, k.overlapped, copy, k.stage)
      /\ k4 = Becomes(k, made, k.edit, k.overlapped, k.copy, k.stage)
      /\ Staged(k, stage) = Becomes(k, k.made, k.edit, k.overlapped, k.copy, stage)
      /\ Overlapped(k, overlapped) =
           Becomes(k, k.made, k.edit, overlapped, k.copy, k.stage)
  BY <1>1 DEF Becomes, Staged, Overlapped
<1>. HIDE DEF k1, k4
<1>3. /\ k2 = Becomes(k, k.made, k.edit, overlapped, copy, k.stage)
      /\ [k4 EXCEPT !.stage = stage] =
            Becomes(k, made, k.edit, k.overlapped, k.copy, stage)
  BY <1>2 DEF Becomes
<1>. HIDE DEF k2
<1>4. /\ k3 = Becomes(k, k.made, edit, overlapped, copy, k.stage)
      /\ [k2 EXCEPT !.stage = stage] =
            Becomes(k, k.made, k.edit, overlapped, copy, stage)
  BY <1>3 DEF Becomes
<1>. HIDE DEF k3
<1>5. [k3 EXCEPT !.stage = stage] = Becomes(k, k.made, edit, overlapped, copy, stage)
  BY <1>4 DEF Becomes
<1>6. /\ WithMade(k, made, stage) = [k4 EXCEPT !.stage = stage]
      /\ WithCopy(k, overlapped, copy, stage) = [k2 EXCEPT !.stage = stage]
      /\ WithEdit(k, edit, overlapped, copy, stage) = [k3 EXCEPT !.stage = stage]
  BY DEF k1, k2, k3, k4, WithMade, WithCopy, WithEdit
<1>. QED
  BY <1>2, <1>3, <1>4, <1>5, <1>6

LEMMA StagedIs ==
    ASSUME NEW k \in Call, NEW stage
    PROVE  Staged(k, stage) = Becomes(k, k.made, k.edit, k.overlapped, k.copy, stage)
BY ExceptIs

LEMMA OverlappedIs ==
    ASSUME NEW k \in Call, NEW overlapped
    PROVE  Overlapped(k, overlapped) =
             Becomes(k, k.made, k.edit, overlapped, k.copy, k.stage)
BY ExceptIs

LEMMA WithMadeIs ==
    ASSUME NEW k \in Call, NEW made, NEW stage
    PROVE  WithMade(k, made, stage) =
             Becomes(k, made, k.edit, k.overlapped, k.copy, stage)
BY ExceptIs

LEMMA WithCopyIs ==
    ASSUME NEW k \in Call, NEW overlapped, NEW copy, NEW stage
    PROVE  WithCopy(k, overlapped, copy, stage) =
             Becomes(k, k.made, k.edit, overlapped, copy, stage)
BY ExceptIs

LEMMA WithEditIs ==
    ASSUME NEW k \in Call, NEW edit, NEW overlapped, NEW copy, NEW stage
    PROVE  WithEdit(k, edit, overlapped, copy, stage) =
             Becomes(k, k.made, edit, overlapped, copy, stage)
BY ExceptIs

-----------------------------------------------------------------------------
(* What a call is about to set, and where.                                 *)

LEMMA NotEmpty ==
    ASSUME NEW edit \in Edits, edit # <<>>
    PROVE  DOMAIN edit # {}
<1>1. edit \in [DOMAIN edit -> Values]
  BY EditIs
<1>. QED
  BY <1>1

\* The first section of the request, in the order the code takes them.
LEMMA SectionIs ==
    ASSUME NEW c \in Calls, call[c].edit \in SettingsEdits
    PROVE  Section(c) \in DOMAIN call[c].edit
<1>. DEFINE named == {i \in DOMAIN Sections : Sections[i] \in DOMAIN call[c].edit}
            first(i) == /\ Sections[i] \in DOMAIN call[c].edit
                        /\ \A j \in 1..(i - 1) : Sections[j] \notin DOMAIN call[c].edit
<1>1. Sections \in Seq(Fields) /\ DOMAIN Sections = 1..Len(Sections)
      /\ Len(Sections) \in Nat
  BY AuthoringAssumption
<1>2. named # {} /\ named \subseteq Nat
  <2>1. /\ call[c].edit \in Edits /\ call[c].edit # <<>>
        /\ \A f \in DOMAIN call[c].edit : \E i \in DOMAIN Sections : Sections[i] = f
    BY DEF SettingsEdits
  <2>2. PICK f \in DOMAIN call[c].edit : TRUE
    BY <2>1, NotEmpty
  <2>. QED
    BY <1>1, <2>1, <2>2
<1>. DEFINE before == OpToRel(<, Nat)
<1>3. /\ IsWellFoundedOn(before, Nat)
      /\ \A i, j \in Nat : j < i => <<j, i>> \in before
  BY NatLessThanWellFounded DEF OpToRel
<1>. HIDE DEF before
<1>4. \E i \in named : first(i)
  <2>. HIDE DEF named
  <2>1. PICK i \in named : \A j \in named : ~ (<<j, i>> \in before)
    BY <1>2, <1>3, WFMin
  <2>. USE DEF named
  <2>2. i \in Nat /\ i \in DOMAIN Sections /\ Sections[i] \in DOMAIN call[c].edit
    BY <1>1
  <2>3. ASSUME NEW j \in 1..(i - 1) PROVE Sections[j] \notin DOMAIN call[c].edit
    <3>1. j \in Nat /\ j < i /\ j \in DOMAIN Sections
      BY <1>1, <2>2, <2>3
    <3>2. <<j, i>> \in before
      BY <1>3, <2>2, <3>1
    <3>. QED
      BY <2>1, <3>1, <3>2
  <2>. QED
    BY <2>2, <2>3
<1>5. \E j \in DOMAIN Sections : first(j)
  BY <1>4
<1>. QED
  BY <1>5 DEF Section

LEMMA CallIs ==
    ASSUME TypeInv, NEW c \in Calls, call[c] # None
    PROVE  call[c] \in Call /\ Shape(call[c])
BY DEF TypeInv, AuthoringTypeOK, Shapes

\* A tree call about to make its next node.
LEMMA AtCreate ==
    ASSUME TypeInv, NEW c \in Calls, At(c, "create")
    PROVE  /\ call[c] # None /\ call[c] \in Call /\ TreeShape(call[c])
           /\ call[c].kind = "tree" /\ call[c].stage = "create"
           /\ call[c].made \in Seq(Blocks) /\ Len(call[c].made) \in Nat
           /\ Position(c) = Len(call[c].made) + 1
           /\ Position(c) \in 1..Len(call[c].nodes)
           /\ CurrentNode(c).edit \in Edits
           /\ CurrentNode(c).up \in Nat /\ CurrentNode(c).up < Position(c)
           /\ ParentOf(c) \in Locators
<1>1. /\ call[c] # None /\ call[c] \in Call /\ Shape(call[c])
      /\ call[c].stage = "create"
  BY CallIs DEF At
<1>2. call[c].kind = "tree" /\ TreeShape(call[c])
  BY <1>1 DEF Shape, OtherShape
<1>3. /\ call[c].made \in Seq(Blocks) /\ Len(call[c].made) \in Nat
      /\ Position(c) = Len(call[c].made) + 1
  BY <1>1, CallFields DEF Position, At
<1>4. /\ Len(call[c].nodes) \in Nat
      /\ Position(c) \in 1..Len(call[c].nodes)
  BY <1>1, <1>2, <1>3, TreeIs DEF TreeShape
<1>5. /\ CurrentNode(c).edit \in Edits
      /\ CurrentNode(c).up \in Nat /\ CurrentNode(c).up < Position(c)
  BY <1>2, <1>4, TreeIs DEF TreeShape, CurrentNode
<1>6. ParentOf(c) \in Locators
  <2>1. CASE CurrentNode(c).up = 0
    BY <1>1, <2>1, CallFields DEF ParentOf
  <2>2. CASE CurrentNode(c).up # 0
    <3>1. CurrentNode(c).up \in 1..Len(call[c].made)
      BY <1>3, <1>5, <2>2
    <3>. QED
      BY <1>3, <2>2, <3>1, ElementOfSeq DEF ParentOf, Locators
  <2>. QED
    BY <2>1, <2>2
<1>. QED
  BY <1>1, <1>2, <1>3, <1>4, <1>5, <1>6

\* A call about to read or to save a block.
LEMMA AtUpdate ==
    ASSUME TypeInv, NEW c \in Calls, At(c, "read") \/ At(c, "save")
    PROVE  /\ call[c] # None /\ call[c] \in Call /\ Shape(call[c])
           /\ call[c].made \in Seq(Blocks) /\ Len(call[c].made) \in Nat
           /\ Position(c) = Len(call[c].made)
           /\ Target(c) \in Locators
           /\ call[c].kind = "tree" =>
                /\ TreeShape(call[c])
                /\ Position(c) \in 1..Len(call[c].nodes)
                /\ CurrentNode(c).edit \in Edits
                /\ Target(c) = call[c].made[Len(call[c].made)]
                /\ EditOf(c) = CurrentNode(c).edit
           /\ call[c].kind # "tree" => Position(c) = 0 /\ Target(c) = call[c].target
           /\ \A f \in DOMAIN EditOf(c) : EditOf(c)[f] \in Values
<1>1. /\ call[c] # None /\ call[c] \in Call /\ Shape(call[c])
      /\ call[c].stage \in {"read", "save"}
      /\ ~ At(c, "create")
  BY CallIs DEF At
<1>2. /\ call[c].made \in Seq(Blocks) /\ Len(call[c].made) \in Nat
      /\ call[c].target \in Locators /\ call[c].edit \in Edits
      /\ call[c].kind \in {"tree", "update", "settings"}
      /\ Position(c) = Len(call[c].made)
  BY <1>1, CallFields DEF Position
<1>3. CASE call[c].kind = "tree"
  <2>1. TreeShape(call[c])
    BY <1>1, <1>3 DEF Shape
  <2>2. Len(call[c].nodes) \in Nat /\ Position(c) \in 1..Len(call[c].nodes)
    BY <1>1, <1>2, <2>1, TreeIs DEF TreeShape
  <2>3. CurrentNode(c).edit \in Edits /\ EditOf(c) = CurrentNode(c).edit
    BY <1>3, <2>1, <2>2, TreeIs DEF TreeShape, CurrentNode, EditOf
  <2>4. Target(c) = call[c].made[Len(call[c].made)]
    BY <1>3 DEF Target, Last
  <2>5. Target(c) \in Locators
    BY <1>2, <2>2, <2>4, ElementOfSeq DEF Locators
  <2>6. \A f \in DOMAIN EditOf(c) : EditOf(c)[f] \in Values
    BY <2>3, EditIs
  <2>. QED
    BY <1>1, <1>2, <1>3, <2>1, <2>2, <2>3, <2>4, <2>5, <2>6
<1>4. CASE call[c].kind # "tree"
  <2>1. OtherShape(call[c]) /\ call[c].made = <<>>
    BY <1>1, <1>4 DEF Shape, OtherShape
  <2>2. Position(c) = 0 /\ Target(c) = call[c].target
    BY <1>2, <1>4, <2>1 DEF Target
  <2>3. \A f \in DOMAIN EditOf(c) : EditOf(c)[f] \in Values
    <3>1. CASE call[c].kind = "update"
      BY <1>2, <3>1, EditIs DEF EditOf
    <3>2. CASE call[c].kind = "settings"
      <4>1. call[c].edit \in SettingsEdits
        BY <1>1, <2>1, <3>2 DEF OtherShape
      <4>2. Section(c) \in DOMAIN call[c].edit
        BY <4>1, SectionIs
      <4>3. EditOf(c) = [f \in {Section(c)} |-> call[c].edit[f]]
        BY <3>2 DEF EditOf
      <4>. QED
        BY <1>2, <4>2, <4>3, EditIs
    <3>. QED
      BY <1>2, <1>4, <3>1, <3>2
  <2>. QED
    BY <1>1, <1>2, <1>4, <2>2, <2>3
<1>. QED
  BY <1>3, <1>4

-----------------------------------------------------------------------------
(* What the steps do to the calls.                                         *)

CallsTyped == call \in [Calls -> Call \cup {None}] /\ Shapes

\* n is what call k was, but for the parts others have changed since.
SameAs(k, n) ==
    /\ n # None
    /\ n.kind = k.kind /\ n.target = k.target /\ n.nodes = k.nodes
    /\ n.made = k.made /\ n.publish = k.publish /\ n.copy = k.copy
    /\ n.stage = k.stage
    /\ k.overlapped \subseteq n.overlapped

\* What a step that changes parts of these blocks does to the calls D.
Others(D, blocks, parts) ==
    \A d \in D : IF call[d] = None THEN call'[d] = None
                ELSE /\ SameAs(call[d], call'[d])
                     /\ At(d, "save") /\ Target(d) \in blocks =>
                          parts \subseteq call'[d].overlapped

LEMMA OvertakenIs ==
    ASSUME TypeInv, NEW d \in Calls, NEW blocks, NEW parts \in SUBSET Parts, NEW n,
           n = Overtaken(d, blocks, parts)
    PROVE  IF call[d] = None THEN n = None
           ELSE /\ n \in Call /\ Shape(n) /\ SameAs(call[d], n)
                /\ At(d, "save") /\ Target(d) \in blocks => parts \subseteq n.overlapped
<1>. DEFINE k == call[d]
            overlapped == k.overlapped \cup parts
<1>1. CASE ~ (At(d, "save") /\ Target(d) \in blocks)
  <2>1. n = k
    BY <1>1 DEF Overtaken
  <2>. QED
    BY <1>1, <2>1, CallIs DEF SameAs
<1>2. CASE At(d, "save") /\ Target(d) \in blocks
  <2>1. k # None /\ k \in Call /\ Shape(k) /\ k.stage = "save"
    BY <1>2, CallIs DEF At
  <2>2. n = Overlapped(k, overlapped)
    BY <1>2 DEF Overtaken, Overlapped
  <2>3. overlapped \in SUBSET Parts
    BY <2>1, CallFields
  <2>. HIDE DEF overlapped, k
  <2>4. n = Becomes(k, k.made, k.edit, overlapped, k.copy, k.stage)
    BY <2>1, <2>2, OverlappedIs
  <2>5. /\ k.made \in Seq(Blocks) /\ k.edit \in Edits /\ k.copy \in Block \cup {None}
        /\ k.stage \in Stages
    BY <2>1, CallFields
  <2>6. IsNow(n, k, k.made, k.edit, overlapped, k.copy, k.stage)
    BY <2>1, <2>3, <2>4, <2>5, BecomesType
  <2>7. Shape(n) /\ n \in Call
    BY <2>1, <2>6 DEF IsNow, Shape, TreeShape, OtherShape
  <2>8. SameAs(k, n) /\ parts \subseteq n.overlapped
    BY <2>6 DEF SameAs, IsNow, overlapped
  <2>. QED
    BY <2>1, <2>7, <2>8 DEF k
<1>. QED
  BY <1>1, <1>2

\* c becomes n and the others have been overtaken.
LEMMA CallsStep ==
    ASSUME TypeInv, NEW c \in Calls, NEW n \in Call, Shape(n), NEW blocks,
           NEW parts \in SUBSET Parts,
           call' = [d \in Calls |-> IF d = c THEN n ELSE Overtaken(d, blocks, parts)]
    PROVE  CallsTyped' /\ call'[c] = n /\ Others(Calls \ {c}, blocks, parts)
<1>1. call'[c] = n /\ \A d \in Calls \ {c} : call'[d] = Overtaken(d, blocks, parts)
  OBVIOUS
<1>2. Others(Calls \ {c}, blocks, parts)
  BY <1>1, OvertakenIs DEF Others
<1>3. ASSUME NEW d \in Calls
      PROVE  call'[d] \in Call \cup {None} /\ (call'[d] # None => Shape(call'[d]))
  BY <1>1, OvertakenIs
<1>4. call' \in [Calls -> Call \cup {None}]
  BY <1>3
<1>. QED
  BY <1>1, <1>2, <1>3, <1>4 DEF CallsTyped, Shapes

LEMMA OneCall ==
    ASSUME TypeInv, NEW c \in Calls, NEW n \in Call, Shape(n),
           call' = [call EXCEPT ![c] = n]
    PROVE  CallsTyped' /\ call'[c] = n /\ Others(Calls \ {c}, {}, {})
<1>1. call'[c] = n /\ \A d \in Calls \ {c} : call'[d] = call[d]
  BY DEF TypeInv, AuthoringTypeOK
<1>2. call' \in [Calls -> Call \cup {None}] /\ Shapes'
  BY <1>1 DEF TypeInv, AuthoringTypeOK, Shapes
<1>3. Others(Calls \ {c}, {}, {})
  BY <1>1 DEF Others, SameAs
<1>. QED
  BY <1>1, <1>2, <1>3 DEF CallsTyped

\* What stays the same of a call while it is under way.
OwnKeeps(k, n) == /\ n \in Call /\ n # None /\ Shape(n)
                  /\ n.kind = k.kind /\ n.target = k.target /\ n.nodes = k.nodes
                  /\ n.publish = k.publish

LEMMA FailedIs ==
    ASSUME TypeInv, NEW c \in Calls, At(c, "create") \/ At(c, "read") \/ At(c, "save")
    PROVE  /\ OwnKeeps(call[c], Failed(c)) /\ Failed(c).made = call[c].made
           /\ Failed(c).stage = "failed"
<1>. DEFINE k == call[c]
            n == Becomes(k, k.made, k.edit, k.overlapped, k.copy, "failed")
<1>1. k # None /\ k \in Call /\ Shape(k) /\ k.stage \in {"create", "read", "save"}
  BY CallIs DEF At
<1>2. Failed(c) = n
  BY <1>1, StagedIs DEF Failed, Staged
<1>3. IsNow(n, k, k.made, k.edit, k.overlapped, k.copy, "failed")
  BY <1>1, CallFields, BecomesType DEF Stages
<1>. HIDE DEF k, n
<1>4. Shape(n)
  BY <1>1, <1>3 DEF IsNow, Shape, TreeShape, OtherShape
<1>. QED
  BY <1>1, <1>2, <1>3, <1>4 DEF k, IsNow, OwnKeeps

LEMMA ReadCalls ==
    ASSUME TypeInv, NEW c \in Calls, Read(c)
    PROVE  /\ CallsTyped' /\ Others(Calls \ {c}, {}, {})
           /\ OwnKeeps(call[c], call'[c]) /\ call'[c].made = call[c].made
           /\ call'[c].stage = "save" /\ call'[c].overlapped = {}
           /\ call'[c].copy = store[Target(c)]
<1>. DEFINE k == call[c]
            copy == store[Target(c)]
            n == Becomes(k, k.made, k.edit, {}, copy, "save")
<1>1. k # None /\ k \in Call /\ Shape(k) /\ k.stage = "read" /\ Target(c) \in Locators
  BY AtUpdate DEF Read, At
<1>2. copy \in Block
  BY <1>1 DEF Read, There, TypeInv, AuthoringTypeOK
<1>. HIDE DEF copy
<1>3. call' = [call EXCEPT ![c] = n]
  <2>1. call' = [call EXCEPT ![c] = WithCopy(k, {}, copy, "save")]
    BY DEF Read, TypeInv, AuthoringTypeOK, copy, WithCopy
  <2>2. WithCopy(k, {}, copy, "save") = n
    BY <1>1, WithCopyIs
  <2>. QED
    BY <2>1, <2>2
<1>4. IsNow(n, k, k.made, k.edit, {}, copy, "save")
  BY <1>1, <1>2, CallFields, BecomesType DEF Stages
<1>. HIDE DEF k, n
<1>5. n \in Call /\ Shape(n)
  BY <1>1, <1>2, <1>4 DEF IsNow, Shape, TreeShape, OtherShape
<1>6. CallsTyped' /\ call'[c] = n /\ Others(Calls \ {c}, {}, {})
  BY <1>3, <1>5, OneCall
<1>. QED
  BY <1>4, <1>5, <1>6 DEF k, copy, IsNow, OwnKeeps

LEMMA MadeIs ==
    ASSUME TypeInv, NEW c \in Calls, At(c, "create"), NEW b \in Blocks, NEW n,
           n = [call[c] EXCEPT !.made = Append(@, b),
                               !.stage = IF CurrentNode(c).edit = <<>>
                                         THEN AfterNode(c, Position(c)) ELSE "read"]
    PROVE  /\ OwnKeeps(call[c], n) /\ n.made = Append(call[c].made, b)
           /\ n.stage \in IF CurrentNode(c).edit = <<>>
                          THEN {"create", "answered"} ELSE {"read"}
<1>. DEFINE k == call[c]
            made == Append(k.made, b)
            stage == IF CurrentNode(c).edit = <<>> THEN AfterNode(c, Position(c))
                                                   ELSE "read"
<1>1. /\ k # None /\ k \in Call /\ TreeShape(k) /\ k.kind = "tree"
      /\ k.made \in Seq(Blocks) /\ Len(k.made) \in Nat /\ k.stage = "create"
      /\ Position(c) = Len(k.made) + 1 /\ Position(c) \in 1..Len(k.nodes)
  BY AtCreate
<1>2. /\ made \in Seq(Blocks) /\ Len(made) = Len(k.made) + 1
      /\ Len(k.nodes) \in Nat
  BY <1>1, AppendProperties, TreeIs DEF TreeShape
<1>3. /\ stage \in Stages /\ stage # "save"
      /\ stage = "create" => Len(made) < Len(k.nodes)
      /\ stage = "answered" => Len(made) = Len(k.nodes)
      /\ stage \in IF CurrentNode(c).edit = <<>> THEN {"create", "answered"} ELSE {"read"}
  BY <1>1, <1>2 DEF AfterNode, Stages
<1>. HIDE DEF made, stage
<1>4. n = Becomes(k, made, k.edit, k.overlapped, k.copy, stage)
  <2>1. n = WithMade(k, made, stage)
    BY DEF made, stage, WithMade
  <2>. QED
    BY <1>1, <2>1, WithMadeIs
<1>5. /\ k.edit \in Edits /\ k.overlapped \in SUBSET Parts
      /\ k.copy \in Block \cup {None}
  BY <1>1, CallFields
<1>. HIDE DEF k
<1>6. IsNow(n, k, made, k.edit, k.overlapped, k.copy, stage)
  BY <1>1, <1>2, <1>3, <1>4, <1>5, BecomesType
<1>7. Shape(n)
  <2>1. n.stage # "save" /\ n.kind = "tree"
    BY <1>1, <1>3, <1>6 DEF IsNow
  <2>2. Len(n.made) <= Len(n.nodes) /\ Len(n.made) > 0
    BY <1>1, <1>2, <1>6 DEF IsNow
  <2>3. TreeShape(n)
    BY <1>1, <1>2, <1>3, <1>6, <2>2 DEF IsNow, TreeShape
  <2>. QED
    BY <2>1, <2>3 DEF Shape
<1>. QED
  BY <1>3, <1>6, <1>7 DEF k, made, stage, IsNow, OwnKeeps

\* What is left of the request once a block is saved.
LEMMA RestIs ==
    ASSUME TypeInv, NEW c \in Calls, At(c, "save")
    PROVE  /\ Rest(c) \in Edits
           /\ call[c].kind # "settings" => Rest(c) = <<>>
           /\ call[c].kind = "settings" /\ Rest(c) # <<>> => Rest(c) \in SettingsEdits
<1>1. call[c] # None /\ call[c] \in Call /\ Shape(call[c]) /\ call[c].stage = "save"
  BY AtUpdate DEF At
<1>2. call[c].edit \in Edits /\ call[c].kind \in {"tree", "update", "settings"}
  BY <1>1, CallFields
<1>3. /\ DOMAIN Rest(c) = DOMAIN call[c].edit \ DOMAIN EditOf(c)
      /\ \A f \in DOMAIN Rest(c) : Rest(c)[f] = call[c].edit[f]
      /\ Rest(c) = [f \in DOMAIN Rest(c) |-> Rest(c)[f]]
  BY DEF Rest
<1>4. Rest(c) \in Edits
  BY <1>2, <1>3, EditIs
<1>5. CASE call[c].kind # "settings"
  <2>1. CASE call[c].kind = "tree"
    <3>1. call[c].edit = <<>>
      BY <1>1, <2>1 DEF Shape, TreeShape
    <3>2. DOMAIN Rest(c) = {}
      BY <1>3, <3>1
    <3>. QED
      BY <1>3, <1>4, <1>5, <3>2
  <2>2. CASE call[c].kind = "update"
    <3>1. DOMAIN Rest(c) = {}
      BY <1>3, <2>2 DEF EditOf
    <3>. QED
      BY <1>3, <1>4, <1>5, <3>1
  <2>. QED
    BY <1>2, <1>5, <2>1, <2>2
<1>6. CASE call[c].kind = "settings"
  <2>1. call[c].edit \in SettingsEdits
    BY <1>1, <1>6 DEF Shape, OtherShape
  <2>. QED
    BY <1>3, <1>4, <1>6, <2>1 DEF SettingsEdits
<1>. QED
  BY <1>5, <1>6

\* Where a call goes on, once a block is saved.
Onward(c) == IF Rest(c) # <<>> THEN "read" ELSE AfterNode(c, Position(c))

LEMMA NextIs ==
    ASSUME TypeInv, NEW c \in Calls, At(c, "save")
    PROVE  /\ Onward(c) \in {"create", "read", "answered"}
           /\ call[c].kind = "tree" =>
                /\ Onward(c) \in {"create", "answered"}
                /\ Onward(c) = "create" => Len(call[c].made) < Len(call[c].nodes)
                /\ Onward(c) = "answered" => Len(call[c].made) = Len(call[c].nodes)
           /\ call[c].kind # "tree" => Onward(c) # "create"
           /\ Onward(c) = "read" => Rest(c) \in SettingsEdits
<1>1. /\ call[c] # None /\ call[c] \in Call /\ Shape(call[c])
      /\ Position(c) = Len(call[c].made)
      /\ call[c].kind # "tree" => Position(c) = 0
  BY AtUpdate
<1>2. call[c].kind \in {"tree", "update", "settings"}
  BY <1>1, CallFields
<1>3. CASE call[c].kind = "tree"
  <2>1. TreeShape(call[c]) /\ Len(call[c].nodes) \in Nat /\ Len(call[c].made) \in Nat
    BY <1>1, <1>3, TreeIs, AtUpdate DEF Shape, TreeShape
  <2>2. Rest(c) = <<>>
    BY <1>3, RestIs
  <2>. QED
    BY <1>1, <1>3, <2>1, <2>2 DEF Onward, AfterNode, TreeShape
<1>4. CASE call[c].kind # "tree"
  <2>1. call[c].nodes = <<>> /\ Len(<<>>) = 0
    BY <1>1, <1>4 DEF Shape, OtherShape
  <2>2. AfterNode(c, Position(c)) = "answered"
    BY <1>1, <1>4, <2>1 DEF AfterNode
  <2>. QED
    BY <1>2, <1>4, <2>2, RestIs DEF Onward
<1>. QED
  BY <1>3, <1>4

LEMMA DoneIs ==
    ASSUME TypeInv, NEW c \in Calls, At(c, "save")
    PROVE  /\ OwnKeeps(call[c], Done(c)) /\ Done(c).made = call[c].made
           /\ Done(c).stage = Onward(c)
<1>. DEFINE k == call[c]
            n == Becomes(k, k.made, Rest(c), {}, None, Onward(c))
<1>1. k # None /\ k \in Call /\ Shape(k)
  BY AtUpdate
<1>2. Done(c) = n
  <2>1. Done(c) = WithEdit(k, Rest(c), {}, None, Onward(c))
    BY DEF Done, WithEdit, Onward
  <2>. QED
    BY <1>1, <2>1, WithEditIs
<1>3. /\ Onward(c) \in Stages /\ Onward(c) \in {"create", "read", "answered"}
      /\ Rest(c) \in Edits /\ k.made \in Seq(Blocks)
  BY <1>1, NextIs, RestIs, CallFields DEF Stages
<1>4. IsNow(n, k, k.made, Rest(c), {}, None, Onward(c))
  BY <1>1, <1>3, BecomesType
<1>. HIDE DEF n
<1>5. Shape(n)
  <2>1. n.stage # "save"
    BY <1>3, <1>4 DEF IsNow
  <2>2. CASE k.kind = "tree"
    <3>1. Rest(c) = <<>> /\ TreeShape(k)
      BY <1>1, <2>2, RestIs DEF Shape
    <3>. QED
      BY <1>4, <2>1, <2>2, <3>1, NextIs DEF IsNow, Shape, TreeShape
  <2>3. CASE k.kind # "tree"
    <3>1. OtherShape(k)
      BY <1>1, <2>3 DEF Shape
    <3>. QED
      BY <1>4, <2>1, <2>3, <3>1, NextIs DEF IsNow, Shape, OtherShape
  <2>. QED
    BY <2>2, <2>3
<1>. QED
  BY <1>2, <1>4, <1>5 DEF IsNow, OwnKeeps

\* A call starts with nothing made.
LEMMA StartCalls ==
    ASSUME TypeInv, NEW c \in Calls,
           \/ \E parent \in Locators, nodes \in Trees : StartTree(c, parent, nodes)
           \/ \E b \in Locators, edit \in Edits, publish \in Publish :
                StartUpdate(c, b, edit, publish)
           \/ \E edit \in SettingsEdits : StartSettings(c, edit)
    PROVE  /\ CallsTyped' /\ UNCHANGED <<store, public, home, latest, lost, raced>>
           /\ call[c] = None /\ Others(Calls \ {c}, {}, {})
           /\ call'[c] # None /\ call'[c].made = <<>>
           /\ call'[c].stage \in {"create", "read"}
<1>. DEFINE fresh(kind, target, nodes, edit, publish, stage) ==
              [kind |-> kind, target |-> target, nodes |-> nodes, made |-> <<>>,
               edit |-> edit, publish |-> publish, overlapped |-> {},
               copy |-> None, stage |-> stage]
            started(kind, target, nodes, edit, publish, stage) ==
              /\ call[c] = None
              /\ call' = [call EXCEPT ![c] = fresh(kind, target, nodes, edit, publish, stage)]
              /\ UNCHANGED <<store, public, home, latest, lost, raced>>
              /\ IF kind = "tree" THEN nodes \in Trees /\ edit = <<>> /\ publish = "no"
                                      /\ stage = "create"
                 ELSE /\ nodes = <<>> /\ stage = "read"
                      /\ kind = "settings" => /\ target = Root /\ publish = "no"
                                              /\ edit \in SettingsEdits
<1>1. PICK kind \in {"tree", "update", "settings"}, target \in Locators,
           nodes \in Trees \cup {<<>>}, edit \in Edits, publish \in Publish,
           stage \in {"create", "read"} :
        started(kind, target, nodes, edit, publish, stage)
  <2>1. ASSUME NEW parent \in Locators, NEW nodes \in Trees, StartTree(c, parent, nodes)
        PROVE  started("tree", parent, nodes, <<>>, "no", "create")
    BY <2>1 DEF StartTree
  <2>2. ASSUME NEW b \in Locators, NEW edit \in Edits, NEW publish \in Publish,
               StartUpdate(c, b, edit, publish)
        PROVE  started("update", b, <<>>, edit, publish, "read")
    BY <2>2 DEF StartUpdate
  <2>3. ASSUME NEW edit \in SettingsEdits, StartSettings(c, edit)
        PROVE  started("settings", Root, <<>>, edit, "no", "read")
    BY <2>3 DEF StartSettings
  <2>4. /\ <<>> \in Edits /\ "no" \in Publish /\ Root \in Locators
        /\ \A edit \in SettingsEdits : edit \in Edits
    BY NoEditIs DEF Publish, Locators, SettingsEdits
  <2>. HIDE DEF started
  <2>. QED
    BY <2>1, <2>2, <2>3, <2>4
<1>. DEFINE n == fresh(kind, target, nodes, edit, publish, stage)
<1>2. n \in Call
  <2>1. <<>> \in Seq(Blocks)
    OBVIOUS
  <2>. QED
    BY <2>1 DEF Call
<1>3. Shape(n)
  BY TreeIs, LenProperties, <1>1 DEF Shape, TreeShape, OtherShape
<1>4. n.made = <<>> /\ n.stage \in {"create", "read"}
  OBVIOUS
<1>. HIDE DEF n
<1>. QED
  BY <1>1, <1>2, <1>3, <1>4, OneCall, NoneIsNoRecord DEF n

-----------------------------------------------------------------------------

(* What is under a block.  s is store or public, or what a save makes.     *)

Blocked(s) == s \in [Locators -> Block \cup {None}]

\* A block is listed by no other than the one it was created under.
Listed(s) == \A p \in Locators, b \in Blocks : p \in Parents(s, b) => home[b] = p

\* With a block, S has what that was created under.
Above(S) == \A k \in S \cap Blocks : home[k] \in S

\* No block is above itself.
Ranked ==
    \A b \in Blocks : home[b] # None =>
        \E S \in SUBSET Locators : home[b] \in S /\ b \notin S /\ Above(S)

LEMMA UnderIs ==
    ASSUME NEW s, NEW b \in Locators
    PROVE  /\ Under(s, b) \in SUBSET Locators /\ b \in Under(s, b)
           /\ Closed(s, Under(s, b))
<1>1. Under(s, b) \in SUBSET Locators /\ b \in Under(s, b)
  BY DEF Under
<1>2. ASSUME NEW k \in Blocks, s[k] # None, Parents(s, k) \cap Under(s, b) # {},
             NEW S \in SUBSET Locators, b \in S, Closed(s, S)
      PROVE  k \in S
  <2>1. PICK p \in Parents(s, k) : p \in Under(s, b)
    BY <1>2
  <2>2. p \in S
    BY <1>2, <2>1 DEF Under
  <2>. QED
    BY <1>2, <2>1, <2>2 DEF Closed
<1>3. ASSUME NEW k \in Blocks, s[k] # None, Parents(s, k) \cap Under(s, b) # {}
      PROVE  k \in Under(s, b)
  BY <1>2, <1>3 DEF Under, Locators
<1>. QED
  BY <1>1, <1>3 DEF Closed

LEMMA UnderLeast ==
    ASSUME NEW s, NEW b, NEW S \in SUBSET Locators, b \in S, Closed(s, S)
    PROVE  Under(s, b) \subseteq S
BY DEF Under

LEMMA UnderThere ==
    ASSUME NEW s, NEW b \in Locators, s[b] # None
    PROVE  \A d \in Under(s, b) : s[d] # None
<1>. DEFINE S == {d \in Locators : s[d] # None}
<1>1. S \in SUBSET Locators /\ b \in S /\ Closed(s, S)
  BY DEF Closed, Locators
<1>. QED
  BY <1>1, UnderLeast

LEMMA UnderBlocks ==
    ASSUME NEW s, NEW b \in Blocks
    PROVE  Under(s, b) \subseteq Blocks
BY UnderLeast DEF Closed, Locators

\* All but b itself is there for being listed.
LEMMA UnderParent ==
    ASSUME NEW s, NEW b \in Locators, NEW k \in Under(s, b), k # b
    PROVE  \E p \in Under(s, b) : p \in Parents(s, k)
<1>. SUFFICES ASSUME Parents(s, k) \cap Under(s, b) = {}
              PROVE  FALSE
  OBVIOUS
<1>1. Under(s, b) \ {k} \in SUBSET Locators /\ b \in Under(s, b) \ {k}
  BY UnderIs
<1>2. Closed(s, Under(s, b) \ {k})
  <2>1. ASSUME NEW d \in Blocks, s[d] # None,
               Parents(s, d) \cap (Under(s, b) \ {k}) # {}
        PROVE  d \in Under(s, b) \ {k}
    <3>1. d \in Under(s, b)
      BY <2>1, UnderIs DEF Closed
    <3>2. d # k
      BY <2>1
    <3>. QED
      BY <3>1, <3>2
  <2>. QED
    BY <2>1 DEF Closed
<1>. QED
  BY <1>1, <1>2, UnderLeast

\* What a block was created under is not under it.
LEMMA UnderStays ==
    ASSUME NEW s, Listed(s), Ranked, NEW b \in Blocks, home[b] # None
    PROVE  home[b] \notin Under(s, b)
<1>1. PICK S \in SUBSET Locators : home[b] \in S /\ b \notin S /\ Above(S)
  BY DEF Ranked
<1>2. Locators \ S \in SUBSET Locators /\ b \in Locators \ S
  BY <1>1 DEF Locators
<1>3. Closed(s, Locators \ S)
  <2>1. ASSUME NEW k \in Blocks, NEW p \in Parents(s, k), p \in Locators \ S
        PROVE  k \in Locators \ S
    <3>1. home[k] = p
      BY <2>1 DEF Listed
    <3>. QED
      BY <1>1, <2>1, <3>1 DEF Above, Locators
  <2>. QED
    BY <2>1 DEF Closed
<1>. QED
  BY <1>1, <1>2, <1>3, UnderLeast

LEMMA UnderBelow ==
    ASSUME NEW s, Listed(s), NEW b \in Locators
    PROVE  Under(s, b) \subseteq Below(b)
<1>1. ASSUME NEW S \in SUBSET Locators, b \in S,
             \A k \in Blocks : home[k] \in S => k \in S
      PROVE  Under(s, b) \subseteq S
  <2>1. Closed(s, S)
    BY <1>1 DEF Closed, Listed, Parents
  <2>. QED
    BY <1>1, <2>1, UnderLeast
<1>. QED
  BY <1>1, UnderIs DEF Below

-----------------------------------------------------------------------------

(* The invariant.                                                          *)

\* A locator that was never given has nothing.
UnusedIn(s) == \A b \in Blocks : home[b] = None => s[b] = None

Unused == /\ UnusedIn(store) /\ UnusedIn(public)
          /\ \A b \in Blocks : home[b] = None => latest[b] = Default

\* A block is where it was created, unless a save has put an older list back.
Linked == \A b \in Blocks : There(b) /\ home[b] \notin raced => home[b] \in Parents(store, b)

\* EditsKept at one block.
Told(b) == There(b) => \A f \in Fields \ lost[b] : store[b].content[f] = latest[b][f]

BlocksInv == /\ Unused /\ Ranked /\ Listed(store) /\ Listed(public) /\ Linked
             /\ \A b \in Locators : Told(b)

\* A copy is what the block is, but for what it has missed.
CopyFits(c) ==
    LET t == Target(c)
        copy == call[c].copy
    IN  /\ t \in Blocks => home[t] # None
        /\ \A b \in copy.children : home[b] = t
        /\ There(t) =>
             /\ "content" \in call[c].overlapped \/ copy.content = store[t].content
             /\ "children" \in call[c].overlapped \/ copy.children = store[t].children

\* Where the request wants node i.
Wanted(c, i) == LET up == call[c].nodes[i].up
                IN  IF up = 0 THEN call[c].target ELSE call[c].made[up]

Placed(c) == \A i \in DOMAIN call[c].made :
                 call[c].kind = "tree" /\ home[call[c].made[i]] = Wanted(c, i)

\* The call has not come to the content of node i; or it has.
Pending(c, i) == call[c].stage \in {"read", "save"} /\ i = Len(call[c].made)
Finished(c, i) == i < Len(call[c].made) \/ call[c].stage \in {"create", "answered"}

\* The content of node i, unless update_block has come to it.
RightNode(c, i) ==
    LET b == call[c].made[i]
    IN  ~ Updated(b) =>
          /\ Finished(c, i) /\ There(b) =>
               \A f \in Fields \ lost[b] :
                 store[b].content[f] = Edited(Default, call[c].nodes[i].edit)[f]
          /\ Pending(c, i) /\ There(b) => store[b].content = Default
          /\ Pending(c, i) /\ At(c, "save") => call[c].copy.content = Default

CallFits(c) == call[c] # None =>
    /\ At(c, "save") => CopyFits(c)
    /\ Placed(c)
    /\ \A i \in DOMAIN call[c].made : RightNode(c, i)

\* No locator is made twice.
MadeOnce ==
    \A c, d \in Calls : call[c] # None /\ call[d] # None =>
        \A i \in DOMAIN call[c].made, j \in DOMAIN call[d].made :
            call[c].made[i] = call[d].made[j] => c = d /\ i = j

AuthoringInv == /\ TypeInv /\ BlocksInv /\ MadeOnce
                /\ \A c \in Calls : CallFits(c)

-----------------------------------------------------------------------------
(* What the calls need of a step.                                          *)

\* A call keeps what it was asked for, and a block where it was created.
CallKept(c) == call[c] # None =>
    /\ call'[c] # None /\ call'[c].kind = call[c].kind
    /\ call'[c].target = call[c].target /\ call'[c].publish = call[c].publish
    /\ call'[c].nodes = call[c].nodes

HomeKept == \A b \in Blocks : home[b] # None => home'[b] = home[b]

LEMMA UpdatedKept ==
    ASSUME HomeKept, None \notin Locators, \A c \in Calls : CallKept(c),
           NEW b, Updated(b)
    PROVE  Updated(b)'
<1>1. PICK d \in Calls : /\ call[d] # None /\ call[d].kind = "update"
                         /\ \/ b = call[d].target
                            \/ /\ call[d].publish = "discard_changes"
                               /\ b \in Below(call[d].target)
  BY DEF Updated
<1>2. /\ call'[d] # None /\ call'[d].kind = "update" /\ call'[d].target = call[d].target
      /\ call'[d].publish = call[d].publish
  BY <1>1 DEF CallKept
<1>3. ASSUME NEW t, b \in Below(t)
      PROVE  b \in {k \in Locators : \A S \in SUBSET Locators :
                      t \in S /\ (\A e \in Blocks : home'[e] \in S => e \in S) => k \in S}
  <2>1. ASSUME NEW S \in SUBSET Locators, t \in S,
               \A e \in Blocks : home'[e] \in S => e \in S
        PROVE  b \in S
    <3>1. \A e \in Blocks : home[e] \in S => e \in S
      BY <2>1 DEF HomeKept
    <3>. QED
      BY <1>3, <2>1, <3>1 DEF Below
  <2>. QED
    BY <1>3, <2>1 DEF Below
<1>4. CASE b = call[d].target
  BY <1>1, <1>2, <1>4 DEF Updated
<1>5. CASE call[d].publish = "discard_changes" /\ b \in Below(call[d].target)
  <2>1. b \in Below(call[d].target)'
    <3>1. Below(call[d].target)' =
            {k \in Locators : \A S \in SUBSET Locators :
               call'[d].target \in S /\ (\A e \in Blocks : home'[e] \in S => e \in S)
                 => k \in S}
      BY DEF Below
    <3>. QED
      BY <1>2, <1>3, <1>5, <3>1
  <2>. QED
    BY <1>2, <1>5, <2>1 DEF Updated
<1>. QED
  BY <1>1, <1>4, <1>5

\* A step touches these parts of these blocks, or makes a new one.
Touches(blocks, parts) ==
    \A t \in Locators : (t \in Blocks => home[t] # None) /\ store'[t] # None =>
        \/ t \in blocks /\ parts = Parts
        \/ /\ There(t) /\ store'[t].content = store[t].content
           /\ \/ store'[t].children = store[t].children
              \/ t \in blocks /\ "children" \in parts

\* The content of a block changes for a call of update_block only, X apart.
QuietBut(X) ==
    \A b \in Blocks \ X : home[b] # None /\ store'[b] # None /\ ~ Updated(b)' =>
        /\ There(b) /\ store'[b].content = store[b].content
        /\ lost[b] \subseteq lost'[b]

UpdatedGrows == \A b \in Locators : Updated(b) => Updated(b)'

LEMMA NoneApart ==
    /\ None \notin Locators /\ None \notin Blocks /\ Blocks \subseteq Locators
    /\ Root \in Locators /\ Root \notin Blocks
BY AuthoringAssumption DEF Locators

\* The blocks a call has made.
LEMMA MadeIn ==
    ASSUME TypeInv, NEW c \in Calls, call[c] # None
    PROVE  /\ Len(call[c].made) \in Nat /\ DOMAIN call[c].made = 1..Len(call[c].made)
           /\ \A i \in DOMAIN call[c].made : call[c].made[i] \in Blocks
BY CallIs, CallFields

LEMMA WantedIn ==
    ASSUME TypeInv, NEW c \in Calls, call[c] # None, Placed(c),
           NEW i \in DOMAIN call[c].made
    PROVE  /\ call[c].kind = "tree" /\ call[c].nodes \in Trees
           /\ i \in 1..Len(call[c].nodes)
           /\ call[c].nodes[i].up \in Nat /\ call[c].nodes[i].up < i
           /\ call[c].nodes[i].up # 0 => call[c].nodes[i].up \in DOMAIN call[c].made
           /\ Wanted(c, i) \in Locators
           /\ home[call[c].made[i]] = Wanted(c, i) /\ home[call[c].made[i]] # None
<1>1. /\ call[c].kind = "tree" /\ TreeShape(call[c]) /\ call[c].target \in Locators
      /\ home[call[c].made[i]] = Wanted(c, i)
  BY CallIs, CallFields DEF Placed, Shape
<1>2. /\ i \in 1..Len(call[c].made) /\ Len(call[c].made) \in Nat
      /\ DOMAIN call[c].made = 1..Len(call[c].made)
      /\ \A j \in DOMAIN call[c].made : call[c].made[j] \in Blocks
  BY MadeIn
<1>3. call[c].nodes \in Trees /\ i \in 1..Len(call[c].nodes)
  <2>1. call[c].nodes \in Trees /\ Len(call[c].made) <= Len(call[c].nodes)
    BY <1>1 DEF TreeShape
  <2>. QED
    BY <1>2, <2>1, TreeIs
<1>4. call[c].nodes[i].up \in Nat /\ call[c].nodes[i].up < i
  BY <1>3, TreeIs
<1>5. call[c].nodes[i].up # 0 => call[c].nodes[i].up \in DOMAIN call[c].made
  BY <1>2, <1>4
<1>6. Wanted(c, i) \in Locators
  BY <1>1, <1>2, <1>5, NoneApart DEF Wanted
<1>. QED
  BY <1>1, <1>3, <1>4, <1>5, <1>6, NoneApart

\* What a call has made stays where it is.
LEMMA PlacedKept ==
    ASSUME TypeInv, NEW c \in Calls, call[c] # None, Placed(c), HomeKept,
           CallKept(c), call'[c].made = call[c].made
    PROVE  Placed(c)'
<1>1. /\ call'[c].kind = call[c].kind /\ call'[c].target = call[c].target
      /\ call'[c].nodes = call[c].nodes
  BY DEF CallKept
<1>2. ASSUME NEW i \in DOMAIN call[c].made
      PROVE  /\ call[c].kind = "tree" /\ home'[call[c].made[i]] = Wanted(c, i)
             /\ Wanted(c, i)' = Wanted(c, i)
  BY <1>1, WantedIn, MadeIn DEF HomeKept, Wanted
<1>. QED
  BY <1>1, <1>2 DEF Placed

\* What there is to say of the content of node i does not change by itself.
LEMMA NodeKept ==
    ASSUME TypeInv, NEW c \in Calls, call[c] # None, CallFits(c), UpdatedGrows,
           NEW X, QuietBut(X), NEW i \in DOMAIN call[c].made, NEW b,
           b = call[c].made[i], b \notin X, ~ Updated(b)'
    PROVE  /\ Pending(c, i) /\ At(c, "save") => call[c].copy.content = Default
           /\ store'[b] # None =>
                /\ Pending(c, i) => store'[b].content = Default
                /\ Finished(c, i) => \A f \in Fields \ lost'[b] :
                     store'[b].content[f] = Edited(Default, call[c].nodes[i].edit)[f]
<1>1. b \in Blocks /\ b \in Locators /\ ~ Updated(b)
  BY MadeIn, NoneApart DEF UpdatedGrows
<1>2. RightNode(c, i) /\ home[b] # None
  BY WantedIn DEF CallFits
<1>3. store'[b] # None => /\ There(b) /\ store'[b].content = store[b].content
                          /\ lost[b] \subseteq lost'[b]
  BY <1>1, <1>2 DEF QuietBut
<1>. QED
  BY <1>1, <1>2, <1>3 DEF RightNode

\* A call that does not take the step.
LEMMA OtherFits ==
    ASSUME TypeInv, NEW d \in Calls, call[d] # None, CallFits(d),
           SameAs(call[d], call'[d]), NEW blocks, NEW parts,
           At(d, "save") /\ Target(d) \in blocks => parts \subseteq call'[d].overlapped,
           Touches(blocks, parts), HomeKept, UpdatedGrows, NEW X, QuietBut(X),
           \A i \in DOMAIN call[d].made : call[d].made[i] \notin X
    PROVE  CallFits(d)'
<1>1. /\ call'[d] # None /\ call'[d].made = call[d].made /\ call'[d].copy = call[d].copy
      /\ call'[d].stage = call[d].stage /\ call'[d].kind = call[d].kind
      /\ call'[d].target = call[d].target /\ call'[d].nodes = call[d].nodes
      /\ call[d].overlapped \subseteq call'[d].overlapped /\ CallKept(d)
  BY DEF SameAs, CallKept
<1>2. Placed(d)'
  BY <1>1, PlacedKept DEF CallFits
<1>3. ASSUME NEW i \in DOMAIN call[d].made
      PROVE  RightNode(d, i)'
  <2>1. (At(d, "save") <=> At(d, "save")') /\ (Pending(d, i) <=> Pending(d, i)')
        /\ (Finished(d, i) <=> Finished(d, i)')
    BY <1>1 DEF At, Pending, Finished
  <2>2. SUFFICES ASSUME ~ Updated(call[d].made[i])'
                 PROVE  RightNode(d, i)'
    BY <1>1 DEF RightNode
  <2>. QED
    BY <1>1, <2>1, <2>2, NodeKept DEF RightNode, There
<1>4. ASSUME At(d, "save")'
      PROVE  CopyFits(d)'
  <2>1. At(d, "save") /\ Target(d)' = Target(d)
    BY <1>1, <1>4 DEF At, Target
  <2>2. CopyFits(d) /\ Target(d) \in Locators /\ call[d].copy \in Block
    BY <2>1, AtUpdate DEF CallFits, Shape, At
  <2>. DEFINE t == Target(d)
              copy == call[d].copy
  <2>3. /\ t \in Blocks => home[t] # None
        /\ t \in Blocks => home'[t] # None
        /\ \A b \in copy.children : home[b] = t
    BY <2>2 DEF CopyFits, HomeKept
  <2>4. \A b \in copy.children : home'[b] = t
    BY <2>2, <2>3, BlockIs, NoneApart DEF HomeKept
  <2>5. ASSUME store'[t] # None
        PROVE  /\ "content" \in call'[d].overlapped \/ copy.content = store'[t].content
               /\ "children" \in call'[d].overlapped \/ copy.children = store'[t].children
    <3>1. CASE t \in blocks /\ parts = Parts
      BY <2>1, <3>1 DEF Parts
    <3>2. CASE ~ (t \in blocks /\ parts = Parts)
      <4>1. /\ There(t) /\ store'[t].content = store[t].content
            /\ \/ store'[t].children = store[t].children
               \/ t \in blocks /\ "children" \in parts
        BY <2>2, <2>3, <2>5, <3>2 DEF Touches
      <4>. QED
        BY <1>1, <2>1, <2>2, <4>1 DEF CopyFits
    <3>. QED
      BY <3>1, <3>2
  <2>. QED
    BY <1>1, <2>1, <2>3, <2>4, <2>5 DEF CopyFits, There
<1>. QED
  BY <1>1, <1>2, <1>3, <1>4 DEF CallFits

\* A call that goes on, but not to a save, having made nothing new.
LEMMA OwnFits ==
    ASSUME TypeInv, NEW c \in Calls, call[c] # None, CallFits(c),
           OwnKeeps(call[c], call'[c]), call'[c].made = call[c].made,
           call'[c].stage # "save", HomeKept, UpdatedGrows, NEW X, QuietBut(X),
           \A i \in DOMAIN call[c].made : call[c].made[i] \in X => RightNode(c, i)',
           \A i \in DOMAIN call[c].made : (Pending(c, i)' => Pending(c, i)),
           \A i \in DOMAIN call[c].made :
             Finished(c, i)' => Finished(c, i) \/ RightNode(c, i)'
    PROVE  CallFits(c)'
<1>1. /\ CallKept(c) /\ call'[c] # None /\ ~ At(c, "save")'
      /\ call'[c].nodes = call[c].nodes
  BY DEF OwnKeeps, CallKept, At
<1>2. Placed(c)'
  BY <1>1, PlacedKept DEF CallFits
<1>3. ASSUME NEW i \in DOMAIN call[c].made, ~ RightNode(c, i)'
      PROVE  FALSE
  <2>1. ~ Updated(call[c].made[i])' /\ call[c].made[i] \notin X
    BY <1>3 DEF RightNode
  <2>2. /\ Finished(c, i)' => Finished(c, i)
        /\ Pending(c, i)' => Pending(c, i)
    BY <1>3
  <2>. DEFINE b == call[c].made[i]
  <2>3. store'[b] # None =>
          /\ Pending(c, i) => store'[b].content = Default
          /\ Finished(c, i) => \A f \in Fields \ lost'[b] :
               store'[b].content[f] = Edited(Default, call[c].nodes[i].edit)[f]
    BY <2>1, NodeKept
  <2>4. call'[c].made[i] = b /\ call'[c].nodes[i] = call[c].nodes[i]
    BY <1>1
  <2>5. RightNode(c, i)'
    <3>. HIDE DEF b
    <3>. QED
      BY <1>1, <2>2, <2>3, <2>4 DEF RightNode, There
  <2>. QED
    BY <1>3, <2>5
<1>. QED
  BY <1>1, <1>2, <1>3 DEF CallFits

-----------------------------------------------------------------------------
(* Steps that change no block.                                             *)

LEMMA GrowsIs ==
    ASSUME HomeKept, \A c \in Calls : CallKept(c)
    PROVE  UpdatedGrows
BY UpdatedKept, NoneApart DEF UpdatedGrows

LEMMA OthersKept ==
    ASSUME NEW D, NEW blocks, NEW parts, Others(D, blocks, parts), NEW d \in D
    PROVE  /\ CallKept(d)
           /\ call[d] = None => call'[d] = None
           /\ call[d] # None => SameAs(call[d], call'[d]) /\ call'[d].made = call[d].made
BY DEF Others, SameAs, CallKept

LEMMA MadeOnceKept ==
    ASSUME MadeOnce,
           \A d \in Calls : call'[d] # None =>
              \/ call[d] # None /\ call'[d].made = call[d].made
              \/ call'[d].made = <<>>
    PROVE  MadeOnce'
BY DEF MadeOnce

\* All calls but c.
LEMMA TheOthers ==
    ASSUME AuthoringInv, NEW D \in SUBSET Calls, NEW blocks, NEW parts,
           Others(D, blocks, parts), Touches(blocks, parts), HomeKept, UpdatedGrows,
           NEW X, QuietBut(X),
           \A d \in D : call[d] # None =>
              \A i \in DOMAIN call[d].made : call[d].made[i] \notin X
    PROVE  \A d \in D : CallFits(d)'
<1>1. ASSUME NEW d \in D, call[d] = None
      PROVE  CallFits(d)'
  BY <1>1, OthersKept DEF CallFits
<1>2. ASSUME NEW d \in D, call[d] # None
      PROVE  CallFits(d)'
  <2>1. /\ SameAs(call[d], call'[d])
        /\ At(d, "save") /\ Target(d) \in blocks => parts \subseteq call'[d].overlapped
    BY <1>2 DEF Others
  <2>2. TypeInv /\ CallFits(d) /\ d \in Calls
    BY DEF AuthoringInv
  <2>. QED
    BY <1>2, <2>1, <2>2, OtherFits
<1>. QED
  BY <1>1, <1>2

LEMMA BlocksKept ==
    ASSUME BlocksInv, UNCHANGED <<store, public, home, latest, raced>>,
           \A b \in Locators : lost[b] \subseteq lost'[b]
    PROVE  BlocksInv'
<1>1. Unused' /\ Ranked'
  BY DEF BlocksInv, Unused, UnusedIn, Ranked, Above
<1>2. Listed(store)' /\ Listed(public)' /\ Linked'
  BY DEF BlocksInv, Listed, Parents, Linked, There
<1>3. \A b \in Locators : Told(b)'
  BY DEF BlocksInv, Told, There
<1>. QED
  BY <1>1, <1>2, <1>3 DEF BlocksInv

LEMMA NoneTouched ==
    ASSUME TypeInv, UNCHANGED <<store, public, home, latest, raced>>,
           \A b \in Locators : lost[b] \subseteq lost'[b]
    PROVE  HomeKept /\ Touches({}, {}) /\ QuietBut({})
BY NoneApart DEF HomeKept, Touches, QuietBut, There

LEMMA AnyStep ==
    ASSUME AuthoringInv, NEW c \in Calls, TypeInv', BlocksInv',
           NEW blocks, NEW parts, Others(Calls \ {c}, blocks, parts),
           Touches(blocks, parts), HomeKept, UpdatedGrows, NEW X, QuietBut(X),
           \A d \in Calls \ {c} : call[d] # None =>
              \A i \in DOMAIN call[d].made : call[d].made[i] \notin X,
           CallFits(c)', MadeOnce'
    PROVE  AuthoringInv'
<1>1. \A d \in Calls \ {c} : CallFits(d)'
  BY TheOthers
<1>. QED
  BY <1>1 DEF AuthoringInv

LEMMA MadeOnceOthers ==
    ASSUME AuthoringInv, NEW c \in Calls, NEW blocks, NEW parts,
           Others(Calls \ {c}, blocks, parts),
           \/ call[c] # None /\ call'[c].made = call[c].made
           \/ call'[c].made = <<>>
    PROVE  MadeOnce'
<1>1. \A d \in Calls \ {c} : call'[d] # None =>
         call[d] # None /\ call'[d].made = call[d].made
  BY OthersKept
<1>. QED
  BY <1>1, MadeOnceKept DEF AuthoringInv

\* Nothing but calls changes, and c does not come to a save or make a block.
LEMMA CallsOnly ==
    ASSUME AuthoringInv, NEW c \in Calls, call[c] # None, CallsTyped',
           UNCHANGED <<store, public, home, latest, raced>>,
           lost' \in [Locators -> SUBSET Fields],
           \A b \in Locators : lost[b] \subseteq lost'[b],
           NEW blocks, NEW parts, Others(Calls \ {c}, blocks, parts),
           CallKept(c), call'[c].made = call[c].made, UpdatedGrows => CallFits(c)'
    PROVE  AuthoringInv'
<1>1. TypeInv /\ BlocksInv
  BY DEF AuthoringInv
<1>2. TypeInv'
  BY <1>1 DEF TypeInv, AuthoringTypeOK, CallsTyped
<1>3. HomeKept /\ Touches({}, {}) /\ QuietBut({})
  BY <1>1, NoneTouched
<1>4. Touches(blocks, parts)
  BY <1>3 DEF Touches
<1>5. \A d \in Calls : CallKept(d)
  BY OthersKept
<1>6. UpdatedGrows
  BY <1>3, <1>5, GrowsIs
<1>7. MadeOnce'
  BY MadeOnceOthers
<1>. QED
  BY <1>1, <1>2, <1>3, <1>4, <1>6, <1>7, AnyStep, BlocksKept

LEMMA StartStep ==
    ASSUME AuthoringInv, NEW c \in Calls,
           \/ \E parent \in Locators, nodes \in Trees : StartTree(c, parent, nodes)
           \/ \E b \in Locators, edit \in Edits, publish \in Publish :
                StartUpdate(c, b, edit, publish)
           \/ \E edit \in SettingsEdits : StartSettings(c, edit)
    PROVE  AuthoringInv'
<1>1. TypeInv /\ BlocksInv
  BY DEF AuthoringInv
<1>2. /\ CallsTyped' /\ UNCHANGED <<store, public, home, latest, lost, raced>>
      /\ call[c] = None /\ Others(Calls \ {c}, {}, {})
      /\ call'[c] # None /\ call'[c].made = <<>>
      /\ call'[c].stage \in {"create", "read"}
  BY <1>1, StartCalls
<1>3. TypeInv'
  BY <1>1, <1>2 DEF TypeInv, AuthoringTypeOK, CallsTyped
<1>4. HomeKept /\ Touches({}, {}) /\ QuietBut({}) /\ BlocksInv'
  BY <1>1, <1>2, NoneTouched, BlocksKept
<1>5. \A d \in Calls : CallKept(d)
  BY <1>2, OthersKept DEF CallKept
<1>6. UpdatedGrows
  BY <1>4, <1>5, GrowsIs
<1>7. CallFits(c)'
  BY <1>2 DEF CallFits, At, Placed
<1>8. MadeOnce'
  BY <1>2, MadeOnceOthers
<1>. QED
  BY <1>2, <1>3, <1>4, <1>6, <1>7, <1>8, AnyStep

LEMMA ReadStep ==
    ASSUME AuthoringInv, NEW c \in Calls, Read(c)
    PROVE  AuthoringInv'
<1>1. TypeInv /\ BlocksInv /\ CallFits(c)
  BY DEF AuthoringInv
<1>2. /\ CallsTyped' /\ Others(Calls \ {c}, {}, {})
      /\ OwnKeeps(call[c], call'[c]) /\ call'[c].made = call[c].made
      /\ call'[c].stage = "save" /\ call'[c].overlapped = {}
      /\ call'[c].copy = store[Target(c)]
  BY <1>1, ReadCalls
<1>3. /\ UNCHANGED <<store, public, home, latest, lost, raced>>
      /\ call[c] # None /\ call[c].stage = "read" /\ There(Target(c))
      /\ Target(c) \in Locators
  BY <1>1, AtUpdate DEF Read, At
<1>4. CallKept(c) /\ call'[c] # None /\ call'[c].nodes = call[c].nodes
  BY <1>2 DEF OwnKeeps, CallKept
<1>5. HomeKept /\ QuietBut({})
  BY <1>1, <1>3, NoneTouched
<1>6. ASSUME UpdatedGrows PROVE CallFits(c)'
  <2>1. Placed(c)'
    BY <1>1, <1>2, <1>3, <1>4, <1>5, PlacedKept DEF CallFits
  <2>2. Target(c)' = Target(c)
    BY <1>2 DEF Target, OwnKeeps
  <2>3. CopyFits(c)'
    <3>. DEFINE t == Target(c)
                copy == store[Target(c)]
    <3>1. copy \in Block /\ copy.children \in SUBSET Blocks
      BY <1>1, <1>3, BlockIs DEF TypeInv, AuthoringTypeOK, There
    <3>2. \A b \in copy.children : home'[b] = t
      BY <1>1, <1>3, <3>1 DEF BlocksInv, Listed, Parents, There
    <3>3. t \in Blocks => home'[t] # None
      BY <1>1, <1>3 DEF BlocksInv, Unused, UnusedIn, There
    <3>4. store' = store
      BY <1>3
    <3>. QED
      BY <1>2, <2>2, <3>2, <3>3, <3>4 DEF CopyFits, There
  <2>4. ASSUME NEW i \in DOMAIN call[c].made
        PROVE  RightNode(c, i)'
    <3>. PICK b : b = call[c].made[i]
      OBVIOUS
    <3>1. SUFFICES ASSUME ~ Updated(b)'
                   PROVE  RightNode(c, i)'
      BY <1>2 DEF RightNode
    <3>2. /\ Pending(c, i)' <=> Pending(c, i)
          /\ Finished(c, i)' => Finished(c, i)
      BY <1>2, <1>3 DEF Pending, Finished
    <3>3. store'[b] # None =>
            /\ Pending(c, i) => store'[b].content = Default
            /\ Finished(c, i) => \A f \in Fields \ lost'[b] :
                 store'[b].content[f] = Edited(Default, call[c].nodes[i].edit)[f]
      BY <1>1, <1>3, <1>5, <1>6, <3>1, NodeKept
    <3>4. Pending(c, i) => call'[c].copy.content = Default
      <4>1. CASE call[c].kind = "tree"
        <5>1. Pending(c, i) => b = Target(c)
          BY <1>1, <1>3, <4>1, AtUpdate DEF Pending, Read
        <5>. QED
          BY <1>2, <1>3, <3>3, <5>1 DEF There
      <4>2. CASE call[c].kind # "tree"
        BY <1>1, <1>3, <4>2 DEF CallFits, Placed
      <4>. QED
        BY <4>1, <4>2
    <3>. QED
      BY <1>2, <1>4, <3>2, <3>3, <3>4 DEF RightNode, There
  <2>. QED
    BY <1>2, <2>1, <2>3, <2>4 DEF CallFits
<1>7. lost' \in [Locators -> SUBSET Fields] /\ \A b \in Locators : lost[b] \subseteq lost'[b]
  BY <1>1, <1>3 DEF TypeInv, AuthoringTypeOK
<1>. QED
  BY <1>2, <1>3, <1>4, <1>6, <1>7, CallsOnly

\* A call that makes nothing has nothing to answer for.
LEMMA NothingMade ==
    ASSUME TypeInv, NEW c \in Calls, call[c] # None, call[c].kind # "tree",
           call'[c].made = call[c].made, call'[c].stage # "save"
    PROVE  CallFits(c)'
<1>1. call[c].made = <<>>
  BY CallIs DEF Shape, OtherShape
<1>. QED
  BY <1>1 DEF CallFits, Placed, At

LEMMA RaiseStep ==
    ASSUME AuthoringInv, NEW c \in Calls, Raise(c)
    PROVE  AuthoringInv'
<1>1. TypeInv /\ CallFits(c) /\ call[c] # None
      /\ UNCHANGED <<store, public, home, latest, lost, raced>>
  BY DEF AuthoringInv, Raise, At
<1>2. /\ OwnKeeps(call[c], Failed(c)) /\ Failed(c).made = call[c].made
      /\ Failed(c).stage = "failed"
  BY <1>1, FailedIs DEF Raise
<1>3. /\ CallsTyped' /\ call'[c] = Failed(c) /\ Others(Calls \ {c}, {}, {})
  BY <1>1, <1>2, OneCall DEF Raise, OwnKeeps
<1>4. CallKept(c)
  BY <1>2, <1>3 DEF OwnKeeps, CallKept
<1>5. lost' \in [Locators -> SUBSET Fields] /\ \A b \in Locators : lost[b] \subseteq lost'[b]
  BY <1>1 DEF TypeInv, AuthoringTypeOK
<1>6. HomeKept /\ QuietBut({})
  BY <1>1, <1>5, NoneTouched
<1>7. \A i \in DOMAIN call[c].made :
        ~ Pending(c, i)' /\ (Finished(c, i)' => Finished(c, i))
  BY <1>2, <1>3 DEF Pending, Finished
<1>8. UpdatedGrows => CallFits(c)'
  BY <1>1, <1>2, <1>3, <1>6, <1>7, OwnFits
<1>. QED
  BY <1>1, <1>2, <1>3, <1>4, <1>5, <1>8, CallsOnly

LEMMA RefuseStep ==
    ASSUME AuthoringInv, NEW c \in Calls, Refuse(c)
    PROVE  AuthoringInv'
<1>1. /\ TypeInv /\ CallFits(c) /\ call[c] # None /\ At(c, "save")
      /\ call[c].stage = "save"
      /\ UNCHANGED <<store, public, home, latest, raced>>
  BY DEF AuthoringInv, Refuse, At
<1>2. /\ OwnKeeps(call[c], Done(c)) /\ Done(c).made = call[c].made
      /\ Done(c).stage = Onward(c) /\ Onward(c) \in {"create", "read", "answered"}
  BY <1>1, DoneIs, NextIs
<1>3. /\ CallsTyped' /\ call'[c] = Done(c) /\ Others(Calls \ {c}, {}, {})
  BY <1>1, <1>2, OneCall DEF Refuse, OwnKeeps
<1>4. CallKept(c)
  BY <1>2, <1>3 DEF OwnKeeps, CallKept
<1>5. /\ lost' \in [Locators -> SUBSET Fields]
      /\ \A b \in Locators : lost[b] \subseteq lost'[b]
      /\ call[c].kind = "tree" => lost'[Target(c)] = lost[Target(c)] \cup DOMAIN EditOf(c)
  <2>1. Target(c) \in Locators /\ lost \in [Locators -> SUBSET Fields]
        /\ call[c].kind \in {"tree", "update", "settings"}
    BY <1>1, AtUpdate, CallFields DEF TypeInv, AuthoringTypeOK
  <2>2. call[c].kind # "settings" => DOMAIN EditOf(c) \subseteq Fields
    <3>1. call[c].kind = "tree" => DOMAIN EditOf(c) \subseteq Fields
      BY <1>1, AtUpdate, EditIs
    <3>2. call[c].kind = "update" => DOMAIN EditOf(c) \subseteq Fields
      BY <1>1, AtUpdate, CallFields, EditIs DEF EditOf
    <3>. QED
      BY <2>1, <3>1, <3>2
  <2>3. CASE call[c].kind = "settings"
    BY <2>1, <2>3 DEF Refuse
  <2>4. CASE call[c].kind # "settings"
    <3>1. lost' = [lost EXCEPT ![Target(c)] = @ \cup DOMAIN EditOf(c)]
      BY <2>4 DEF Refuse
    <3>. QED
      BY <2>1, <2>2, <2>4, <3>1
  <2>. QED
    BY <2>3, <2>4
<1>6. HomeKept /\ QuietBut({})
  BY <1>1, <1>5, NoneTouched
<1>7. UpdatedGrows => CallFits(c)'
  <2>1. CASE call[c].kind # "tree"
    BY <1>1, <1>2, <1>3, <2>1, NothingMade
  <2>2. CASE call[c].kind = "tree" /\ UpdatedGrows
    <3>1. /\ Target(c) = call[c].made[Len(call[c].made)]
          /\ EditOf(c) = call[c].nodes[Len(call[c].made)].edit
          /\ Onward(c) \in {"create", "answered"}
          /\ DOMAIN call[c].made = 1..Len(call[c].made) /\ Len(call[c].made) \in Nat
      BY <1>1, <2>2, AtUpdate, NextIs, MadeIn DEF CurrentNode
    <3>2. ASSUME NEW i \in DOMAIN call[c].made, ~ Finished(c, i)
          PROVE  RightNode(c, i)'
      <4>1. Pending(c, i) /\ i = Len(call[c].made)
        BY <1>1, <3>1, <3>2 DEF Finished, Pending
      <4>2. PICK b : b = call[c].made[i]
        OBVIOUS
      <4>3. SUFFICES ASSUME ~ Updated(b)', store'[b] # None
                     PROVE  /\ Finished(c, i)' => \A f \in Fields \ lost'[b] :
                                 store'[b].content[f] =
                                   Edited(Default, call[c].nodes[i].edit)[f]
                            /\ ~ Pending(c, i)'
        BY <1>2, <1>3, <3>1, <4>2 DEF RightNode, There, OwnKeeps, Pending
      <4>4. store'[b].content = Default
        BY <1>1, <1>6, <2>2, <4>1, <4>2, <4>3, NodeKept
      <4>5. lost'[b] = lost[b] \cup DOMAIN call[c].nodes[i].edit
        BY <1>5, <2>2, <3>1, <4>1, <4>2
      <4>6. ~ Pending(c, i)'
        BY <1>2, <1>3, <3>1 DEF Pending
      <4>. QED
        BY <4>4, <4>5, <4>6 DEF Edited
    <3>3. \A i \in DOMAIN call[c].made : ~ Pending(c, i)'
      BY <1>2, <1>3, <3>1 DEF Pending
    <3>. QED
      BY <1>1, <1>2, <1>3, <1>6, <2>2, <3>2, <3>3, OwnFits
  <2>. QED
    BY <2>1, <2>2
<1>. QED
  BY <1>1, <1>2, <1>3, <1>4, <1>5, <1>7, CallsOnly

\* Only a call of update_block discards changes.
LEMMA DiscardIs ==
    ASSUME TypeInv, NEW c \in Calls, Discard(c)
    PROVE  /\ call[c] # None /\ At(c, "save") /\ call[c].stage = "save"
           /\ call[c].kind = "update" /\ Target(c) = call[c].target
           /\ Target(c) \in Locators /\ There(Target(c))
           /\ OwnKeeps(call[c], Done(c)) /\ Done(c).made = call[c].made
           /\ Done(c).stage # "save" /\ call[c].publish = "discard_changes"
           /\ UNCHANGED <<public, home>>
<1>1. /\ call[c] # None /\ At(c, "save") /\ call[c].stage = "save"
      /\ call[c].publish = "discard_changes" /\ There(Target(c))
      /\ UNCHANGED <<public, home>>
  BY DEF Discard, At
<1>2. Shape(call[c]) /\ Target(c) \in Locators
      /\ call[c].kind \in {"tree", "update", "settings"}
  BY <1>1, AtUpdate, CallFields
<1>3. call[c].kind = "update"
  BY <1>1, <1>2 DEF Shape, TreeShape, OtherShape
<1>4. Target(c) = call[c].target
  BY <1>3 DEF Target
<1>5. /\ OwnKeeps(call[c], Done(c)) /\ Done(c).made = call[c].made
      /\ Done(c).stage # "save"
  BY <1>1, DoneIs, NextIs
<1>. QED
  BY <1>1, <1>2, <1>3, <1>4, <1>5

LEMMA DiscardRootStep ==
    ASSUME AuthoringInv, NEW c \in Calls, Discard(c), Target(c) = Root
    PROVE  AuthoringInv'
<1>1. TypeInv
  BY DEF AuthoringInv
<1>2. /\ call[c] # None /\ call[c].kind = "update"
      /\ OwnKeeps(call[c], Done(c)) /\ Done(c).made = call[c].made
      /\ Done(c).stage # "save"
  BY <1>1, DiscardIs
<1>3. /\ UNCHANGED <<store, public, home, latest, lost, raced>>
      /\ Replaces(c, {}, Done(c))
  BY DEF Discard
<1>4. /\ CallsTyped' /\ call'[c] = Done(c) /\ Others(Calls \ {c}, {}, Parts)
  <2>1. call' = [d \in Calls |-> IF d = c THEN Done(c) ELSE Overtaken(d, {}, Parts)]
    BY <1>3 DEF Replaces, Parts
  <2>2. Done(c) \in Call /\ Shape(Done(c)) /\ Parts \in SUBSET Parts
    BY <1>2 DEF OwnKeeps
  <2>. QED
    BY <1>1, <2>1, <2>2, CallsStep
<1>5. CallKept(c) /\ CallFits(c)'
  BY <1>1, <1>2, <1>4, NothingMade DEF OwnKeeps, CallKept
<1>6. lost' \in [Locators -> SUBSET Fields] /\ \A b \in Locators : lost[b] \subseteq lost'[b]
  BY <1>1, <1>3 DEF TypeInv, AuthoringTypeOK
<1>. QED
  BY <1>2, <1>3, <1>4, <1>5, <1>6, CallsOnly

-----------------------------------------------------------------------------
(* Publishing.                                                             *)

\* What a tree of blocks is.
Sound(s) == Blocked(s) /\ Listed(s) /\ UnusedIn(s)

LEMMA SoundAt ==
    ASSUME NEW s, s = [d \in Locators |-> s[d]],
           \A d \in Locators : /\ s[d] \in Block \cup {None}
                               /\ s[d] # None => \A k \in s[d].children : home[k] = d
                               /\ d \in Blocks /\ home[d] = None => s[d] = None
    PROVE  Sound(s)
<1>1. s \in [Locators -> Block \cup {None}]
  OBVIOUS
<1>2. Listed(s)
  BY DEF Listed, Parents
<1>3. UnusedIn(s)
  BY NoneApart DEF UnusedIn
<1>. QED
  BY <1>1, <1>2, <1>3 DEF Sound, Blocked

LEMMA SoundHas ==
    ASSUME NEW s, Sound(s), NEW d \in Locators
    PROVE  /\ s[d] \in Block \cup {None}
           /\ s[d] # None => /\ s[d].children \in SUBSET Blocks
                             /\ \A k \in s[d].children : home[k] = d
           /\ d \in Blocks /\ home[d] = None => s[d] = None
<1>1. s[d] \in Block \cup {None}
  BY DEF Sound, Blocked
<1>2. s[d] # None => s[d].children \in SUBSET Blocks
  BY <1>1, BlockIs
<1>3. s[d] # None => \A k \in s[d].children : home[k] = d
  BY <1>2 DEF Sound, Listed, Parents
<1>. QED
  BY <1>1, <1>2, <1>3 DEF Sound, UnusedIn

LEMMA SoundNow ==
    ASSUME TypeInv, BlocksInv
    PROVE  Sound(store) /\ Sound(public)
BY DEF TypeInv, AuthoringTypeOK, BlocksInv, Unused, Sound, Blocked

LEMMA PublishedIs ==
    ASSUME NEW s, Sound(s), Sound(public), NEW b \in Locators
    PROVE  Sound(Published(s, b))
<1>. DEFINE P == Published(s, b)
<1>1. P = [d \in Locators |-> P[d]]
  BY DEF Published
<1>2. ASSUME NEW d \in Locators
      PROVE  /\ P[d] \in Block \cup {None}
             /\ P[d] # None => \A k \in P[d].children : home[k] = d
             /\ d \in Blocks /\ home[d] = None => P[d] = None
  <2>1. CASE d \in Under(s, b) \ {Root}
    <3>1. P[d] = s[d]
      BY <2>1 DEF Published
    <3>. QED
      BY <3>1, SoundHas
  <2>2. CASE ~ (d \in Under(s, b) \ {Root}) /\ (b = Root \/ d \in Under(public, b))
    <3>1. P[d] = None
      BY <2>2 DEF Published
    <3>. QED
      BY <3>1
  <2>3. CASE /\ ~ (d \in Under(s, b) \ {Root}) /\ ~ (b = Root \/ d \in Under(public, b))
             /\ d \in Parents(s, b) /\ public[d] # None
    <3>1. P[d] = Relisted(public[d], public[d].children \cup {b})
      BY <2>3 DEF Published, Relisted
    <3>2. b \in Blocks /\ public[d] \in Block
      BY <2>3, SoundHas DEF Locators
    <3>3. /\ public[d].children \in SUBSET Blocks
          /\ \A k \in public[d].children : home[k] = d
      BY <2>3, SoundHas
    <3>4. home[b] = d
      BY <2>3, <3>2 DEF Sound, Listed
    <3>5. public[d].children \cup {b} \in SUBSET Blocks
      BY <3>2, <3>3
    <3>6. /\ P[d] \in Block /\ P[d].children = public[d].children \cup {b}
      BY <3>1, <3>2, <3>5, RelistedIs
    <3>7. ~ (d \in Blocks /\ home[d] = None)
      BY <2>3, SoundHas
    <3>. QED
      BY <3>3, <3>4, <3>6, <3>7
  <2>4. CASE /\ ~ (d \in Under(s, b) \ {Root}) /\ ~ (b = Root \/ d \in Under(public, b))
             /\ ~ (d \in Parents(s, b) /\ public[d] # None)
    <3>1. P[d] = public[d]
      BY <2>4 DEF Published
    <3>. QED
      BY <3>1, SoundHas
  <2>. QED
    BY <2>1, <2>2, <2>3, <2>4
<1>. HIDE DEF P
<1>3. Sound(P)
  BY <1>1, <1>2, SoundAt
<1>. QED
  BY <1>3 DEF P

\* A step of nobody's call.
LEMMA FreeStep ==
    ASSUME AuthoringInv, TypeInv', BlocksInv', NEW blocks, NEW parts,
           Others(Calls, blocks, parts), Touches(blocks, parts), HomeKept, QuietBut({})
    PROVE  AuthoringInv'
<1>1. \A d \in Calls : CallKept(d)
  BY OthersKept
<1>2. UpdatedGrows
  BY <1>1, GrowsIs
<1>3. \A d \in Calls : CallFits(d)'
  BY <1>2, TheOthers
<1>4. \A d \in Calls : call'[d] # None => call[d] # None /\ call'[d].made = call[d].made
  BY OthersKept
<1>5. MadeOnce'
  BY <1>4, MadeOnceKept DEF AuthoringInv
<1>. QED
  BY <1>3, <1>5 DEF AuthoringInv

LEMMA PublishStep ==
    ASSUME AuthoringInv, NEW b \in Locators, PublishBlock(b)
    PROVE  AuthoringInv'
<1>1. TypeInv /\ BlocksInv /\ UNCHANGED <<store, home, call, latest, lost, raced>>
      /\ public' = Published(store, b)
  BY DEF AuthoringInv, PublishBlock
<1>2. Sound(public')
  BY <1>1, SoundNow, PublishedIs
<1>3. TypeInv'
  <2>1. Shapes'
    BY <1>1 DEF TypeInv, Shapes
  <2>. QED
    BY <1>1, <1>2, <2>1 DEF TypeInv, AuthoringTypeOK, Sound, Blocked
<1>4. BlocksInv'
  <2>1. Unused' /\ Ranked'
    BY <1>1, <1>2 DEF BlocksInv, Unused, UnusedIn, Ranked, Above, Sound
  <2>2. Listed(store)' /\ Linked' /\ \A d \in Locators : Told(d)'
    BY <1>1 DEF BlocksInv, Listed, Parents, Linked, Told, There
  <2>3. Listed(public)'
    BY <1>1, <1>2 DEF Sound, Listed, Parents
  <2>. QED
    BY <2>1, <2>2, <2>3 DEF BlocksInv
<1>5. Others(Calls, {}, {})
  BY <1>1 DEF Others, SameAs
<1>6. HomeKept /\ Touches({}, {}) /\ QuietBut({})
  BY <1>1, NoneApart DEF HomeKept, Touches, QuietBut, There
<1>. QED
  BY <1>3, <1>4, <1>5, <1>6, FreeStep

-----------------------------------------------------------------------------
(* Deleting.                                                               *)

LEMMA AllOvertaken ==
    ASSUME TypeInv, NEW blocks, NEW parts \in SUBSET Parts,
           call' = [d \in Calls |-> Overtaken(d, blocks, parts)]
    PROVE  CallsTyped' /\ Others(Calls, blocks, parts)
<1>1. \A d \in Calls : call'[d] = Overtaken(d, blocks, parts)
  OBVIOUS
<1>2. Others(Calls, blocks, parts)
  BY <1>1, OvertakenIs DEF Others
<1>3. ASSUME NEW d \in Calls
      PROVE  call'[d] \in Call \cup {None} /\ (call'[d] # None => Shape(call'[d]))
  BY <1>1, OvertakenIs
<1>4. call' \in [Calls -> Call \cup {None}]
  BY <1>3
<1>. QED
  BY <1>2, <1>3, <1>4 DEF CallsTyped, Shapes

\* What is left of the blocks, one by one.
LEMMA DeleteAt ==
    ASSUME Sound(store), NEW b \in Blocks, DeleteBlock(b), NEW d \in Locators
    PROVE  /\ store'[d] \in Block \cup {None}
           /\ store'[d] # None =>
                /\ There(d) /\ d \notin Under(store, b)
                /\ store'[d].content = store[d].content
                /\ \/ store'[d].children = store[d].children
                   \/ /\ d \in Parents(store, b)
                      /\ store'[d].children = store[d].children \ {b}
<1>1. CASE d \in Under(store, b)
  <2>1. store'[d] = None
    BY <1>1 DEF DeleteBlock
  <2>. QED
    BY <2>1
<1>2. CASE d \notin Under(store, b) /\ d \in Parents(store, b)
  <2>1. store'[d] = Relisted(store[d], store[d].children \ {b})
    BY <1>2 DEF DeleteBlock, Relisted
  <2>2. There(d) /\ store[d] \in Block /\ store[d].children \ {b} \in SUBSET Blocks
    BY <1>2, SoundHas DEF Parents, There
  <2>. QED
    BY <1>2, <2>1, <2>2, RelistedIs
<1>3. CASE d \notin Under(store, b) /\ d \notin Parents(store, b)
  <2>1. store'[d] = store[d]
    BY <1>3 DEF DeleteBlock
  <2>. QED
    BY <1>3, <2>1, SoundHas DEF There
<1>. QED
  BY <1>1, <1>2, <1>3

LEMMA DeleteStep ==
    ASSUME AuthoringInv, NEW b \in Blocks, DeleteBlock(b)
    PROVE  AuthoringInv'
<1>1. TypeInv /\ BlocksInv /\ UNCHANGED <<public, home, latest, lost, raced>>
      /\ Sound(store) /\ Sound(public)
  BY SoundNow DEF AuthoringInv, DeleteBlock
<1>2. \A d \in Locators :
        /\ store'[d] \in Block \cup {None}
        /\ store'[d] # None =>
             /\ There(d) /\ d \notin Under(store, b)
             /\ store'[d].content = store[d].content
             /\ \/ store'[d].children = store[d].children
                \/ /\ d \in Parents(store, b)
                   /\ store'[d].children = store[d].children \ {b}
  BY <1>1, DeleteAt
<1>3. store' = [d \in Locators |-> store'[d]]
  BY DEF DeleteBlock
<1>4. Sound(store')
  <2>1. ASSUME NEW d \in Locators
        PROVE  /\ store'[d] # None => \A k \in store'[d].children : home[k] = d
               /\ d \in Blocks /\ home[d] = None => store'[d] = None
    BY <1>1, <1>2, SoundHas DEF There
  <2>. QED
    BY <1>2, <1>3, <2>1, SoundAt
<1>5. CallsTyped' /\ Others(Calls, Parents(store, b), {"children"})
  <2>1. call' = [d \in Calls |-> Overtaken(d, Parents(store, b), {"children"})]
    BY DEF DeleteBlock
  <2>2. {"children"} \in SUBSET Parts
    BY DEF Parts
  <2>. QED
    BY <1>1, <2>1, <2>2, AllOvertaken
<1>6. TypeInv'
  BY <1>1, <1>4, <1>5 DEF TypeInv, AuthoringTypeOK, CallsTyped, Sound, Blocked
<1>7. BlocksInv'
  <2>1. Unused' /\ Ranked' /\ Listed(public)'
    BY <1>1, <1>4 DEF BlocksInv, Unused, UnusedIn, Ranked, Above, Sound, Listed, Parents
  <2>2. Listed(store)'
    BY <1>1, <1>4 DEF Sound, Listed, Parents
  <2>3. \A d \in Locators : Told(d)'
    BY <1>1, <1>2 DEF BlocksInv, Told, There
  <2>4. ASSUME NEW k \in Blocks, store'[k] # None, home[k] \notin raced
        PROVE  store'[home[k]] # None /\ k \in store'[home[k]].children
               /\ home[k] \in Locators
    <3>1. /\ There(k) /\ k \notin Under(store, b) /\ k \in Locators
      BY <1>2, <2>4, NoneApart
    <3>2. /\ home[k] \in Parents(store, k) /\ home[k] \in Locators
          /\ There(home[k]) /\ k \in store[home[k]].children
      BY <1>1, <2>4, <3>1 DEF BlocksInv, Linked, Parents, There
    <3>3. k # b /\ home[k] \notin Under(store, b)
      BY <3>1, <3>2, UnderIs, NoneApart DEF Closed, There
    <3>4. store'[home[k]] # None
      <4>1. CASE home[k] \in Parents(store, b)
        <5>1. store'[home[k]] = Relisted(store[home[k]], store[home[k]].children \ {b})
          BY <3>2, <3>3, <4>1 DEF DeleteBlock, Relisted
        <5>2. store[home[k]] \in Block /\ store[home[k]].children \ {b} \in SUBSET Blocks
          BY <1>1, <3>2, SoundHas DEF There
        <5>. QED
          BY <5>1, <5>2, RelistedIs
      <4>2. CASE home[k] \notin Parents(store, b)
        BY <3>2, <3>3, <4>2 DEF DeleteBlock, There
      <4>. QED
        BY <4>1, <4>2
    <3>. QED
      BY <1>2, <3>2, <3>3, <3>4
  <2>5. Linked'
    BY <1>1, <2>4 DEF Linked, There, Parents
  <2>. QED
    BY <2>1, <2>2, <2>3, <2>5 DEF BlocksInv
<1>8. HomeKept /\ Touches(Parents(store, b), {"children"}) /\ QuietBut({})
  BY <1>1, <1>2, NoneApart DEF HomeKept, Touches, QuietBut, There
<1>. QED
  BY <1>5, <1>6, <1>7, <1>8, FreeStep

-----------------------------------------------------------------------------
(* Creating.                                                               *)

\* c makes block b under p.
Creates(c, b, p) ==
    /\ home[b] = None
    /\ home' = [home EXCEPT ![b] = p]
    /\ store' = [store EXCEPT ![b] = [content |-> Default, children |-> {}],
                              ![p].children = @ \cup {b}]
    /\ UNCHANGED <<public, latest, lost, raced>>

LEMMA CreatesAt ==
    ASSUME TypeInv, BlocksInv, NEW c \in Calls, NEW b \in Blocks, NEW p \in Locators,
           There(p), Creates(c, b, p)
    PROVE  /\ p # b /\ home'[b] = p /\ \A k \in Blocks \ {b} : home'[k] = home[k]
           /\ store[b] = None
           /\ store'[b] \in Block /\ store'[b].content = Default
           /\ store'[b].children = {}
           /\ store'[p] \in Block /\ store'[p].content = store[p].content
           /\ store'[p].children = store[p].children \cup {b}
           /\ \A d \in Locators \ {b, p} : store'[d] = store[d]
           /\ home' \in [Blocks -> Locators \cup {None}]
           /\ store' \in [Locators -> Block \cup {None}]
<1>1. /\ store \in [Locators -> Block \cup {None}]
      /\ home \in [Blocks -> Locators \cup {None}]
      /\ b \in Locators
  BY NoneApart DEF TypeInv, AuthoringTypeOK
<1>2. store[b] = None /\ p # b
  BY DEF BlocksInv, Unused, UnusedIn, Creates, There
<1>. DEFINE new == [content |-> Default, children |-> {}]
<1>3. new \in Block /\ new.content = Default /\ new.children = {}
  BY NewBlockIs, DefaultType
<1>. HIDE DEF new
<1>4. store[p] \in Block
  BY <1>1 DEF There
<1>5. /\ store'[b] = new
      /\ store'[p] = Relisted(store[p], store[p].children \cup {b})
      /\ \A d \in Locators \ {b, p} : store'[d] = store[d]
      /\ store' = [d \in Locators |-> store'[d]]
  <2>1. store' = [store EXCEPT ![b] = new, ![p].children = @ \cup {b}]
    BY DEF Creates, new
  <2>. QED
    BY <1>1, <1>2, <2>1 DEF Relisted
<1>6. store[p].children \cup {b} \in SUBSET Blocks
  BY <1>4, BlockIs
<1>7. /\ store'[p] = Relisted(store[p], store[p].children \cup {b})
      /\ Relisted(store[p], store[p].children \cup {b}) \in Block
      /\ store'[b] = new /\ \A d \in Locators \ {b, p} : store'[d] = store[d]
  BY <1>4, <1>5, <1>6, RelistedIs
<1>9. store' \in [Locators -> Block \cup {None}]
  <2>1. \A d \in Locators : store'[d] \in Block \cup {None}
    BY <1>1, <1>3, <1>7
  <2>. QED
    BY <1>5, <2>1
<1>8. /\ home'[b] = p /\ \A k \in Blocks \ {b} : home'[k] = home[k]
      /\ home' \in [Blocks -> Locators \cup {None}]
  BY <1>1 DEF Creates
<1>. QED
  BY <1>2, <1>3, <1>4, <1>6, <1>7, <1>8, <1>9, RelistedIs

LEMMA CreatesRanked ==
    ASSUME Ranked, UnusedIn(store), NEW b \in Blocks, NEW p \in Locators, There(p), p # b,
           home[b] = None, home'[b] = p, \A k \in Blocks \ {b} : home'[k] = home[k]
    PROVE  Ranked'
<1>1. ASSUME NEW S \in SUBSET Locators, Above(S)
      PROVE  b \notin S /\ \A k \in S \cap Blocks : home'[k] \in S
  BY <1>1, NoneApart DEF Above
<1>2. \E S \in SUBSET Locators : p \in S /\ b \notin S /\ \A k \in S \cap Blocks : home'[k] \in S
  <2>1. CASE p = Root
    <3>1. {Root} \in SUBSET Locators /\ {Root} \cap Blocks = {} /\ b \notin {Root}
      BY NoneApart
    <3>. QED
      BY <2>1, <3>1
  <2>2. CASE p # Root
    <3>1. p \in Blocks /\ home[p] # None
      BY <2>2 DEF Locators, UnusedIn, There
    <3>2. PICK S \in SUBSET Locators : home[p] \in S /\ Above(S)
      BY <3>1 DEF Ranked
    <3>3. b \notin S /\ \A k \in S \cap Blocks : home'[k] \in S
      BY <1>1, <3>2
    <3>4. home'[p] \in S
      BY <3>1, <3>2
    <3>5. /\ S \cup {p} \in SUBSET Locators /\ p \in S \cup {p} /\ b \notin S \cup {p}
          /\ \A k \in (S \cup {p}) \cap Blocks : home'[k] \in S \cup {p}
      BY <3>3, <3>4
    <3>. QED
      BY <3>5
  <2>. QED
    BY <2>1, <2>2
<1>3. ASSUME NEW k \in Blocks, home'[k] # None
      PROVE  \E S \in SUBSET Locators :
               home'[k] \in S /\ k \notin S /\ \A e \in S \cap Blocks : home'[e] \in S
  <2>1. CASE k = b
    BY <1>2, <2>1
  <2>2. CASE k # b
    <3>1. PICK S \in SUBSET Locators : home[k] \in S /\ k \notin S /\ Above(S)
      BY <1>3, <2>2 DEF Ranked
    <3>. QED
      BY <1>1, <2>2, <3>1
  <2>. QED
    BY <2>1, <2>2
<1>. QED
  BY <1>3 DEF Ranked, Above

LEMMA CreatesBlocks ==
    ASSUME TypeInv, BlocksInv, NEW c \in Calls, NEW b \in Blocks, NEW p \in Locators,
           There(p), Creates(c, b, p)
    PROVE  /\ BlocksInv' /\ HomeKept /\ Touches({p}, {"children"}) /\ QuietBut({})
           /\ home'[b] = p /\ store'[b].content = Default
<1>1. /\ p # b /\ home'[b] = p /\ \A k \in Blocks \ {b} : home'[k] = home[k]
      /\ store[b] = None
      /\ store'[b] \in Block /\ store'[b].content = Default
      /\ store'[b].children = {}
      /\ store'[p] \in Block /\ store'[p].content = store[p].content
      /\ store'[p].children = store[p].children \cup {b}
      /\ \A d \in Locators \ {b, p} : store'[d] = store[d]
  BY CreatesAt
<1>2. /\ home[b] = None /\ b \in Locators /\ p # None /\ store[p] # None
      /\ UNCHANGED <<public, latest, lost, raced>>
  BY NoneApart DEF Creates, There
<1>3. Unused'
  <2>1. \A k \in Blocks : home'[k] = None => k # b /\ k # p /\ home[k] = None
    BY <1>1, <1>2 DEF BlocksInv, Unused, UnusedIn
  <2>. QED
    BY <1>1, <1>2, <2>1, NoneApart DEF BlocksInv, Unused, UnusedIn
<1>4. Ranked'
  BY <1>1, <1>2, CreatesRanked DEF BlocksInv, Unused
<1>5. Listed(store)'
  <2>1. ASSUME NEW q \in Locators, NEW k \in Blocks, store'[q] # None,
               k \in store'[q].children
        PROVE  home'[k] = q
    <3>1. CASE q = p /\ k = b
      BY <1>1, <3>1
    <3>2. CASE ~ (q = p /\ k = b)
      <4>1. q # b
        BY <1>1, <2>1
      <4>2. store[q] # None /\ k \in store[q].children
        BY <1>1, <1>2, <2>1, <3>2, <4>1
      <4>3. home[k] = q
        BY <4>2 DEF BlocksInv, Listed, Parents
      <4>4. k # b
        BY <1>2, <4>3, NoneApart
      <4>. QED
        BY <1>1, <4>3, <4>4
    <3>. QED
      BY <3>1, <3>2
  <2>. QED
    BY <2>1 DEF Listed, Parents
<1>6. Listed(public)'
  <2>1. ASSUME NEW q \in Locators, NEW k \in Blocks, q \in Parents(public, k)
        PROVE  home'[k] = q
    BY <1>1, <1>2, <2>1, NoneApart DEF BlocksInv, Listed
  <2>. QED
    BY <1>2, <2>1 DEF Listed, Parents
<1>7. Linked'
  <2>1. ASSUME NEW k \in Blocks, store'[k] # None, home'[k] \notin raced
        PROVE  /\ home'[k] \in Locators /\ store'[home'[k]] # None
               /\ k \in store'[home'[k]].children
    <3>1. CASE k = b
      BY <1>1, <3>1, BlockIs
    <3>2. CASE k # b
      <4>1. There(k) /\ home'[k] = home[k]
        BY <1>1, <1>2, <2>1, <3>2, NoneApart DEF There
      <4>2. /\ home[k] \in Locators /\ store[home[k]] # None
            /\ k \in store[home[k]].children
        BY <2>1, <4>1 DEF BlocksInv, Linked, Parents
      <4>3. home[k] # b
        BY <1>1, <4>2
      <4>4. CASE home[k] = p
        BY <1>1, <4>1, <4>2, <4>4, BlockIs
      <4>5. CASE home[k] # p
        BY <1>1, <4>1, <4>2, <4>3, <4>5
      <4>. QED
        BY <4>4, <4>5
    <3>. QED
      BY <3>1, <3>2
  <2>. QED
    BY <1>2, <2>1 DEF Linked, There, Parents
<1>8. \A d \in Locators : Told(d)'
  <2>1. ASSUME NEW d \in Locators, store'[d] # None
        PROVE  \A f \in Fields \ lost'[d] : store'[d].content[f] = latest'[d][f]
    <3>1. CASE d = b
      BY <1>1, <1>2, <3>1 DEF BlocksInv, Unused
    <3>2. CASE d # b
      <4>1. There(d) /\ store'[d].content = store[d].content
        BY <1>1, <1>2, <2>1, <3>2 DEF There
      <4>2. Told(d)
        BY DEF BlocksInv
      <4>. QED
        BY <1>2, <4>1, <4>2 DEF Told
    <3>. QED
      BY <3>1, <3>2
  <2>. QED
    BY <2>1 DEF Told, There
<1>9. HomeKept /\ Touches({p}, {"children"}) /\ QuietBut({})
  <2>1. \A d \in Locators \ {b} : store'[d] # None =>
          /\ There(d) /\ store'[d].content = store[d].content
          /\ store'[d].children = store[d].children \/ d = p
    BY <1>1, <1>2 DEF There
  <2>2. HomeKept
    BY <1>1, <1>2 DEF HomeKept
  <2>3. Touches({p}, {"children"})
    BY <1>2, <2>1 DEF Touches
  <2>4. QuietBut({})
    BY <1>2, <2>1, NoneApart DEF QuietBut
  <2>. QED
    BY <2>2, <2>3, <2>4
<1>. QED
  BY <1>1, <1>3, <1>4, <1>5, <1>6, <1>7, <1>8, <1>9 DEF BlocksInv

LEMMA CreateStep ==
    ASSUME AuthoringInv, NEW c \in Calls, Create(c)
    PROVE  AuthoringInv'
<1>1. TypeInv /\ BlocksInv /\ CallFits(c)
  BY DEF AuthoringInv
<1>. DEFINE k == call[c]
<1>2. /\ k # None /\ k \in Call /\ TreeShape(k) /\ k.kind = "tree" /\ k.stage = "create"
      /\ k.made \in Seq(Blocks) /\ Len(k.made) \in Nat
      /\ Position(c) = Len(k.made) + 1 /\ Position(c) \in 1..Len(k.nodes)
      /\ CurrentNode(c).up \in Nat /\ CurrentNode(c).up < Position(c)
      /\ ParentOf(c) \in Locators /\ There(ParentOf(c))
  BY <1>1, AtCreate DEF Create
<1>3. PICK p \in Locators : p = ParentOf(c)
  BY <1>2
<1>4. PICK b \in Blocks :
        /\ Creates(c, b, p)
        /\ call' = [d \in Calls |->
              IF d = c
              THEN [call[c] EXCEPT !.made = Append(@, b),
                                   !.stage = IF CurrentNode(c).edit = <<>>
                                             THEN AfterNode(c, Position(c)) ELSE "read"]
              ELSE Overtaken(d, {p}, {"children"})]
  BY <1>3 DEF Create, Creates
<1>5. /\ OwnKeeps(k, call'[c]) /\ call'[c].made = Append(k.made, b)
      /\ call'[c].stage \in IF CurrentNode(c).edit = <<>>
                            THEN {"create", "answered"} ELSE {"read"}
      /\ CallsTyped' /\ Others(Calls \ {c}, {p}, {"children"})
  <2>1. PICK n : n = [call[c] EXCEPT !.made = Append(@, b),
                                     !.stage = IF CurrentNode(c).edit = <<>>
                                               THEN AfterNode(c, Position(c)) ELSE "read"]
    OBVIOUS
  <2>2. /\ OwnKeeps(k, n) /\ n.made = Append(k.made, b)
        /\ n.stage \in IF CurrentNode(c).edit = <<>>
                       THEN {"create", "answered"} ELSE {"read"}
    <3>1. At(c, "create")
      BY DEF Create
    <3>. HIDE DEF k
    <3>2. /\ OwnKeeps(call[c], n) /\ n.made = Append(call[c].made, b)
          /\ n.stage \in IF CurrentNode(c).edit = <<>>
                         THEN {"create", "answered"} ELSE {"read"}
      BY <1>1, <2>1, <3>1, MadeIs, ZenonT(30)
    <3>. QED
      BY <3>2 DEF k
  <2>3. call' = [d \in Calls |-> IF d = c THEN n ELSE Overtaken(d, {p}, {"children"})]
    BY <1>4, <2>1
  <2>4. n \in Call /\ Shape(n) /\ {"children"} \in SUBSET Parts
    BY <2>2 DEF OwnKeeps, Parts
  <2>5. CallsTyped' /\ call'[c] = n /\ Others(Calls \ {c}, {p}, {"children"})
    BY <1>1, <2>3, <2>4, CallsStep
  <2>. QED
    BY <2>2, <2>5
<1>6. /\ BlocksInv' /\ HomeKept /\ Touches({p}, {"children"}) /\ QuietBut({})
      /\ home'[b] = p /\ store'[b].content = Default
  BY <1>1, <1>2, <1>3, <1>4, CreatesBlocks
<1>7. TypeInv'
  <2>1. /\ home' \in [Blocks -> Locators \cup {None}]
        /\ store' \in [Locators -> Block \cup {None}]
    BY <1>1, <1>2, <1>3, <1>4, CreatesAt
  <2>2. UNCHANGED <<public, latest, lost, raced>>
    BY <1>4 DEF Creates
  <2>. QED
    BY <1>1, <1>5, <2>1, <2>2 DEF TypeInv, AuthoringTypeOK, CallsTyped
<1>8. CallKept(c) /\ \A d \in Calls : CallKept(d)
  <2>1. CallKept(c)
    BY <1>5 DEF OwnKeeps, CallKept
  <2>. QED
    BY <1>5, <2>1, OthersKept
<1>9. UpdatedGrows
  BY <1>6, <1>8, GrowsIs
<1>9a. PICK len \in Nat : len = Len(k.made)
  BY <1>2
<1>10. /\ DOMAIN call'[c].made = 1..(len + 1) /\ Len(call'[c].made) = len + 1
       /\ call'[c].made[len + 1] = b
       /\ \A i \in 1..len : call'[c].made[i] = k.made[i]
       /\ DOMAIN k.made = 1..len
  BY <1>2, <1>5, <1>9a, AppendProperties
<1>11. MadeOnce'
  <2>1. \A d \in Calls : call[d] # None =>
          \A i \in DOMAIN call[d].made : call[d].made[i] # b
    <3>1. \A d \in Calls : call[d] # None =>
            \A i \in DOMAIN call[d].made : home[call[d].made[i]] # None
      BY WantedIn DEF AuthoringInv, CallFits
    <3>. QED
      BY <1>4, <3>1 DEF Creates
  <2>2. \A d \in Calls \ {c} : call'[d] # None =>
          call[d] # None /\ call'[d].made = call[d].made
    BY <1>5, OthersKept
  <2>3. ASSUME NEW d \in Calls, NEW e \in Calls, call'[d] # None, call'[e] # None,
               NEW i \in DOMAIN call'[d].made, NEW j \in DOMAIN call'[e].made,
               call'[d].made[i] = call'[e].made[j]
        PROVE  d = e /\ i = j
    <3>1. \A x, y \in Calls : call[x] # None /\ call[y] # None =>
            \A u \in DOMAIN call[x].made, v \in DOMAIN call[y].made :
              call[x].made[u] = call[y].made[v] => x = y /\ u = v
      BY DEF AuthoringInv, MadeOnce
    <3>2. ASSUME NEW x \in Calls, call'[x] # None, NEW u \in DOMAIN call'[x].made
          PROVE  \/ /\ call[x] # None /\ u \in DOMAIN call[x].made
                    /\ call'[x].made[u] = call[x].made[u]
                 \/ x = c /\ u = len + 1 /\ call'[x].made[u] = b
      <4>1. CASE x = c
        <5>1. u \in 1..len \/ u = len + 1
          BY <1>9a, <1>10, <3>2, <4>1
        <5>. QED
          BY <1>2, <1>10, <4>1, <5>1
      <4>2. CASE x # c
        BY <2>2, <3>2, <4>2
      <4>. QED
        BY <4>1, <4>2
    <3>3. \/ /\ call[d] # None /\ i \in DOMAIN call[d].made
             /\ call'[d].made[i] = call[d].made[i]
          \/ d = c /\ i = len + 1 /\ call'[d].made[i] = b
      BY <2>3, <3>2
    <3>4. \/ /\ call[e] # None /\ j \in DOMAIN call[e].made
             /\ call'[e].made[j] = call[e].made[j]
          \/ e = c /\ j = len + 1 /\ call'[e].made[j] = b
      BY <2>3, <3>2
    <3>. QED
      BY <2>1, <2>3, <3>1, <3>3, <3>4
  <2>. QED
    BY <2>3 DEF MadeOnce
<1>12. Placed(c)'
  <2>1. call'[c].kind = "tree" /\ call'[c].target = k.target /\ call'[c].nodes = k.nodes
    BY <1>2, <1>9a, <1>5 DEF OwnKeeps
  <2>2. ASSUME NEW i \in 1..len
        PROVE  home'[call'[c].made[i]] = Wanted(c, i)'
    <3>1. /\ home[k.made[i]] = Wanted(c, i) /\ home[k.made[i]] # None
          /\ k.nodes[i].up # 0 => k.nodes[i].up \in 1..len
          /\ k.made[i] \in Blocks
      BY <1>1, <1>2, <1>9a, <1>10, WantedIn, MadeIn DEF CallFits
    <3>2. Wanted(c, i)' = Wanted(c, i)
      BY <1>10, <2>1, <3>1 DEF Wanted
    <3>. QED
      BY <1>6, <1>10, <3>1, <3>2 DEF HomeKept
  <2>3. home'[call'[c].made[len + 1]] = Wanted(c, len + 1)'
    <3>1. CurrentNode(c) = k.nodes[len + 1]
      BY <1>2, <1>9a DEF CurrentNode
    <3>2. k.nodes[len + 1].up # 0 => k.nodes[len + 1].up \in 1..len
      BY <1>2, <1>9a, <3>1
    <3>3. Wanted(c, len + 1)' = ParentOf(c)
      <4>1. Wanted(c, len + 1)' = LET up == call'[c].nodes[len + 1].up
                                  IN IF up = 0 THEN call'[c].target ELSE call'[c].made[up]
        BY DEF Wanted
      <4>. QED
        BY <1>10, <2>1, <3>1, <3>2, <4>1 DEF ParentOf
    <3>. QED
      BY <1>3, <1>6, <1>10, <3>3
  <2>4. \A i \in 1..(len + 1) : i \in 1..len \/ i = len + 1
    BY <1>2, <1>9a
  <2>. QED
    BY <1>10, <2>1, <2>2, <2>3, <2>4 DEF Placed
<1>13. ASSUME NEW i \in 1..len
       PROVE  RightNode(c, i)'
  <2>1. PICK m : m = k.made[i]
    OBVIOUS
  <2>2. ~ Pending(c, i)' /\ Finished(c, i) /\ call'[c].nodes = k.nodes
        /\ call'[c].made[i] = m /\ i \in DOMAIN k.made
    BY <1>2, <1>9a, <1>5, <1>10, <2>1 DEF Pending, Finished, OwnKeeps
  <2>3. SUFFICES ASSUME ~ Updated(m)'
                 PROVE  RightNode(c, i)'
    BY <2>2 DEF RightNode
  <2>4. store'[m] # None =>
          \A f \in Fields \ lost'[m] :
            store'[m].content[f] = Edited(Default, k.nodes[i].edit)[f]
    BY <1>1, <1>2, <1>9a, <1>6, <1>9, <2>1, <2>2, <2>3, NodeKept
  <2>. QED
    BY <2>2, <2>4 DEF RightNode, There
<1>14. RightNode(c, len + 1)'
  <2>1. /\ call'[c].nodes = k.nodes /\ ~ At(c, "save")'
        /\ CurrentNode(c) = k.nodes[len + 1]
    BY <1>2, <1>9a, <1>5 DEF OwnKeeps, At, CurrentNode
  <2>2. Finished(c, len + 1)' => k.nodes[len + 1].edit = <<>>
    BY <1>2, <1>9a, <1>5, <1>10, <2>1 DEF Finished
  <2>. QED
    BY <1>6, <1>10, <2>1, <2>2, NoEditIs DEF RightNode, There
<1>15. CallFits(c)'
  <2>1. \A i \in 1..(len + 1) : RightNode(c, i)'
    <3>1. \A i \in 1..(len + 1) : i \in 1..len \/ i = len + 1
      BY <1>2, <1>9a
    <3>. QED
      BY <1>13, <1>14, <3>1
  <2>2. ~ At(c, "save")'
    BY <1>5 DEF At
  <2>. QED
    BY <1>10, <1>12, <2>1, <2>2 DEF CallFits
<1>. QED
  BY <1>5, <1>6, <1>7, <1>9, <1>11, <1>15, AnyStep

-----------------------------------------------------------------------------
(* Saving.                                                                 *)

LEMMA BlocksNow ==
    ASSUME BlocksInv, home' = home, Sound(store'), Sound(public'),
           \A b \in Blocks : home[b] = None => latest'[b] = Default,
           Linked', \A b \in Locators : Told(b)'
    PROVE  BlocksInv'
<1>1. Ranked'
  BY DEF BlocksInv, Ranked, Above
<1>2. Unused' /\ Listed(store)' /\ Listed(public)'
  BY DEF Sound, Unused, UnusedIn, Listed, Parents
<1>. QED
  BY <1>1, <1>2 DEF BlocksInv

\* What the block is, and what is said of it.
LEMMA SaveAt ==
    ASSUME TypeInv, NEW c \in Calls, CallFits(c), SaveBlock(c)
    PROVE  /\ call[c] # None /\ At(c, "save") /\ call[c].stage = "save"
           /\ Target(c) \in Locators /\ There(Target(c))
           /\ call[c].copy \in Block /\ CopyFits(c)
           /\ \A f \in DOMAIN EditOf(c) : EditOf(c)[f] \in Values
           /\ ToSave(c) \in Content
           /\ Saved(c)[Target(c)] \in Block
           /\ Saved(c)[Target(c)].content = ToSave(c)
           /\ Saved(c)[Target(c)].children = call[c].copy.children
           /\ \A d \in Locators \ {Target(c)} : Saved(c)[d] = store[d]
           /\ Saved(c) = [d \in Locators |-> Saved(c)[d]]
           /\ store' = Saved(c) /\ home' = home
<1>1. /\ call[c] # None /\ At(c, "save") /\ call[c].stage = "save"
      /\ There(Target(c)) /\ store' = Saved(c) /\ home' = home
  BY DEF SaveBlock, At
<1>2. /\ Target(c) \in Locators /\ Shape(call[c])
      /\ \A f \in DOMAIN EditOf(c) : EditOf(c)[f] \in Values
  BY <1>1, AtUpdate
<1>3. call[c].copy \in Block /\ CopyFits(c)
  BY <1>1, <1>2 DEF Shape, CallFits
<1>4. call[c].copy.content \in Content /\ call[c].copy.children \in SUBSET Blocks
  BY <1>3, BlockIs
<1>5. ToSave(c) \in Content
  BY <1>2, <1>4, EditedType DEF ToSave
<1>. DEFINE new == [content |-> ToSave(c), children |-> call[c].copy.children]
<1>6. new \in Block /\ new.content = ToSave(c) /\ new.children = call[c].copy.children
  BY <1>4, <1>5, NewBlockIs
<1>7. Saved(c) = [store EXCEPT ![Target(c)] = new]
  BY DEF Saved
<1>. HIDE DEF new
<1>8. /\ Saved(c)[Target(c)] = new
      /\ \A d \in Locators \ {Target(c)} : Saved(c)[d] = store[d]
      /\ Saved(c) = [d \in Locators |-> Saved(c)[d]]
  BY <1>2, <1>7 DEF TypeInv, AuthoringTypeOK
<1>. QED
  BY <1>1, <1>2, <1>3, <1>5, <1>6, <1>8

LEMMA SavedSound ==
    ASSUME TypeInv, BlocksInv, NEW c \in Calls, CallFits(c), SaveBlock(c)
    PROVE  Sound(Saved(c))
<1>1. /\ Target(c) \in Locators /\ There(Target(c)) /\ CopyFits(c)
      /\ Saved(c)[Target(c)] \in Block
      /\ Saved(c)[Target(c)].children = call[c].copy.children
      /\ \A d \in Locators \ {Target(c)} : Saved(c)[d] = store[d]
      /\ Saved(c) = [d \in Locators |-> Saved(c)[d]]
  BY SaveAt
<1>. DEFINE s == Saved(c)
<1>. HIDE DEF s
<1>2. ASSUME NEW d \in Locators
      PROVE  /\ s[d] \in Block \cup {None}
             /\ s[d] # None => \A k \in s[d].children : home[k] = d
             /\ d \in Blocks /\ home[d] = None => s[d] = None
  <2>1. CASE d = Target(c)
    BY <1>1, <2>1 DEF s, CopyFits
  <2>2. CASE d # Target(c)
    <3>1. s[d] = store[d]
      BY <1>1, <2>2 DEF s
    <3>. QED
      BY <3>1, SoundNow, SoundHas
  <2>. QED
    BY <2>1, <2>2
<1>3. Sound(s)
  BY <1>1, <1>2, SoundAt DEF s
<1>. QED
  BY <1>3 DEF s

LEMMA SaveTypes ==
    ASSUME TypeInv, NEW c \in Calls, CallFits(c), SaveBlock(c)
    PROVE  /\ latest' \in [Locators -> Content]
           /\ lost' \in [Locators -> SUBSET Fields]
           /\ raced' \in SUBSET Locators
           /\ latest'[Target(c)] = Edited(latest[Target(c)], EditOf(c))
           /\ lost'[Target(c)] =
                (IF "content" \in call[c].overlapped THEN Fields ELSE lost[Target(c)])
                   \ DOMAIN EditOf(c)
           /\ \A d \in Locators \ {Target(c)} : latest'[d] = latest[d] /\ lost'[d] = lost[d]
<1>1. /\ Target(c) \in Locators /\ \A f \in DOMAIN EditOf(c) : EditOf(c)[f] \in Values
  BY SaveAt
<1>2. /\ latest \in [Locators -> Content] /\ lost \in [Locators -> SUBSET Fields]
      /\ raced \in SUBSET Locators
  BY DEF TypeInv, AuthoringTypeOK
<1>3. Edited(latest[Target(c)], EditOf(c)) \in Content
  BY <1>1, <1>2, EditedType
<1>4. /\ latest' = [latest EXCEPT ![Target(c)] = Edited(@, EditOf(c))]
      /\ lost' = [lost EXCEPT ![Target(c)] =
                    (IF "content" \in call[c].overlapped THEN Fields ELSE @)
                      \ DOMAIN EditOf(c)]
      /\ raced' \in {raced, raced \cup {Target(c)}}
  BY DEF SaveBlock
<1>. QED
  BY <1>1, <1>2, <1>3, <1>4

LEMMA SaveBlocks ==
    ASSUME TypeInv, BlocksInv, NEW c \in Calls, CallFits(c), SaveBlock(c), Sound(public')
    PROVE  BlocksInv'
<1>. DEFINE t == Target(c)
<1>1. /\ t \in Locators /\ There(t) /\ CopyFits(c) /\ home' = home
      /\ store'[t] \in Block /\ store'[t].content = ToSave(c)
      /\ store'[t].children = call[c].copy.children
      /\ \A d \in Locators \ {t} : store'[d] = store[d]
  BY SaveAt
<1>2. /\ latest'[t] = Edited(latest[t], EditOf(c))
      /\ lost'[t] = (IF "content" \in call[c].overlapped THEN Fields ELSE lost[t])
                       \ DOMAIN EditOf(c)
      /\ \A d \in Locators \ {t} : latest'[d] = latest[d] /\ lost'[d] = lost[d]
      /\ raced' = IF "children" \in call[c].overlapped THEN raced \cup {t} ELSE raced
  BY SaveTypes DEF SaveBlock
<1>3. Sound(store')
  BY SavedSound, SaveAt
<1>4. \A b \in Blocks : home[b] = None => latest'[b] = Default
  BY <1>1, <1>2, NoneApart DEF BlocksInv, Unused, UnusedIn, There
<1>5. Linked'
  <2>1. ASSUME NEW k \in Blocks, store'[k] # None, home[k] \notin raced'
        PROVE  /\ home[k] \in Locators /\ store'[home[k]] # None
               /\ k \in store'[home[k]].children
    <3>1. There(k) /\ home[k] \notin raced
      BY <1>1, <1>2, <2>1, NoneApart DEF There
    <3>2. /\ home[k] \in Locators /\ store[home[k]] # None
          /\ k \in store[home[k]].children
      BY <3>1 DEF BlocksInv, Linked, Parents
    <3>3. CASE home[k] = t
      <4>1. "children" \notin call[c].overlapped
        BY <1>2, <2>1, <3>3
      <4>. QED
        BY <1>1, <3>2, <3>3, <4>1, BlockIs DEF CopyFits
    <3>4. CASE home[k] # t
      BY <1>1, <3>2, <3>4
    <3>. QED
      BY <3>3, <3>4
  <2>. QED
    BY <1>1, <2>1 DEF Linked, There, Parents
<1>6. \A d \in Locators : Told(d)'
  <2>1. ASSUME NEW d \in Locators, store'[d] # None, NEW f \in Fields \ lost'[d]
        PROVE  store'[d].content[f] = latest'[d][f]
    <3>1. CASE d = t
      <4>1. store'[d].content[f] = IF f \in DOMAIN EditOf(c) THEN EditOf(c)[f]
                                   ELSE call[c].copy.content[f]
        BY <1>1, <3>1 DEF ToSave, Edited
      <4>2. latest'[d][f] = IF f \in DOMAIN EditOf(c) THEN EditOf(c)[f] ELSE latest[t][f]
        BY <1>2, <3>1 DEF Edited
      <4>3. CASE f \in DOMAIN EditOf(c)
        BY <4>1, <4>2, <4>3
      <4>4. CASE f \notin DOMAIN EditOf(c)
        <5>1. "content" \notin call[c].overlapped /\ f \in Fields \ lost[t]
          BY <1>2, <2>1, <3>1, <4>4
        <5>2. call[c].copy.content = store[t].content
          BY <1>1, <5>1 DEF CopyFits
        <5>3. store[t].content[f] = latest[t][f]
          BY <1>1, <5>1 DEF BlocksInv, Told
        <5>. QED
          BY <4>1, <4>2, <4>4, <5>2, <5>3
      <4>. QED
        BY <4>3, <4>4
    <3>2. CASE d # t
      <4>1. store'[d] = store[d] /\ latest'[d] = latest[d] /\ lost'[d] = lost[d]
        BY <1>1, <1>2, <3>2
      <4>. QED
        BY <2>1, <4>1 DEF BlocksInv, Told, There
    <3>. QED
      BY <3>1, <3>2
  <2>. QED
    BY <2>1 DEF Told, There
<1>. QED
  BY <1>1, <1>3, <1>4, <1>5, <1>6, BlocksNow

\* The content of the node c is at is as the request has it.
LEMMA SavedNode ==
    ASSUME TypeInv, NEW c \in Calls, CallFits(c), SaveBlock(c), call[c].kind = "tree",
           UpdatedGrows, NEW i \in DOMAIN call[c].made, call[c].made[i] = Target(c),
           i = Len(call[c].made), call'[c].made = call[c].made,
           call'[c].nodes = call[c].nodes,
           call'[c].stage \in {"create", "answered", "failed"}
    PROVE  RightNode(c, i)'
<1>1. PICK b \in Blocks : b = call[c].made[i]
  BY MadeIn, SaveAt
<1>2. /\ call[c] # None /\ At(c, "save") /\ call[c].stage = "save" /\ b = Target(c)
      /\ b \in Locators /\ store'[b].content = ToSave(c)
      /\ EditOf(c) = call[c].nodes[i].edit /\ ~ Pending(c, i)'
  <2>1. /\ call[c] # None /\ At(c, "save") /\ call[c].stage = "save"
        /\ store'[Target(c)].content = ToSave(c)
    BY SaveAt
  <2>2. EditOf(c) = CurrentNode(c).edit /\ Position(c) = Len(call[c].made)
    BY <2>1, AtUpdate
  <2>. QED
    BY <1>1, <2>1, <2>2, NoneApart DEF CurrentNode, Pending
<1>3. SUFFICES ASSUME ~ Updated(b)'
               PROVE  RightNode(c, i)'
  BY <1>1 DEF RightNode
<1>4. ~ Updated(b) /\ RightNode(c, i)
  BY <1>2, <1>3 DEF UpdatedGrows, CallFits
<1>5. call[c].copy.content = Default
  BY <1>1, <1>2, <1>4 DEF RightNode, Pending
<1>6. store'[b].content = Edited(Default, call[c].nodes[i].edit)
  BY <1>2, <1>5 DEF ToSave
<1>. QED
  BY <1>1, <1>2, <1>6 DEF RightNode, There

LEMMA SavesStep ==
    ASSUME AuthoringInv, NEW c \in Calls, SaveBlock(c), Sound(public'), NEW n,
           n = Done(c) \/ n = Failed(c), Replaces(c, {Target(c)}, n)
    PROVE  AuthoringInv'
<1>1. TypeInv /\ BlocksInv /\ CallFits(c)
  BY DEF AuthoringInv
<1>. DEFINE k == call[c]
<1>2. PICK t \in Locators : t = Target(c)
  BY <1>1, SaveAt
<1>3. /\ k # None /\ At(c, "save") /\ k.stage = "save" /\ k \in Call /\ Shape(k)
      /\ There(t) /\ home' = home /\ store'[t] \in Block
      /\ \A d \in Locators \ {t} : store'[d] = store[d]
      /\ k.kind \in {"tree", "update", "settings"}
  BY <1>1, <1>2, SaveAt, CallIs, CallFields
<1>4. /\ OwnKeeps(k, n) /\ n.made = k.made
      /\ n.stage = IF n = Failed(c) THEN "failed" ELSE Onward(c)
  <2>1. /\ OwnKeeps(k, Done(c)) /\ Done(c).made = k.made /\ Done(c).stage = Onward(c)
    BY <1>1, <1>3, DoneIs
  <2>2. /\ OwnKeeps(k, Failed(c)) /\ Failed(c).made = k.made /\ Failed(c).stage = "failed"
    BY <1>1, <1>3, FailedIs
  <2>. QED
    BY <2>1, <2>2
<1>5. CallsTyped' /\ call'[c] = n /\ Others(Calls \ {c}, {t}, Parts)
  <2>1. call' = [d \in Calls |-> IF d = c THEN n ELSE Overtaken(d, {t}, Parts)]
    BY <1>2 DEF Replaces, Parts
  <2>2. n \in Call /\ Shape(n)
    BY <1>4 DEF OwnKeeps
  <2>. QED
    BY <1>1, <2>1, <2>2, CallsStep
<1>6. BlocksInv'
  BY <1>1, SaveBlocks
<1>7. TypeInv'
  <2>1. Sound(store')
    BY <1>1, SavedSound, SaveAt
  <2>2. /\ latest' \in [Locators -> Content] /\ lost' \in [Locators -> SUBSET Fields]
        /\ raced' \in SUBSET Locators
    BY <1>1, SaveTypes
  <2>. QED
    BY <1>1, <1>3, <1>5, <2>1, <2>2 DEF TypeInv, AuthoringTypeOK, CallsTyped, Sound, Blocked
<1>8. CallKept(c)
  BY <1>4, <1>5 DEF OwnKeeps, CallKept
<1>9. \A d \in Calls : CallKept(d)
  BY <1>5, <1>8, OthersKept
<1>10. HomeKept
  BY <1>3 DEF HomeKept
<1>11. UpdatedGrows
  BY <1>9, <1>10, GrowsIs
<1>12. Touches({t}, Parts)
  BY <1>3 DEF Touches, There
<1>13. MadeOnce'
  BY <1>3, <1>4, <1>5, MadeOnceOthers
<1>14. QuietBut({t})
  <2>1. \A d \in Locators \ {t} : lost'[d] = lost[d]
    BY <1>1, <1>2, SaveTypes
  <2>. QED
    BY <1>3, <2>1, NoneApart DEF QuietBut, There
<1>15. CASE k.kind = "tree"
  <2>1. /\ t = k.made[Len(k.made)] /\ Onward(c) \in {"create", "answered"}
        /\ DOMAIN k.made = 1..Len(k.made) /\ Len(k.made) \in Nat
        /\ Len(k.made) \in DOMAIN k.made
    <3>1. /\ t = k.made[Len(k.made)] /\ Onward(c) \in {"create", "answered"}
          /\ TreeShape(k)
      BY <1>1, <1>2, <1>3, <1>15, AtUpdate, NextIs
    <3>. QED
      BY <1>1, <1>3, <3>1, MadeIn DEF TreeShape
  <2>2. \A d \in Calls \ {c} : call[d] # None =>
           \A i \in DOMAIN call[d].made : call[d].made[i] \notin {t}
    BY <1>3, <2>1 DEF AuthoringInv, MadeOnce
  <2>3. /\ call'[c].made = k.made /\ call'[c].nodes = k.nodes
        /\ call'[c].stage \in {"create", "answered", "failed"}
    BY <1>4, <1>5, <2>1 DEF OwnKeeps
  <2>4. ASSUME NEW i \in DOMAIN k.made, k.made[i] \in {t}
        PROVE  RightNode(c, i)'
    <3>1. i = Len(k.made) /\ k.made[i] = Target(c)
      BY <1>2, <1>3, <2>1, <2>4 DEF AuthoringInv, MadeOnce
    <3>. QED
      BY <1>1, <1>11, <1>15, <2>3, <3>1, SavedNode
  <2>5. ASSUME NEW i \in DOMAIN k.made
        PROVE  /\ ~ Pending(c, i)'
               /\ Finished(c, i) \/ RightNode(c, i)'
    <3>1. ~ Pending(c, i)'
      BY <2>3 DEF Pending
    <3>2. i = Len(k.made) \/ Finished(c, i)
      BY <2>1 DEF Finished
    <3>. QED
      BY <2>1, <2>4, <3>1, <3>2
  <2>6. CallFits(c)'
    <3>1. call'[c].stage # "save" /\ OwnKeeps(call[c], call'[c])
      BY <1>4, <1>5, <2>3
    <3>. QED
      BY <1>1, <1>3, <1>10, <1>11, <1>14, <2>3, <2>4, <2>5, <3>1, OwnFits
  <2>. QED
    BY <1>5, <1>6, <1>7, <1>10, <1>11, <1>12, <1>13, <1>14, <2>2, <2>6, AnyStep
<1>16. CASE k.kind # "tree"
  <2>1. CallFits(c)'
    <3>1. call'[c].stage # "save" /\ call'[c].made = call[c].made
      BY <1>1, <1>3, <1>4, <1>5, NextIs
    <3>. QED
      BY <1>1, <1>3, <1>16, <3>1, NothingMade
  <2>2. QuietBut({})
    <3>1. t \notin Blocks \/ Updated(t)'
      <4>1. CASE k.kind = "settings"
        <5>1. t = Root
          BY <1>2, <1>3, <4>1 DEF Target, Shape, OtherShape
        <5>. QED
          BY <5>1, NoneApart
      <4>2. CASE k.kind = "update"
        <5>1. t = k.target
          BY <1>2, <4>2 DEF Target
        <5>2. Updated(t)
          BY <1>3, <4>2, <5>1 DEF Updated
        <5>. QED
          BY <1>11, <5>2 DEF UpdatedGrows
      <4>. QED
        BY <1>3, <1>16, <4>1, <4>2
    <3>. QED
      BY <1>14, <3>1 DEF QuietBut
  <2>3. \A d \in Calls \ {c} : call[d] # None =>
           \A i \in DOMAIN call[d].made : call[d].made[i] \notin {}
    OBVIOUS
  <2>. QED
    BY <1>5, <1>6, <1>7, <1>10, <1>11, <1>12, <1>13, <2>1, <2>2, <2>3, AnyStep
<1>. QED
  BY <1>15, <1>16

LEMMA SaveStep ==
    ASSUME AuthoringInv, NEW c \in Calls, Save(c) \/ SaveRaises(c)
    PROVE  AuthoringInv'
<1>1. TypeInv /\ BlocksInv /\ CallFits(c) /\ Sound(public) /\ SaveBlock(c)
  BY SoundNow DEF AuthoringInv, Save, SaveRaises
<1>2. CASE Save(c)
  <2>1. Sound(public')
    <3>1. Sound(Saved(c)) /\ Target(c) \in Locators
      BY <1>1, SavedSound, SaveAt
    <3>2. Sound(Published(Saved(c), Target(c)))
      BY <1>1, <3>1, PublishedIs
    <3>3. public' \in {Published(Saved(c), Target(c)), public}
      BY <1>2 DEF Save
    <3>. QED
      BY <1>1, <3>2, <3>3
  <2>2. Replaces(c, {Target(c)}, Done(c))
    BY <1>2 DEF Save
  <2>. QED
    BY <1>1, <2>1, <2>2, SavesStep
<1>3. CASE SaveRaises(c)
  <2>1. Sound(public') /\ Replaces(c, {Target(c)}, Failed(c))
    BY <1>1, <1>3 DEF SaveRaises
  <2>. QED
    BY <1>1, <2>1, SavesStep
<1>. QED
  BY <1>2, <1>3

-----------------------------------------------------------------------------
(* Discarding changes.                                                     *)

LEMMA RevertAt ==
    ASSUME TypeInv, BlocksInv, NEW a \in Blocks, Revert(a), NEW d \in Locators
    PROVE  IF d \in Under(public, a)
           THEN /\ public[d] # None /\ store'[d] = public[d]
                /\ latest'[d] = public[d].content /\ lost'[d] = {}
           ELSE /\ store'[d] = IF d \in Under(store, a) THEN None ELSE store[d]
                /\ latest'[d] = latest[d] /\ lost'[d] = lost[d]
<1>1. public[a] # None /\ a \in Locators
  BY NoneApart DEF Revert
<1>2. d \in Under(public, a) => public[d] # None
  BY <1>1, UnderThere
<1>3. /\ store' = [e \in Locators |->
                     IF e \in Under(public, a) THEN public[e]
                     ELSE IF e \in Under(store, a) \ Under(public, a) THEN None
                     ELSE store[e]]
      /\ latest' = [e \in Locators |-> IF e \in Under(public, a) THEN public[e].content
                                       ELSE latest[e]]
      /\ lost' = [e \in Locators |-> IF e \in Under(public, a) THEN {} ELSE lost[e]]
  BY DEF Revert
<1>. QED
  BY <1>2, <1>3

LEMMA RevertTypes ==
    ASSUME TypeInv, BlocksInv, NEW a \in Blocks, Revert(a)
    PROVE  /\ Sound(store') /\ latest' \in [Locators -> Content]
           /\ lost' \in [Locators -> SUBSET Fields] /\ raced' \in SUBSET Locators
<1>1. Sound(store) /\ Sound(public) /\ latest \in [Locators -> Content]
      /\ lost \in [Locators -> SUBSET Fields] /\ raced \in SUBSET Locators
  BY SoundNow DEF TypeInv, AuthoringTypeOK
<1>2. ASSUME NEW d \in Locators
      PROVE  /\ store'[d] \in Block \cup {None}
             /\ store'[d] # None => \A k \in store'[d].children : home[k] = d
             /\ d \in Blocks /\ home[d] = None => store'[d] = None
             /\ latest'[d] \in Content /\ lost'[d] \in SUBSET Fields
  <2>1. CASE d \in Under(public, a)
    <3>1. /\ public[d] # None /\ store'[d] = public[d]
          /\ latest'[d] = public[d].content /\ lost'[d] = {}
      BY <2>1, RevertAt
    <3>2. public[d].content \in Content
      BY <1>1, <3>1, SoundHas, BlockIs
    <3>. QED
      BY <1>1, <3>1, <3>2, SoundHas
  <2>2. CASE d \notin Under(public, a)
    <3>1. /\ store'[d] = None \/ store'[d] = store[d]
          /\ latest'[d] = latest[d] /\ lost'[d] = lost[d]
      BY <2>2, RevertAt
    <3>. QED
      BY <1>1, <3>1, SoundHas
  <2>. QED
    BY <2>1, <2>2
<1>3. /\ store' = [d \in Locators |-> store'[d]] /\ latest' = [d \in Locators |-> latest'[d]]
      /\ lost' = [d \in Locators |-> lost'[d]]
  BY DEF Revert
<1>4. Sound(store')
  BY <1>2, <1>3, SoundAt
<1>5. latest' \in [Locators -> Content] /\ lost' \in [Locators -> SUBSET Fields]
  BY <1>2, <1>3
<1>6. raced' \in SUBSET Locators
  BY <1>1, UnderIs, NoneApart DEF Revert
<1>. QED
  BY <1>4, <1>5, <1>6

LEMMA RevertLinked ==
    ASSUME TypeInv, BlocksInv, NEW a \in Blocks, There(a), Revert(a), home' = home
    PROVE  Linked'
<1>. DEFINE back == Under(public, a)
            under == Under(store, a)
<1>1. /\ Sound(public) /\ Sound(store) /\ public[a] # None /\ a \in Locators
      /\ a \in back /\ a \in under
  BY SoundNow, UnderIs, NoneApart DEF Revert
<1>2. \A d \in Locators :
        IF d \in back THEN public[d] # None /\ store'[d] = public[d]
        ELSE store'[d] = IF d \in under THEN None ELSE store[d]
  BY RevertAt
<1>3. raced' = raced \cup {d \in back \ under : There(d)}
  BY DEF Revert
<1>4. Closed(store, under) /\ Closed(public, back)
  BY <1>1, UnderIs
<1>. HIDE DEF back, under
<1>5. ASSUME NEW k \in Blocks, store'[k] # None, home[k] \notin raced'
      PROVE  /\ home[k] \in Locators /\ store'[home[k]] # None
             /\ k \in store'[home[k]].children
  <2>1. k \in Locators /\ home[k] \notin raced
    BY <1>3, <1>5, NoneApart
  <2>2. CASE k \notin back
    <3>1. store'[k] = store[k] /\ k \notin under /\ There(k)
      BY <1>2, <1>5, <2>1, <2>2 DEF There
    <3>2. home[k] \in Parents(store, k)
      BY <2>1, <3>1 DEF BlocksInv, Linked
    <3>3. home[k] \in Locators /\ There(home[k]) /\ k \in store[home[k]].children
      BY <3>2 DEF Parents, There
    <3>4. home[k] \notin under
      BY <1>4, <3>1, <3>2 DEF Closed, There
    <3>5. home[k] \notin back
      BY <1>3, <1>5, <3>3, <3>4
    <3>. QED
      BY <1>2, <3>3, <3>4, <3>5 DEF There
  <2>3. CASE k \in back /\ k # a
    <3>1. PICK q \in back : q \in Parents(public, k)
      BY <1>1, <2>3, UnderParent DEF back
    <3>2. home[k] = q /\ q \in Locators /\ k \in public[q].children
      BY <1>1, <3>1 DEF Sound, Listed, Parents
    <3>. QED
      BY <1>2, <3>1, <3>2
  <2>4. CASE k = a
    <3>1. home[a] # None
      BY <1>1 DEF BlocksInv, Unused, UnusedIn
    <3>2. home[a] \notin back /\ home[a] \notin under
      BY <1>1, <3>1, UnderStays DEF BlocksInv, back, under
    <3>3. home[a] \in Locators /\ There(home[a]) /\ a \in store[home[a]].children
      BY <2>1, <2>4 DEF BlocksInv, Linked, Parents, There
    <3>. QED
      BY <1>2, <2>4, <3>2, <3>3 DEF There
  <2>. QED
    BY <2>2, <2>3, <2>4
<1>. QED
  BY <1>5 DEF Linked, There, Parents

LEMMA DiscardStep ==
    ASSUME AuthoringInv, NEW c \in Calls, Discard(c), Target(c) # Root
    PROVE  AuthoringInv'
<1>1. TypeInv /\ BlocksInv
  BY DEF AuthoringInv
<1>2. /\ call[c] # None /\ call[c].kind = "update" /\ Target(c) = call[c].target
      /\ call[c].publish = "discard_changes"
      /\ Target(c) \in Locators /\ There(Target(c))
      /\ OwnKeeps(call[c], Done(c)) /\ Done(c).made = call[c].made
      /\ Done(c).stage # "save" /\ UNCHANGED <<public, home>>
  BY <1>1, DiscardIs
<1>3. PICK a \in Blocks : a = Target(c) /\ a = call[c].target
  BY <1>2 DEF Locators
<1>4. Revert(a) /\ Replaces(c, Under(public, a), Done(c))
  BY <1>3 DEF Discard
<1>5. PICK back : back = Under(public, a)
  OBVIOUS
<1>6. CallsTyped' /\ call'[c] = Done(c) /\ Others(Calls \ {c}, back, Parts)
  <2>1. call' = [d \in Calls |-> IF d = c THEN Done(c) ELSE Overtaken(d, back, Parts)]
    BY <1>4, <1>5 DEF Replaces, Parts
  <2>2. Done(c) \in Call /\ Shape(Done(c)) /\ Parts \in SUBSET Parts
    BY <1>2 DEF OwnKeeps
  <2>. QED
    BY <1>1, <2>1, <2>2, CallsStep
<1>7. /\ Sound(store') /\ latest' \in [Locators -> Content]
      /\ lost' \in [Locators -> SUBSET Fields] /\ raced' \in SUBSET Locators
  BY <1>1, <1>4, RevertTypes
<1>8. TypeInv'
  BY <1>1, <1>2, <1>6, <1>7 DEF TypeInv, AuthoringTypeOK, CallsTyped, Sound, Blocked
<1>9. \A d \in Locators :
        IF d \in back
        THEN /\ public[d] # None /\ store'[d] = public[d]
             /\ latest'[d] = public[d].content /\ lost'[d] = {}
        ELSE /\ store'[d] # None => store'[d] = store[d]
             /\ latest'[d] = latest[d] /\ lost'[d] = lost[d]
  BY <1>1, <1>4, <1>5, RevertAt
<1>10. BlocksInv'
  <2>1. Linked'
    BY <1>1, <1>2, <1>3, <1>4, RevertLinked
  <2>2. Sound(public')
    BY <1>1, <1>2, SoundNow
  <2>3. \A b \in Blocks : home[b] = None => latest'[b] = Default
    BY <1>1, <1>9, NoneApart DEF BlocksInv, Unused, UnusedIn
  <2>4. ASSUME NEW d \in Locators
        PROVE  Told(d)'
    <3>1. CASE d \in back
      BY <1>9, <3>1 DEF Told, There
    <3>2. CASE d \notin back
      BY <1>1, <1>9, <3>2 DEF BlocksInv, Told, There
    <3>. QED
      BY <3>1, <3>2
  <2>. QED
    BY <1>1, <1>2, <1>7, <2>1, <2>2, <2>3, <2>4, BlocksNow
<1>11. CallKept(c) /\ \A d \in Calls : CallKept(d)
  <2>1. CallKept(c)
    BY <1>2, <1>6 DEF OwnKeeps, CallKept
  <2>. QED
    BY <1>6, <2>1, OthersKept
<1>12. HomeKept
  BY <1>2 DEF HomeKept
<1>13. UpdatedGrows
  BY <1>11, <1>12, GrowsIs
<1>14. Touches(back, Parts)
  BY <1>9 DEF Touches, There
<1>15. QuietBut({})
  <2>1. \A b \in back : Updated(b)'
    <3>1. back \subseteq Below(a) /\ back \subseteq Locators
      BY <1>1, <1>5, UnderBelow, UnderIs, NoneApart DEF BlocksInv
    <3>2. \A b \in back : Updated(b)
      BY <1>2, <1>3, <3>1 DEF Updated
    <3>. QED
      BY <1>13, <3>1, <3>2 DEF UpdatedGrows
  <2>. QED
    BY <1>9, <2>1, NoneApart DEF QuietBut, There
<1>16. CallFits(c)'
  BY <1>1, <1>2, <1>6, NothingMade
<1>17. MadeOnce'
  BY <1>2, <1>6, MadeOnceOthers
<1>18. \A d \in Calls \ {c} : call[d] # None =>
         \A i \in DOMAIN call[d].made : call[d].made[i] \notin {}
  OBVIOUS
<1>. QED
  BY <1>6, <1>8, <1>10, <1>12, <1>13, <1>14, <1>15, <1>16, <1>17, <1>18, AnyStep

-----------------------------------------------------------------------------
(* The theorems.                                                           *)

LEMMA AuthoringStart == Init => AuthoringInv
<1>. SUFFICES ASSUME Init PROVE AuthoringInv
  OBVIOUS
<1>1. /\ store = [b \in Locators |->
                    IF b = Root THEN [content |-> Default, children |-> {}] ELSE None]
      /\ public = [b \in Locators |-> None] /\ home = [b \in Blocks |-> None]
      /\ call = [c \in Calls |-> None] /\ latest = [b \in Locators |-> Default]
      /\ lost = [b \in Locators |-> {}] /\ raced = {}
  BY DEF Init
<1>. DEFINE new == [content |-> Default, children |-> {}]
<1>2. new \in Block /\ new.content = Default /\ new.children = {}
  BY NewBlockIs, DefaultType
<1>3. store = [b \in Locators |-> IF b = Root THEN new ELSE None]
  BY <1>1
<1>. HIDE DEF new
<1>4. TypeInv
  BY <1>1, <1>2, <1>3, DefaultType DEF TypeInv, AuthoringTypeOK, Shapes
<1>5. /\ \A d \in Locators : store[d] # None =>
           d = Root /\ store[d].content = Default /\ store[d].children = {}
      /\ \A d \in Locators : public[d] = None /\ latest[d] = Default
      /\ \A b \in Blocks : b # Root /\ home[b] = None
  BY <1>1, <1>2, <1>3, NoneApart
<1>6. Unused /\ Ranked
  BY <1>5, NoneApart DEF Unused, UnusedIn, Ranked
<1>7. Listed(store) /\ Listed(public)
  BY <1>5 DEF Listed, Parents
<1>8. Linked /\ \A b \in Locators : Told(b)
  BY <1>5, NoneApart DEF Linked, Told, There
<1>9. MadeOnce /\ \A c \in Calls : CallFits(c)
  BY <1>1 DEF MadeOnce, CallFits
<1>. QED
  BY <1>4, <1>6, <1>7, <1>8, <1>9 DEF AuthoringInv, BlocksInv

LEMMA AuthoringStep == AuthoringInv /\ [Next]_vars => AuthoringInv'
<1>. SUFFICES ASSUME AuthoringInv, [Next]_vars PROVE AuthoringInv'
  OBVIOUS
<1>1. ASSUME NEW c \in Calls,
             \/ \E parent \in Locators, nodes \in Trees : StartTree(c, parent, nodes)
             \/ \E b \in Locators, edit \in Edits, publish \in Publish :
                  StartUpdate(c, b, edit, publish)
             \/ \E edit \in SettingsEdits : StartSettings(c, edit)
      PROVE  AuthoringInv'
  BY <1>1, StartStep
<1>2. ASSUME NEW c \in Calls, Create(c)
      PROVE  AuthoringInv'
  BY <1>2, CreateStep
<1>3. ASSUME NEW c \in Calls, Read(c)
      PROVE  AuthoringInv'
  BY <1>3, ReadStep
<1>4. ASSUME NEW c \in Calls, Save(c) \/ SaveRaises(c)
      PROVE  AuthoringInv'
  BY <1>4, SaveStep
<1>5. ASSUME NEW c \in Calls, Refuse(c)
      PROVE  AuthoringInv'
  BY <1>5, RefuseStep
<1>6. ASSUME NEW c \in Calls, Discard(c)
      PROVE  AuthoringInv'
  BY <1>6, DiscardStep, DiscardRootStep
<1>7. ASSUME NEW c \in Calls, Raise(c)
      PROVE  AuthoringInv'
  BY <1>7, RaiseStep
<1>8. ASSUME NEW b \in Locators, PublishBlock(b)
      PROVE  AuthoringInv'
  BY <1>8, PublishStep
<1>9. ASSUME NEW b \in Blocks, DeleteBlock(b)
      PROVE  AuthoringInv'
  BY <1>9, DeleteStep
<1>10. CASE UNCHANGED vars
  <2>1. AuthoringTypeOK' /\ Shapes'
    BY <1>10 DEF vars, AuthoringInv, TypeInv, AuthoringTypeOK, Shapes
  <2>2. TypeInv' /\ BlocksInv' /\ MadeOnce'
    BY <1>10, <2>1, BlocksKept DEF vars, AuthoringInv, TypeInv, MadeOnce
  <2>3. Others(Calls, {}, {}) /\ HomeKept /\ Touches({}, {}) /\ QuietBut({})
    BY <1>10, NoneTouched DEF vars, AuthoringInv, Others, SameAs
  <2>. QED
    BY <2>2, <2>3, FreeStep
<1>11. CASE Next
  BY <1>1, <1>2, <1>3, <1>4, <1>5, <1>6, <1>7, <1>8, <1>9, <1>11 DEF Next
<1>. QED
  BY <1>10, <1>11

(* Whatever the calls do, a block is listed by no block but the one it was *)
(* created under, copies are what the blocks are but for what they have    *)
(* missed, and the nodes of a tree are where and what the request asked.   *)
THEOREM AuthoringInvariant == Spec => []AuthoringInv
BY AuthoringStart, AuthoringStep, PTL DEF Spec

(* The types of the blocks, the calls and the history.                     *)
THEOREM AuthoringTypeCorrect == Spec => []AuthoringTypeOK
<1>1. AuthoringInv => AuthoringTypeOK
  BY DEF AuthoringInv, TypeInv
<1>. QED
  BY <1>1, AuthoringInvariant, PTL

(* The nodes create_block_tree has made are where the request wants them,  *)
(* listed by nothing else, and by their parent unless a save has put an    *)
(* older list of its children back.                                        *)
THEOREM TreeAsAskedHolds == Spec => []TreeAsAsked
<1>1. ASSUME AuthoringInv, NEW c \in Calls, IsTree(c), NEW i \in DOMAIN call[c].made,
             There(call[c].made[i])
      PROVE  /\ Parents(store, call[c].made[i]) \subseteq {Wanted(c, i)}
             /\ Wanted(c, i) \in raced \/ Wanted(c, i) \in Parents(store, call[c].made[i])
  <2>1. /\ call[c] # None /\ TypeInv /\ Placed(c) /\ Listed(store) /\ Linked
        /\ call[c].made[i] \in Blocks
    BY <1>1, MadeIn DEF IsTree, AuthoringInv, BlocksInv, CallFits
  <2>2. home[call[c].made[i]] = Wanted(c, i)
    BY <1>1, <2>1, WantedIn
  <2>3. Parents(store, call[c].made[i]) \subseteq Locators
    BY DEF Parents
  <2>. QED
    BY <1>1, <2>1, <2>2, <2>3 DEF Listed, Linked
<1>2. AuthoringInv => TreeAsAsked
  BY <1>1 DEF TreeAsAsked, Wanted
<1>. QED
  BY <1>2, AuthoringInvariant, PTL

(* An answered create_block_tree has made every node, and each has the     *)
(* content of the request but for refused values and for update_block.     *)
THEOREM AnswerWholeHolds == Spec => []AnswerWhole
<1>1. ASSUME AuthoringInv, NEW c \in Calls, IsTree(c), At(c, "answered")
      PROVE  /\ Len(call[c].made) = Len(call[c].nodes)
             /\ \A i \in DOMAIN call[c].made :
                  RightNode(c, i) /\ Finished(c, i)
  <2>1. /\ call[c] # None /\ call[c].kind = "tree" /\ call[c].stage = "answered"
        /\ TypeInv /\ CallFits(c)
    BY <1>1 DEF IsTree, At, AuthoringInv
  <2>2. TreeShape(call[c])
    BY <2>1, CallIs DEF Shape
  <2>. QED
    BY <2>1, <2>2 DEF TreeShape, CallFits, Finished
<1>2. AuthoringInv => AnswerWhole
  BY <1>1 DEF AnswerWhole, RightNode
<1>. QED
  BY <1>2, AuthoringInvariant, PTL

(* What a call of update_block or update_course_settings has answered for  *)
(* is kept, unless a later save came from an older copy or a value of the  *)
(* request was refused.                                                    *)
THEOREM EditsKeptHolds == Spec => []EditsKept
<1>1. AuthoringInv => EditsKept
  BY DEF AuthoringInv, BlocksInv, Told, EditsKept
<1>. QED
  BY <1>1, AuthoringInvariant, PTL
=============================================================================
