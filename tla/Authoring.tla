------------------------------ MODULE Authoring ------------------------------
(***************************************************************************)
(* Studio's authoring tools on the blocks of one course.                   *)
(*                                                                         *)
(*   authoring.py        create_block, create_block_tree, update_block,    *)
(*                       publish_block, delete_block,                      *)
(*                       update_course_settings                            *)
(*   authoring_views.py  the views that call them                          *)
(*                                                                         *)
(* One call of the modulestore is atomic; nothing joins two of them.       *)
(* create_block_tree goes through its nodes in document order, creating    *)
(* each and then, if it comes with content, updating it; update_block      *)
(* reads a block and saves it whole, its list of children included, with   *)
(* the fields of the request replaced; update_course_settings does so with *)
(* the course, once for each section of the request.  Other calls come in  *)
(* between, and a call that fails leaves what it has done: the savepoint   *)
(* around it does not reach the modulestore.  _save_xblock answers values  *)
(* it cannot take without saving anything; that answer is dropped.  These  *)
(* are the External tools of AuditedWrite.                                 *)
(***************************************************************************)
EXTENDS Naturals, SequencesExt

CONSTANTS Calls,   \* calls that create, or that update a block or the course
          Blocks,  \* locators the modulestore has to give
          Root,    \* the locator of the course
          Fields,  \* what requests can set of a block
          Checked, \* those whose values Studio may refuse without raising:
                   \* the metadata of a block, the advanced settings
          Sections,\* those the settings set: details, grading, advanced
          Values,  \* what a field can be set to
          Trees,   \* the node lists that are sent; in document order
          None     \* the default of a field

Locators == Blocks \cup {Root}

\* What a request sets: some of the fields.
Edits == UNION {[named -> Values] : named \in SUBSET Fields}

\* up: the number of the parent node, 0 for the block the request names.
Node == [up : Nat, edit : Edits]

ASSUME AuthoringAssumption ==
    /\ Root \notin Blocks
    /\ None \notin Values \cup Locators
    /\ Checked \subseteq Fields
    /\ Sections \in Seq(Fields) \ {<<>>}
    /\ \A nodes \in Trees :
         /\ nodes \in Seq(Node) \ {<<>>}
         /\ \A i \in DOMAIN nodes : nodes[i].up < i

VARIABLES store,   \* store[b]: the block at locator b, with its changes
          public,  \* public[b]: what learners see of it
          home,    \* home[b]: the locator b was created under, None if unused
          call,    \* call[c]: where call c is
          latest,  \* history: what the last save naming a field of b set it to
          lost,    \* history: fields of b a call has answered for in vain
          raced    \* history: blocks whose children another call has replaced

vars == <<store, public, home, call, latest, lost, raced>>

-----------------------------------------------------------------------------
Content == [Fields -> Values \cup {None}]
Default == [f \in Fields |-> None]

\* A block holds the list of its children; nothing in it names its parent.
Block == [content : Content, children : SUBSET Blocks]

\* What update_block does with the block it has saved.
Publish == {"no", "make_public", "republish", "discard_changes"}

\* A tree call has its nodes, and the locators made for them so far; the
\* others work on one locator, edit being what is left to be set.  overlapped:
\* the parts of the block another call has changed since this one read it.
Call == [kind : {"tree", "update", "settings"}, target : Locators, nodes : Trees \cup {<<>>},
         made : Seq(Blocks), edit : Edits, publish : Publish,
         overlapped : SUBSET {"content", "children"}, copy : Block \cup {None},
         stage : {"create", "read", "save", "answered", "failed"}]

ASSUME NoneIsNoRecord == None \notin Block /\ None \notin Call

AuthoringTypeOK ==
    /\ store \in [Locators -> Block \cup {None}]
    /\ public \in [Locators -> Block \cup {None}]
    /\ home \in [Blocks -> Locators \cup {None}]
    /\ call \in [Calls -> Call \cup {None}]
    /\ latest \in [Locators -> Content]
    /\ lost \in [Locators -> SUBSET Fields]
    /\ raced \in SUBSET Locators

Init ==
    /\ store = [b \in Locators |->
                  IF b = Root THEN [content |-> Default, children |-> {}] ELSE None]
    /\ public = [b \in Locators |-> None]
    /\ home = [b \in Blocks |-> None]
    /\ call = [c \in Calls |-> None]
    /\ latest = [b \in Locators |-> Default]
    /\ lost = [b \in Locators |-> {}]
    /\ raced = {}

-----------------------------------------------------------------------------
(* The blocks; s is store or public.                                       *)

There(b) == store[b] # None

\* The blocks that list b as a child.
Parents(s, b) == {p \in Locators : s[p] # None /\ b \in s[p].children}

\* With a block, S has the children that are there.
Closed(s, S) == \A b \in Blocks : s[b] # None /\ Parents(s, b) \cap S # {} => b \in S

\* b and everything under it.
Under(s, b) == {d \in Locators : \A S \in SUBSET Locators : b \in S /\ Closed(s, S) => d \in S}

\* The edit applied to some content: what it does not name stays.
Edited(content, edit) == [f \in Fields |-> IF f \in DOMAIN edit THEN edit[f]
                                                                ELSE content[f]]

\* A block is published under a parent that is (the course always is).
CanPublish(s, b) ==
    b = Root \/ \E p \in Parents(s, b) : p = Root \/ public[p] # None

\* What is public once b and everything under it is published as in s.  The
\* course's own entry stays None.
Published(s, b) ==
    [d \in Locators |->
       IF d \in Under(s, b) \ {Root} THEN s[d]
       ELSE IF b = Root \/ d \in Under(public, b) THEN None
       ELSE IF d \in Parents(s, b) /\ public[d] # None
       THEN [public[d] EXCEPT !.children = @ \cup {b}] ELSE public[d]]

-----------------------------------------------------------------------------
(* The calls.                                                              *)

At(c, stage) == call[c] # None /\ call[c].stage = stage

\* The number of the node a tree call is at, and the node.
Position(c) == Len(call[c].made) + (IF At(c, "create") THEN 1 ELSE 0)
CurrentNode(c) == call[c].nodes[Position(c)]

\* Mistake: the children are created beside their parent.
ParentNamed(c) == call[c].target

\* The locator the current node goes under: create_block_tree(user, loc, child).
ParentOf(c) == IF CurrentNode(c).up = 0 THEN call[c].target
               ELSE call[c].made[CurrentNode(c).up]

\* The section of the settings that comes next.
Section(c) == Sections[CHOOSE i \in DOMAIN Sections :
                         /\ Sections[i] \in DOMAIN call[c].edit
                         /\ \A j \in 1..(i - 1) : Sections[j] \notin DOMAIN call[c].edit]

\* The block a call updates, and with what.
Target(c) == IF call[c].kind = "tree" THEN Last(call[c].made) ELSE call[c].target
EditOf(c) == CASE call[c].kind = "tree"     -> CurrentNode(c).edit
               [] call[c].kind = "update"   -> call[c].edit
               [] call[c].kind = "settings" -> [f \in {Section(c)} |-> call[c].edit[f]]

\* What is left to be set after this save.
Rest(c) == [f \in DOMAIN call[c].edit \ DOMAIN EditOf(c) |-> call[c].edit[f]]

\* Mistake: the last node is left out.
AfterNodeEarly(c, position) ==
    IF position + 1 < Len(call[c].nodes) THEN "create" ELSE "answered"

\* Where a call goes on when the node (or the update) is done.
AfterNode(c, position) ==
    IF position < Len(call[c].nodes) THEN "create" ELSE "answered"

\* The call when it is done with the block, and when it has raised.
Done(c) == [call[c] EXCEPT !.copy = None, !.overlapped = {}, !.edit = Rest(c),
                           !.stage = IF Rest(c) # <<>> THEN "read"
                                     ELSE AfterNode(c, Position(c))]
Failed(c) == [call[c] EXCEPT !.stage = "failed"]

\* Another call changes parts of these blocks: who has a copy of one of them
\* has an old one.
Overtaken(d, blocks, parts) ==
    IF At(d, "save") /\ Target(d) \in blocks
    THEN [call[d] EXCEPT !.overlapped = @ \cup parts] ELSE call[d]

\* c becomes record and replaces blocks.
Replaces(c, blocks, record) ==
    call' = [d \in Calls |-> IF d = c THEN record
                             ELSE Overtaken(d, blocks, {"content", "children"})]

-----------------------------------------------------------------------------
(* CreateBlockView, CreateBlockTreeView                                    *)
StartTree(c, parent, nodes) ==
    /\ call[c] = None
    /\ call' = [call EXCEPT ![c] =
                  [kind |-> "tree", target |-> parent, nodes |-> nodes, made |-> <<>>,
                   edit |-> <<>>, publish |-> "no", overlapped |-> {},
                   copy |-> None, stage |-> "create"]]
    /\ UNCHANGED <<store, public, home, latest, lost, raced>>

(* UpdateBlockView                                                         *)
StartUpdate(c, locator, edit, publish) ==
    /\ call[c] = None
    /\ call' = [call EXCEPT ![c] =
                  [kind |-> "update", target |-> locator, nodes |-> <<>>, made |-> <<>>,
                   edit |-> edit, publish |-> publish, overlapped |-> {},
                   copy |-> None, stage |-> "read"]]
    /\ UNCHANGED <<store, public, home, latest, lost, raced>>

(* UpdateCourseSettingsView                                                *)
StartSettings(c, edit) ==
    /\ call[c] = None
    /\ call' = [call EXCEPT ![c] =
                  [kind |-> "settings", target |-> Root, nodes |-> <<>>, made |-> <<>>,
                   edit |-> edit, publish |-> "no", overlapped |-> {},
                   copy |-> None, stage |-> "read"]]
    /\ UNCHANGED <<store, public, home, latest, lost, raced>>

(* create_xblock: a new draft under the parent, which must be there.       *)
Create(c) ==
    /\ At(c, "create")
    /\ There(ParentOf(c))
    /\ \E b \in Blocks :
         /\ home[b] = None
         /\ home' = [home EXCEPT ![b] = ParentOf(c)]
         /\ store' = [store EXCEPT
                         ![b] = [content |-> Default, children |-> {}],
                         ![ParentOf(c)].children = @ \cup {b}]
         /\ call' = [d \in Calls |->
                       IF d = c
                       THEN [call[c] EXCEPT !.made = Append(@, b),
                                            !.stage = IF CurrentNode(c).edit = <<>>
                                                      THEN AfterNode(c, Position(c))
                                                      ELSE "read"]
                       ELSE Overtaken(d, {ParentOf(c)}, {"children"})]
    /\ UNCHANGED <<public, latest, lost, raced>>

(* modulestore().get_item(...), or get_course for the settings.            *)
Read(c) ==
    /\ At(c, "read")
    /\ There(Target(c))
    /\ call' = [call EXCEPT ![c].copy = store[Target(c)],
                            ![c].overlapped = {},
                            ![c].stage = "save"]
    /\ UNCHANGED <<store, public, home, latest, lost, raced>>

\* Mistake: a field that is missing in the request is cleared.
ToSaveClearing(c) == Edited(Default, EditOf(c))

\* What is saved: the copy, with the fields of the request replaced.
ToSave(c) == Edited(call[c].copy.content, EditOf(c))

\* The blocks once c has saved its own.
Saved(c) == [store EXCEPT ![Target(c)] = [content |-> ToSave(c),
                                          children |-> call[c].copy.children]]

\* The block is saved whole, as it was read but for the request's fields.
SaveBlock(c) ==
    /\ At(c, "save")
    /\ There(Target(c))
    /\ call[c].publish # "discard_changes"
    /\ store' = Saved(c)
    /\ latest' = [latest EXCEPT ![Target(c)] = Edited(@, EditOf(c))]
    /\ lost' = [lost EXCEPT ![Target(c)] =
                  (IF "content" \in call[c].overlapped THEN Fields ELSE @) \ DOMAIN EditOf(c)]
    /\ raced' = IF "children" \in call[c].overlapped THEN raced \cup {Target(c)} ELSE raced
    /\ UNCHANGED home

\* republish: only what was published before.
Publishes(c) ==
    \/ call[c].publish = "make_public"
    \/ call[c].publish = "republish" /\ public[Target(c)] # None

(* _save_xblock: saves, and publishes if asked to; update_from_json and    *)
(* validate_and_update_from_json save one section.                         *)
Save(c) ==
    /\ SaveBlock(c)
    /\ Publishes(c) => CanPublish(Saved(c), Target(c))
    /\ public' = IF Publishes(c) THEN Published(Saved(c), Target(c)) ELSE public
    /\ Replaces(c, {Target(c)}, Done(c))

(* The block is saved, and what comes after raises.                        *)
SaveRaises(c) ==
    /\ SaveBlock(c)
    /\ Replaces(c, {Target(c)}, Failed(c))
    /\ UNCHANGED public

(* A value is not valid: nothing is saved, and the answer says so.         *)
(* update_block drops that answer and goes on; update_course_settings      *)
(* passes it on, and the sections before it stay updated.                  *)
Refuse(c) ==
    /\ At(c, "save")
    /\ call[c].publish # "discard_changes"
    /\ DOMAIN EditOf(c) \cap Checked # {}
    /\ lost' = IF call[c].kind = "settings" THEN lost
               ELSE [lost EXCEPT ![Target(c)] = @ \cup DOMAIN EditOf(c)]
    /\ call' = [call EXCEPT ![c] = Done(c)]
    /\ UNCHANGED <<store, public, home, latest, raced>>

\* Mistake: it is not asked whether there is something to go back to.
DiscardUnchecked(c) ==
    /\ At(c, "save")
    /\ There(Target(c))
    /\ call[c].publish = "discard_changes"
    /\ store' = [store EXCEPT ![Target(c)] = public[Target(c)]]
    /\ latest' = [latest EXCEPT ![Target(c)] = IF public[Target(c)] = None THEN None
                                               ELSE public[Target(c)].content]
    /\ Replaces(c, {Target(c)}, Done(c))
    /\ UNCHANGED <<public, home, lost, raced>>

(* revert_to_published: b and everything under it, in the draft and in     *)
(* public, is as it is in public again, and gone if it is not there.  A    *)
(* block that a save has left without its parent may be replaced too.      *)
Revert(b) ==
    LET back == Under(public, b)
        gone == Under(store, b) \ back
    IN  /\ public[b] # None
        /\ store' = [d \in Locators |-> IF d \in back THEN public[d]
                                        ELSE IF d \in gone THEN None ELSE store[d]]
        /\ latest' = [d \in Locators |-> IF d \in back THEN public[d].content
                                         ELSE latest[d]]
        /\ lost' = [d \in Locators |-> IF d \in back THEN {} ELSE lost[d]]
        /\ raced' = raced \cup {d \in back \ Under(store, b) : There(d)}

(* _save_xblock with discard_changes: the fields of the request are not    *)
(* looked at, and the course itself has no changes to discard.             *)
Discard(c) ==
    /\ At(c, "save")
    /\ There(Target(c))
    /\ call[c].publish = "discard_changes"
    /\ \/ /\ Target(c) # Root
          /\ Revert(Target(c))
          /\ Replaces(c, Under(public, Target(c)), Done(c))
       \/ /\ Target(c) = Root
          /\ Replaces(c, {}, Done(c))
          /\ UNCHANGED <<store, latest, lost, raced>>
    /\ UNCHANGED <<public, home>>

(* Any of these raises, as it must when the block or the parent is gone or *)
(* there is nothing to go back to; or the worker dies.                     *)
Raise(c) ==
    /\ At(c, "create") \/ At(c, "read") \/ At(c, "save")
    /\ call' = [call EXCEPT ![c] = Failed(c)]
    /\ UNCHANGED <<store, public, home, latest, lost, raced>>

(* publish_block: b and everything under it.                               *)
PublishBlock(b) ==
    /\ There(b)
    /\ CanPublish(store, b)
    /\ public' = Published(store, b)
    /\ UNCHANGED <<store, home, call, latest, lost, raced>>

(* delete_block: b and everything under it, and where it is listed; what   *)
(* is public stays until the parent is published.                          *)
DeleteBlock(b) ==
    /\ There(b)
    /\ store' = [d \in Locators |->
                   IF d \in Under(store, b) THEN None
                   ELSE IF d \in Parents(store, b)
                   THEN [store[d] EXCEPT !.children = @ \ {b}] ELSE store[d]]
    /\ call' = [d \in Calls |-> Overtaken(d, Parents(store, b), {"children"})]
    /\ UNCHANGED <<public, home, latest, lost, raced>>

\* Some of the sections.
SettingsEdits == {edit \in Edits : edit # <<>> /\
                    \A f \in DOMAIN edit : \E i \in DOMAIN Sections : Sections[i] = f}

Next ==
    \/ \E c \in Calls :
         \/ \E parent \in Locators, nodes \in Trees : StartTree(c, parent, nodes)
         \/ \E b \in Locators, edit \in Edits, publish \in Publish :
              StartUpdate(c, b, edit, publish)
         \/ \E edit \in SettingsEdits : StartSettings(c, edit)
         \/ Create(c) \/ Read(c) \/ Save(c) \/ SaveRaises(c) \/ Refuse(c)
         \/ Discard(c) \/ Raise(c)
    \/ \E b \in Locators : PublishBlock(b)
    \/ \E b \in Blocks : DeleteBlock(b)

Spec == Init /\ [][Next]_vars

-----------------------------------------------------------------------------
(* Properties.                                                             *)

IsTree(c) == call[c] # None /\ call[c].kind = "tree"

(* Whatever a call of create_block_tree has come to, answered, failed or   *)
(* under way, and whatever was deleted, reverted or published meanwhile: a *)
(* block it has made is listed by no block but the one the request put it  *)
(* under, and by that one as long as it is there, unless a save has put an *)
(* older list of children back.                                            *)
TreeAsAsked ==
    \A c \in Calls : IsTree(c) =>
        \A i \in DOMAIN call[c].made :
            LET b == call[c].made[i]
                up == call[c].nodes[i].up
                parent == IF up = 0 THEN call[c].target ELSE call[c].made[up]
            IN  There(b) => /\ Parents(store, b) \subseteq {parent}
                            /\ parent \in raced \/ parent \in Parents(store, b)

\* b, or what was created under it.
Below(b) ==
    {d \in Locators : \A S \in SUBSET Locators :
       b \in S /\ (\A k \in Blocks : home[k] \in S => k \in S) => d \in S}

\* A call of update_block was made for b, or to discard the changes of a block
\* it was created under.
Updated(b) ==
    \E d \in Calls : /\ call[d] # None /\ call[d].kind = "update"
                     /\ \/ b = call[d].target
                        \/ call[d].publish = "discard_changes" /\ b \in Below(call[d].target)

(* A call of create_block_tree that answers has made every node, and gave  *)
(* each its content: a block that is there has it, but for the fields that *)
(* came with a refused value, unless update_block was called for it.       *)
AnswerWhole ==
    \A c \in Calls : IsTree(c) /\ At(c, "answered") =>
        /\ Len(call[c].made) = Len(call[c].nodes)
        /\ \A i \in DOMAIN call[c].made :
             LET b == call[c].made[i]
             IN  There(b) /\ ~ Updated(b) =>
                   \A f \in Fields \ lost[b] :
                     store[b].content[f] = Edited(Default, call[c].nodes[i].edit)[f]

(* update_block "saved" a field, update_course_settings "updated" a        *)
(* section: it is what the last save that named it set it to, or public if *)
(* changes were discarded since, unless a later save came from a copy read *)
(* before another call's changes, or a value of the request was refused.   *)
EditsKept ==
    \A b \in Locators : There(b) =>
        \A f \in Fields \ lost[b] : store[b].content[f] = latest[b][f]
=============================================================================
