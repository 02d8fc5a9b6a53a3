---------------------------- MODULE MCAuthoring ----------------------------
(***************************************************************************)
(* Small instance of Authoring: one node, two beside each other and one    *)
(* under the other, each with and without content.                         *)
(***************************************************************************)
EXTENDS Authoring

MCFields == {"data", "metadata"}

\* The course's own block has data (details) and metadata (advanced) too.
MCSections == <<"data", "metadata">>

MCChecked == {"metadata"}

NoEdit == <<>>
Whole == [f \in MCFields |-> CHOOSE v \in Values : TRUE]

MCTrees ==
    {<<[up |-> 0, edit |-> e]>> : e \in {NoEdit, Whole}} \cup
    {<<[up |-> 0, edit |-> d], [up |-> u, edit |-> e]>> :
        d \in {NoEdit, Whole}, e \in {NoEdit, Whole}, u \in {0, 1}}

AuthoringSymmetry == Permutations(Calls) \cup Permutations(Blocks)
=============================================================================
