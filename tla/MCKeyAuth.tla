----------------------------- MODULE MCKeyAuth -----------------------------
(***************************************************************************)
(* Small instance of KeyAuth: a read tool, which needs no scope, and the   *)
(* admin level of set_role.                                                *)
(***************************************************************************)
EXTENDS KeyAuth

MCNeeds == [t \in Tools |-> IF t \in AdminTools THEN {"grant:admin"} ELSE {}]

MCScopes == {"read", "grant:admin"}

MCDefaultScopes == {"read"}

MCChoices == {{}, {"grant:admin"}}
=============================================================================
