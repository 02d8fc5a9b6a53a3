------------------------------- MODULE KeyAuth -------------------------------
(***************************************************************************)
(* The life of an MCP key against the calls made with it.                  *)
(*                                                                         *)
(*   admin.py   MCPKeyAdmin: the add form, the change form, the revoke     *)
(*              action, deletion                                           *)
(*   models.py  the MCPKey row, is_expired, granted_scopes                 *)
(*   auth.py    authenticate, IsStaffOrSuperuser, require_scopes           *)
(*                                                                         *)
(* A call reads its key and the key's user in one query (select_related)   *)
(* and decides on that copy; administrators change both at any time, and   *)
(* so does a call of set_role itself.  What the rails do with an admitted  *)
(* call is module AuditedWrite.                                            *)
(***************************************************************************)
EXTENDS Integers

CONSTANTS Calls,
          Keys,         \* primary keys of MCPKey rows; one raw key belongs to each
          Users,
          Admins,       \* browser tabs with a change form of the Django admin
          Tools,
          AdminTools,   \* set_role with level global_staff or superuser
          Needs,        \* Needs[t]: the scopes tool t requires
          Scopes,
          DefaultScopes,\* DEFAULT_SCOPES
          DefaultTTL,   \* OPENEDX_MCP_DEFAULT_KEY_TTL_DAYS; 0 when unset
          Choices,      \* bound: the sets of scopes that are ticked in forms
          MaxTime,      \* bound on the clock and on the dates typed into forms
          None

ASSUME KeyAssumption ==
    /\ Keys \cap Users = {}
    /\ AdminTools \subseteq Tools
    /\ Needs \in [Tools -> SUBSET Scopes]
    /\ DefaultScopes \subseteq Scopes
    /\ Choices \subseteq SUBSET Scopes
    /\ DefaultTTL \in Nat
    /\ MaxTime \in Nat
    /\ None \notin Nat \cup Keys

VARIABLES flags,      \* flags[u]: is_staff and is_superuser of user u
          key,        \* key[k]: the row, or None
          minted,     \* the rows that were ever added
          now,        \* timezone.now()
          form,       \* form[a]: the change form in tab a
          call,       \* call[c]: where call c is, and its copy of key and user
          decided,    \* history: the last thing an admin decided about a key,
                      \* unless a form older than that decision undid it
          justified   \* history: c was authorized at some moment since it was sent

vars == <<flags, key, minted, now, form, call, decided, justified>>

-----------------------------------------------------------------------------
Flags == [staff : BOOLEAN, superuser : BOOLEAN]

Row == [user : Users, scopes : SUBSET Scopes, revoked : BOOLEAN,
        expires : Nat \cup {None}]

\* "open" on somebody's screen; "saving": posted, row read, not yet saved.
\* shown is the state of the is_revoked box when the form was opened.
Form == [stage : {"open", "saving"}, key : Keys, shown : BOOLEAN,
         posted : Row \cup {None}]

\* row is None for a browser session and for a raw key without a row.
CallRecord == [stage : {"sent", "read", "admitted", "acted", "refused"},
               cred : Keys \cup Users, tool : Tools,
               row : Row \cup {None}, flags : Flags]

NoFlags == [staff |-> FALSE, superuser |-> FALSE]

KeyTypeOK ==
    /\ flags \in [Users -> Flags]
    /\ key \in [Keys -> Row \cup {None}]
    /\ minted \in SUBSET Keys
    /\ now \in Nat
    /\ form \in [Admins -> Form \cup {None}]
    /\ call \in [Calls -> CallRecord \cup {None}]
    /\ decided \in [Keys -> {"live", "revoked", "overruled"}]
    /\ justified \in [Calls -> BOOLEAN]

Init ==
    /\ flags \in [Users -> Flags]
    /\ key = [k \in Keys |-> None]
    /\ minted = {}
    /\ now = 0
    /\ form = [a \in Admins |-> None]
    /\ call = [c \in Calls |-> None]
    /\ decided = [k \in Keys |-> "live"]
    /\ justified = [c \in Calls |-> FALSE]

-----------------------------------------------------------------------------
\* MCPKey.is_expired
Expired(row, t) == row.expires # None /\ row.expires <= t

\* MCPKey.granted_scopes
Granted(row) == IF row.scopes = {} THEN DefaultScopes ELSE row.scopes

\* IsStaffOrSuperuser.has_permission
Privileged(f) == f.staff \/ f.superuser

\* authenticate accepts row r at time t (a session has no row to check).
Accepts(c, r, t) ==
    call[c].cred \in Keys => r # None /\ ~ r.revoked /\ ~ Expired(r, t)

\* require_scopes: a superuser bypasses it, a session carries every scope.
InScope(c, r, f) ==
    ~ f.superuser /\ call[c].cred \in Keys => Needs[call[c].tool] \subseteq Granted(r)

\* All that a call has to pass, on a row, a user and a time.
Passes(c, r, f, t) == Accepts(c, r, t) /\ Privileged(f) /\ InScope(c, r, f)

\* The row and the user behind c's credential as they are stored now.
RowOf(c) == IF call[c].cred \in Keys THEN key[call[c].cred] ELSE None
FlagsOf(c) == IF call[c].cred \in Users THEN flags[call[c].cred]
              ELSE IF RowOf(c) # None THEN flags[RowOf(c).user] ELSE NoFlags

\* c could be admitted at this moment.
Authorized(c) == call[c] # None /\ Passes(c, RowOf(c), FlagsOf(c), now)

\* History: every step looks at the state it ends in.
Watch == justified' = [c \in Calls |-> justified[c] \/ Authorized(c)']

-----------------------------------------------------------------------------
(* The Django admin.                                                       *)

\* Mistake: the sign of the default TTL.
AddKeyPast(k, user, scopes, expires) ==
    /\ k \notin minted
    /\ minted' = minted \cup {k}
    /\ key' = [key EXCEPT ![k] =
                 [user |-> user, scopes |-> scopes, revoked |-> FALSE,
                  expires |-> IF expires = None /\ DefaultTTL > 0
                              THEN now - DefaultTTL ELSE expires]]
    /\ UNCHANGED <<flags, now, form, call, decided>>
    /\ Watch

(* save_model, not change: the row gets a date from the default TTL when   *)
(* none was given.                                                         *)
AddKey(k, user, scopes, expires) ==
    /\ k \notin minted
    /\ minted' = minted \cup {k}
    /\ key' = [key EXCEPT ![k] =
                 [user |-> user, scopes |-> scopes, revoked |-> FALSE,
                  expires |-> IF expires = None /\ DefaultTTL > 0
                              THEN now + DefaultTTL ELSE expires]]
    /\ UNCHANGED <<flags, now, form, call, decided>>
    /\ Watch

(* An administrator opens the change form of k.                            *)
OpenForm(a, k) ==
    /\ form[a] = None
    /\ key[k] # None
    /\ form' = [form EXCEPT ![a] = [stage |-> "open", key |-> k,
                                    shown |-> key[k].revoked, posted |-> None]]
    /\ UNCHANGED <<flags, key, minted, now, call, decided>>
    /\ Watch

(* The form is posted; get_object reads the row, and without one the page  *)
(* says so.  Every field of the form is posted, touched or not.            *)
PostForm(a, posted) ==
    /\ form[a] # None
    /\ form[a].stage = "open"
    /\ form' = [form EXCEPT ![a] = IF key[form[a].key] = None THEN None
                                   ELSE [@ EXCEPT !.stage = "saving",
                                                  !.posted = posted]]
    /\ UNCHANGED <<flags, key, minted, now, call, decided>>
    /\ Watch

(* save_model, change: obj.save() updates every column, or inserts the row *)
(* if it is no longer there.  The administrator has decided about the key  *)
(* when the box was changed from what the form showed; a box left empty    *)
(* since before the key was revoked undoes that unseen.                    *)
SaveForm(a) ==
    /\ form[a] # None
    /\ form[a].stage = "saving"
    /\ key' = [key EXCEPT ![form[a].key] = form[a].posted]
    /\ decided' = [decided EXCEPT ![form[a].key] =
                     CASE form[a].posted.revoked # form[a].shown ->
                            IF form[a].posted.revoked THEN "revoked" ELSE "live"
                       [] ~ form[a].posted.revoked /\ ~ form[a].shown /\ @ = "revoked" ->
                            "overruled"
                       [] OTHER -> @]
    /\ form' = [form EXCEPT ![a] = None]
    /\ UNCHANGED <<flags, minted, now, call>>
    /\ Watch

\* Mistake: a filter on expires_at, which leaves out the keys without a date.
RevokeKeysDated(selected) ==
    /\ \A k \in selected : key[k] # None
    /\ key' = [k \in Keys |-> IF k \in selected /\ key[k].expires # None
                              THEN [key[k] EXCEPT !.revoked = TRUE] ELSE key[k]]
    /\ decided' = [k \in Keys |-> IF k \in selected THEN "revoked" ELSE decided[k]]
    /\ UNCHANGED <<flags, minted, now, form, call>>
    /\ Watch

(* The row action: queryset.update(is_revoked=True) on the selected keys.  *)
RevokeKeys(selected) ==
    /\ \A k \in selected : key[k] # None
    /\ key' = [k \in Keys |-> IF k \in selected THEN [key[k] EXCEPT !.revoked = TRUE]
                              ELSE key[k]]
    /\ decided' = [k \in Keys |-> IF k \in selected THEN "revoked" ELSE decided[k]]
    /\ UNCHANGED <<flags, minted, now, form, call>>
    /\ Watch

DeleteKey(k) ==
    /\ key[k] # None
    /\ key' = [key EXCEPT ![k] = None]
    /\ UNCHANGED <<flags, minted, now, form, call, decided>>
    /\ Watch

(* The platform changes a user's flags: promotion, demotion.               *)
SetFlags(u, f) ==
    /\ flags' = [flags EXCEPT ![u] = f]
    /\ UNCHANGED <<key, minted, now, form, call, decided>>
    /\ Watch

Tick ==
    /\ now < MaxTime
    /\ now' = now + 1
    /\ UNCHANGED <<flags, key, minted, form, call, decided>>
    /\ Watch

-----------------------------------------------------------------------------
(* The calls.                                                              *)

(* A client sends a call, with a raw key it was given or in a session.     *)
Send(c, cred, tool) ==
    /\ call[c] = None
    /\ cred \in minted \cup Users
    /\ call' = [call EXCEPT ![c] = [stage |-> "sent", cred |-> cred, tool |-> tool,
                                    row |-> None, flags |-> NoFlags]]
    /\ UNCHANGED <<flags, key, minted, now, form, decided>>
    /\ Watch

\* Mistake: without select_related the user is read later than the row.
ReadKeyOnly(c) ==
    /\ call[c] # None
    /\ call[c].stage = "sent"
    /\ call' = IF call[c].row = None /\ RowOf(c) # None
               THEN [call EXCEPT ![c].row = RowOf(c)]
               ELSE [call EXCEPT ![c].stage = "read",
                                 ![c].flags = IF call[c].row = None THEN FlagsOf(c)
                                              ELSE flags[call[c].row.user]]
    /\ UNCHANGED <<flags, key, minted, now, form, decided>>
    /\ Watch

(* MCPKey.objects.filter(key_hash=...).select_related("user").first(), or  *)
(* the session's user: one query.                                          *)
ReadKey(c) ==
    /\ call[c] # None
    /\ call[c].stage = "sent"
    /\ call' = [call EXCEPT ![c] = [@ EXCEPT !.row = RowOf(c), !.flags = FlagsOf(c),
                                             !.stage = "read"]]
    /\ UNCHANGED <<flags, key, minted, now, form, decided>>
    /\ Watch

\* The decision is taken, the copy of no more use.
Settle(c, stage) ==
    call' = [call EXCEPT ![c] = [@ EXCEPT !.stage = stage, !.row = None,
                                          !.flags = NoFlags]]

(* authenticate, has_permission and require_scopes on the copy; the time   *)
(* is the current one.                                                     *)
Admit(c) ==
    /\ call[c] # None
    /\ call[c].stage = "read"
    /\ Passes(c, call[c].row, call[c].flags, now)
    /\ Settle(c, "admitted")
    /\ UNCHANGED <<flags, key, minted, now, form, decided>>
    /\ Watch

(* 401 or 403.                                                             *)
Refuse(c) ==
    /\ call[c] # None
    /\ call[c].stage = "read"
    /\ ~ Passes(c, call[c].row, call[c].flags, now)
    /\ Settle(c, "refused")
    /\ UNCHANGED <<flags, key, minted, now, form, decided>>
    /\ Watch

\* set_global_staff, set_superuser: one flag of one user.
GrantOrRevoke(u, value) ==
    \/ flags' = [flags EXCEPT ![u].staff = value]
    \/ flags' = [flags EXCEPT ![u].superuser = value]

(* The tool does its work; an admin level of set_role changes flags.       *)
Act(c) ==
    /\ call[c] # None
    /\ call[c].stage = "admitted"
    /\ call' = [call EXCEPT ![c].stage = "acted"]
    /\ IF call[c].tool \in AdminTools
       THEN \E u \in Users, value \in BOOLEAN : GrantOrRevoke(u, value)
       ELSE UNCHANGED flags
    /\ UNCHANGED <<key, minted, now, form, decided>>
    /\ Watch

-----------------------------------------------------------------------------
\* What can be typed into the forms.
Dates == 0..MaxTime \cup {None}
Typed == [user : Users, scopes : Choices, revoked : BOOLEAN, expires : Dates]

Administration ==
    \/ \E k \in Keys, u \in Users, s \in Choices, d \in Dates : AddKey(k, u, s, d)
    \/ \E a \in Admins : \/ \E k \in Keys : OpenForm(a, k)
                         \/ \E posted \in Typed : PostForm(a, posted)
                         \/ SaveForm(a)
    \/ \E selected \in SUBSET Keys : RevokeKeys(selected)
    \/ \E k \in Keys : DeleteKey(k)
    \/ \E u \in Users, f \in Flags : SetFlags(u, f)

Calling ==
    \E c \in Calls :
        \/ \E cred \in Keys \cup Users, t \in Tools : Send(c, cred, t)
        \/ ReadKey(c) \/ Admit(c) \/ Refuse(c) \/ Act(c)

Next == Administration \/ Tick \/ Calling

Spec == Init /\ [][Next]_vars

-----------------------------------------------------------------------------
(* Properties.                                                             *)

(* "Re-checked LIVE on every request": a call that acts was entitled to at *)
(* one single moment after it was sent: its key was there, not revoked and *)
(* not expired, its owner was staff or superuser, and it was in scope, all *)
(* at once.  Hence a key that is dead, or whose user is demoted, before    *)
(* the call is sent and stays so does nothing, and a key and a user that   *)
(* were each in order, but never together, are not enough.                 *)
AuthorityMoment ==
    \A c \in Calls :
        call[c] # None /\ call[c].stage \in {"admitted", "acted"} => justified[c]

(* "Revoke any time via the row action": once an administrator has decided *)
(* to revoke a key it is revoked, whatever is saved, deleted and saved     *)
(* back meanwhile, until one decides otherwise.  The only other way to     *)
(* lose a revocation is a form opened before it, saved with the box as it  *)
(* was: the form posts every field.                                        *)
RevocationSticks ==
    \A k \in Keys : decided[k] = "revoked" /\ key[k] # None => key[k].revoked
=============================================================================
