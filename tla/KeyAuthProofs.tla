---------------------------- MODULE KeyAuthProofs ----------------------------
(***************************************************************************)
(* Proofs about module KeyAuth, for any sets of calls, keys, users, tabs,  *)
(* tools and scopes.                                                       *)
(***************************************************************************)
EXTENDS KeyAuth, TLAPS

-----------------------------------------------------------------------------
(* The copy a call takes is a row, or none, and flags.                     *)
LEMMA CopyType ==
  ASSUME KeyTypeOK, NEW c \in Calls, call[c] # None
  PROVE  RowOf(c) \in Row \cup {None} /\ FlagsOf(c) \in Flags
  BY DEF KeyTypeOK, RowOf, FlagsOf, CallRecord, Row, Flags, NoFlags

(* The history variable is a function to the Booleans that only grows, and *)
(* is TRUE of every call that is authorized in the state reached.          *)
LEMMA WatchGrows ==
  ASSUME KeyTypeOK, Watch
  PROVE  /\ justified' \in [Calls -> BOOLEAN]
         /\ \A c \in Calls : justified[c] => justified'[c]
         /\ \A c \in Calls : Authorized(c)' => justified'[c]
<1>1. ASSUME NEW c \in Calls PROVE (justified[c] \/ Authorized(c)') \in BOOLEAN
  BY Zenon DEF KeyTypeOK, Authorized, Passes
<1> QED
  BY <1>1, Zenon DEF Watch, KeyTypeOK

(* Settling c changes the record of c only, which then has the new stage.  *)
LEMMA SettledType ==
  ASSUME KeyTypeOK, NEW c \in Calls, call[c] # None,
         NEW stage \in {"admitted", "refused"}, Settle(c, stage)
  PROVE  /\ call' \in [Calls -> CallRecord \cup {None}]
         /\ call'[c].stage = stage
<1>1. call[c] \in CallRecord
  BY DEF KeyTypeOK
<1>2. [call[c] EXCEPT !.stage = stage, !.row = None, !.flags = NoFlags] \in CallRecord
  BY <1>1 DEF CallRecord, NoFlags, Flags
<1> QED
  BY <1>1, <1>2 DEF Settle, KeyTypeOK, CallRecord

LEMMA KeyTypeInit == Init => KeyTypeOK
  BY DEF Init, KeyTypeOK

LEMMA KeyTypeStep == KeyTypeOK /\ [Next]_vars => KeyTypeOK'
<1> SUFFICES ASSUME KeyTypeOK, [Next]_vars PROVE KeyTypeOK'
  OBVIOUS
<1>w. Watch => justified' \in [Calls -> BOOLEAN]
  BY WatchGrows
<1> USE <1>w DEF KeyTypeOK
<1>1. ASSUME NEW k \in Keys, NEW u \in Users, NEW s \in Choices, NEW d \in Dates,
             AddKey(k, u, s, d)
      PROVE KeyTypeOK'
  BY <1>1, KeyAssumption DEF AddKey, Row, Dates
<1>2. ASSUME NEW a \in Admins, NEW k \in Keys, OpenForm(a, k) PROVE KeyTypeOK'
  BY <1>2 DEF OpenForm, Form, Row
<1>3. ASSUME NEW a \in Admins, NEW posted \in Typed, PostForm(a, posted)
      PROVE KeyTypeOK'
  <2>1. posted \in Row
    BY <1>3, KeyAssumption DEF Typed, Row, Dates
  <2> QED
    BY <1>3, <2>1 DEF PostForm, Form
<1>4. ASSUME NEW a \in Admins, SaveForm(a) PROVE KeyTypeOK'
  BY <1>4 DEF SaveForm, Form
<1>5. ASSUME NEW selected \in SUBSET Keys, RevokeKeys(selected) PROVE KeyTypeOK'
  BY <1>5 DEF RevokeKeys, Row
<1>6. ASSUME NEW k \in Keys, DeleteKey(k) PROVE KeyTypeOK'
  BY <1>6 DEF DeleteKey
<1>7. ASSUME NEW u \in Users, NEW f \in Flags, SetFlags(u, f) PROVE KeyTypeOK'
  BY <1>7 DEF SetFlags
<1>8. CASE Tick
  BY <1>8 DEF Tick
<1>9. ASSUME NEW c \in Calls, NEW cred \in Keys \cup Users, NEW t \in Tools,
             Send(c, cred, t)
      PROVE KeyTypeOK'
  BY <1>9 DEF Send, CallRecord, NoFlags, Flags
<1>10. ASSUME NEW c \in Calls, ReadKey(c) PROVE KeyTypeOK'
  BY <1>10, CopyType DEF ReadKey, CallRecord
<1>11. ASSUME NEW c \in Calls, Admit(c) PROVE KeyTypeOK'
  BY <1>11, SettledType DEF Admit
<1>12. ASSUME NEW c \in Calls, Refuse(c) PROVE KeyTypeOK'
  BY <1>12, SettledType DEF Refuse
<1>13. ASSUME NEW c \in Calls, Act(c) PROVE KeyTypeOK'
  <2>1. flags' \in [Users -> Flags]
    BY <1>13 DEF Act, GrantOrRevoke, Flags
  <2> QED
    BY <1>13, <2>1 DEF Act, CallRecord
<1>14. CASE UNCHANGED vars
  BY <1>14 DEF vars
<1> QED
  BY <1>1, <1>2, <1>3, <1>4, <1>5, <1>6, <1>7, <1>8, <1>9, <1>10, <1>11, <1>12,
     <1>13, <1>14
  DEF Next, Administration, Calling

(* Rows, forms, calls and flags always have their types: in particular no  *)
(* key has a date before the epoch and no saved form is without its data.  *)
THEOREM KeyTypeCorrect == Spec => []KeyTypeOK
  BY KeyTypeInit, KeyTypeStep, PTL DEF Spec

-----------------------------------------------------------------------------
(* The inductive invariant.  A copy that would be accepted now was already *)
(* in order, all at once, when it was taken: the rest of the copy does not *)
(* change, and time only makes it worse.                                   *)
CopyJustified ==
    \A c \in Calls :
        /\ call[c] # None
        /\ call[c].stage = "read"
        /\ Passes(c, call[c].row, call[c].flags, now)
        => justified[c]

KeyInv == KeyTypeOK /\ CopyJustified /\ AuthorityMoment

(* A row that is not expired later was not expired before.                 *)
LEMMA ExpiryIsFinal ==
  ASSUME NEW c, NEW r \in Row \cup {None}, NEW f, NEW t \in Nat, NEW u \in Nat, t <= u,
         Passes(c, r, f, u)
  PROVE  Passes(c, r, f, t)
<1>1. CASE r = None
  BY <1>1 DEF Passes, Accepts
<1>2. CASE r # None
  <2>1. Expired(r, t) => Expired(r, u)
    BY <1>2 DEF Expired, Row
  <2> QED
    BY <2>1 DEF Passes, Accepts
<1> QED
  BY <1>1, <1>2

LEMMA KeyInvInit == Init => KeyInv
  BY KeyTypeInit DEF Init, KeyInv, CopyJustified, AuthorityMoment

(* Administration and the platform leave the calls and the time alone.     *)
LEMMA CallsUntouched ==
  ASSUME KeyInv, KeyTypeOK', Watch, UNCHANGED <<call, now>>
  PROVE  KeyInv'
  BY WatchGrows
  DEF KeyInv, CopyJustified, AuthorityMoment, Passes, Accepts, InScope

(* A step of call c changes only its own record.                           *)
LEMMA OthersUntouched ==
  ASSUME KeyInv, Watch, UNCHANGED now, NEW c \in Calls, NEW record,
         call' = [call EXCEPT ![c] = record],
         NEW d \in Calls, d # c
  PROVE  /\ call'[d] = call[d]
         /\ /\ call'[d] # None
            /\ call'[d].stage = "read"
            /\ Passes(d, call[d].row, call[d].flags, now)'
            => justified'[d]
         /\ call'[d] # None /\ call'[d].stage \in {"admitted", "acted"} => justified'[d]
<1>1. call'[d] = call[d]
  BY DEF KeyInv, KeyTypeOK
<1> QED
  BY <1>1, WatchGrows
  DEF KeyInv, CopyJustified, AuthorityMoment, Passes, Accepts, InScope

LEMMA KeyInvStep == KeyInv /\ [Next]_vars => KeyInv'
<1> SUFFICES ASSUME KeyInv, [Next]_vars PROVE KeyInv'
  OBVIOUS
<1>0. KeyTypeOK'
  BY KeyTypeStep DEF KeyInv
<1>1. CASE Administration
  <2>1. UNCHANGED <<call, now>> /\ Watch
    BY <1>1 DEF Administration, AddKey, OpenForm, PostForm, SaveForm, RevokeKeys,
                DeleteKey, SetFlags
  <2> QED
    BY <2>1, <1>0, CallsUntouched
<1>2. CASE Tick
  <2>1. now \in Nat /\ now' \in Nat /\ now <= now' /\ UNCHANGED call /\ Watch
    BY <1>2 DEF Tick, KeyInv, KeyTypeOK
  <2>2. AuthorityMoment'
    BY <2>1, WatchGrows DEF KeyInv, AuthorityMoment
  <2>3. CopyJustified'
    <3> SUFFICES ASSUME NEW c \in Calls, call[c] # None, call[c].stage = "read",
                        Passes(c, call[c].row, call[c].flags, now')
                 PROVE  justified'[c]
      BY <2>1 DEF CopyJustified, Passes, Accepts, InScope
    <3>1. call[c].row \in Row \cup {None}
      BY DEF KeyInv, KeyTypeOK, CallRecord
    <3>2. Passes(c, call[c].row, call[c].flags, now)
      BY <2>1, <3>1, ExpiryIsFinal
    <3> QED
      BY <2>1, <3>2, WatchGrows DEF KeyInv, CopyJustified
  <2> QED
    BY <1>0, <2>2, <2>3 DEF KeyInv
<1>3. ASSUME NEW c \in Calls, NEW cred \in Keys \cup Users, NEW t \in Tools,
             Send(c, cred, t)
      PROVE KeyInv'
  <2>1. call'[c] # None => call'[c].stage = "sent"
    BY <1>3 DEF Send, KeyInv, KeyTypeOK
  <2> QED
    BY <1>0, <1>3, <2>1, OthersUntouched
    DEF Send, KeyInv, CopyJustified, AuthorityMoment
<1>4. ASSUME NEW c \in Calls, ReadKey(c) PROVE KeyInv'
  <2> DEFINE record == [call[c] EXCEPT !.row = RowOf(c), !.flags = FlagsOf(c),
                                       !.stage = "read"]
  <2>1. /\ call' = [call EXCEPT ![c] = record]
        /\ Watch
        /\ UNCHANGED <<flags, key, now>>
    BY <1>4 DEF ReadKey
  <2>a. call[c] \in CallRecord /\ call'[c] = record
    BY <1>4, <2>1 DEF ReadKey, KeyInv, KeyTypeOK
  <2>b. /\ call'[c].cred = call[c].cred
        /\ call'[c].stage = "read"
        /\ call'[c].row = RowOf(c)
        /\ call'[c].flags = FlagsOf(c)
    BY <2>a DEF CallRecord
  <2>2. /\ call'[c].row = RowOf(c)'
        /\ call'[c].flags = FlagsOf(c)'
    BY <2>1, <2>b DEF RowOf, FlagsOf
  <2>3. call'[c] # None /\ Passes(c, call[c].row, call[c].flags, now)' => justified'[c]
    BY <2>1, <2>2, WatchGrows DEF Authorized, KeyInv
  <2> QED
    BY <1>0, <2>1, <2>b, <2>3, OthersUntouched DEF KeyInv, CopyJustified, AuthorityMoment
<1>5. ASSUME NEW c \in Calls, Admit(c) PROVE KeyInv'
  <2>1. justified'[c] /\ call'[c].stage = "admitted"
    BY <1>5, WatchGrows, SettledType DEF Admit, KeyInv, CopyJustified
  <2> QED
    BY <1>0, <1>5, <2>1, OthersUntouched
    DEF Admit, Settle, KeyInv, CopyJustified, AuthorityMoment
<1>6. ASSUME NEW c \in Calls, Refuse(c) PROVE KeyInv'
  <2>1. call'[c].stage = "refused"
    BY <1>6, SettledType DEF Refuse, KeyInv
  <2> QED
    BY <1>0, <1>6, <2>1, OthersUntouched
    DEF Refuse, Settle, KeyInv, CopyJustified, AuthorityMoment
<1>7. ASSUME NEW c \in Calls, Act(c) PROVE KeyInv'
  <2>1. justified'[c] /\ call'[c].stage = "acted"
    BY <1>7, WatchGrows DEF Act, KeyInv, AuthorityMoment, KeyTypeOK, CallRecord
  <2> QED
    BY <1>0, <1>7, <2>1, OthersUntouched
    DEF Act, KeyInv, CopyJustified, AuthorityMoment
<1>8. CASE UNCHANGED vars
  BY <1>0, <1>8
  DEF vars, KeyInv, CopyJustified, AuthorityMoment, Passes, Accepts, InScope
<1> QED
  BY <1>1, <1>2, <1>3, <1>4, <1>5, <1>6, <1>7, <1>8 DEF Next, Calling

(* Every call that acts was entitled to at one single moment after it was  *)
(* sent.                                                                   *)
THEOREM AuthorityMomentHolds == Spec => []AuthorityMoment
<1>1. KeyInv => AuthorityMoment
  BY DEF KeyInv
<1> QED
  BY <1>1, KeyInvInit, KeyInvStep, PTL DEF Spec
-----------------------------------------------------------------------------
(* RevocationSticks by itself is not inductive: a key could be decided on  *)
(* before it exists, and be added, not revoked, afterwards.  What is added *)
(* to it is that rows, forms and decisions are of keys once added.         *)
MintedFirst ==
    /\ \A k \in Keys : key[k] # None \/ decided[k] # "live" => k \in minted
    /\ \A a \in Admins : form[a] # None => form[a].key \in minted

RevocationInv == KeyTypeOK /\ MintedFirst /\ RevocationSticks

LEMMA RevocationInvStep == RevocationInv /\ [Next]_vars => RevocationInv'
<1> SUFFICES ASSUME RevocationInv, [Next]_vars PROVE RevocationInv'
  OBVIOUS
<1>0. KeyTypeOK'
  BY KeyTypeStep DEF RevocationInv
<1> USE <1>0 DEF RevocationInv, MintedFirst, RevocationSticks, KeyTypeOK
<1>1. ASSUME NEW k \in Keys, NEW u \in Users, NEW s \in Choices, NEW d \in Dates,
             AddKey(k, u, s, d)
      PROVE RevocationInv'
  BY <1>1 DEF AddKey
<1>2. ASSUME NEW a \in Admins, NEW k \in Keys, OpenForm(a, k) PROVE RevocationInv'
  BY <1>2 DEF OpenForm, Form
<1>3. ASSUME NEW a \in Admins, NEW posted \in Typed, PostForm(a, posted)
      PROVE RevocationInv'
  BY <1>3 DEF PostForm, Form
<1>4. ASSUME NEW a \in Admins, SaveForm(a) PROVE RevocationInv'
  BY <1>4 DEF SaveForm, Form
<1>5. ASSUME NEW selected \in SUBSET Keys, RevokeKeys(selected) PROVE RevocationInv'
  BY <1>5 DEF RevokeKeys, Row
<1>6. ASSUME NEW k \in Keys, DeleteKey(k) PROVE RevocationInv'
  BY <1>6 DEF DeleteKey
<1>7. ASSUME NEW u \in Users, NEW f \in Flags, SetFlags(u, f) PROVE RevocationInv'
  BY <1>7 DEF SetFlags
<1>8. CASE Tick \/ Calling
  BY <1>8 DEF Tick, Calling, Send, ReadKey, Admit, Refuse, Act
<1>9. CASE UNCHANGED vars
  BY <1>9 DEF vars
<1> QED
  BY <1>1, <1>2, <1>3, <1>4, <1>5, <1>6, <1>7, <1>8, <1>9 DEF Next, Administration

(* A key an administrator decided to revoke is revoked until one decides   *)
(* otherwise or a form opened before that decision is saved over it.       *)
THEOREM RevocationSticksHolds == Spec => []RevocationSticks
<1>1. Init => RevocationInv
  BY KeyTypeInit DEF Init, RevocationInv, MintedFirst, RevocationSticks
<1>2. RevocationInv => RevocationSticks
  BY DEF RevocationInv
<1> QED
  BY <1>1, <1>2, RevocationInvStep, PTL DEF Spec
=============================================================================
