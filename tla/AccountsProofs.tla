--------------------------- MODULE AccountsProofs ---------------------------
(***************************************************************************)
(* Proofs about Accounts, for any number of calls, accounts and levels.    *)
(***************************************************************************)
EXTENDS Accounts, TLAPS

\* What a looked-up call holds is a request and a row.
LEMMA Looked ==
    ASSUME AccountsTypeOK, NEW c \in Calls, call[c].pc = "looked"
    PROVE  /\ call[c].req \in Request
           /\ call[c].copy \in Row
           /\ call[c].req.name.of \in Accounts
<1>1. call[c] \in [pc : {"looked"}, req : Request, copy : Row]
  BY DEF AccountsTypeOK, Call
<1>2. call[c].req \in Request /\ call[c].copy \in Row
  BY <1>1
<1>3. call[c].req.name \in Name
  BY <1>2 DEF Request
<1>. QED
  BY <1>2, <1>3 DEF Name

\* The two kinds of save keep the types of what they write.
LEMMA ColumnTypes ==
    ASSUME AccountsTypeOK, NEW u \in Accounts, NEW col \in Columns,
           NEW v \in BOOLEAN, SaveColumn(u, col, v)
    PROVE  /\ account' \in [Accounts -> Row]
           /\ asked' \in [Accounts -> Row]
           /\ excused' \in [Accounts -> SUBSET (Columns \cup Levels)]
BY DEF AccountsTypeOK, SaveColumn, Row

LEMMA WholeTypes ==
    ASSUME AccountsTypeOK, NEW u \in Accounts, NEW copy \in Row,
           NEW cols \in SUBSET Columns, NEW v \in BOOLEAN,
           SaveWhole(u, copy, cols, v)
    PROVE  /\ account' \in [Accounts -> Row]
           /\ asked' \in [Accounts -> Row]
           /\ excused' \in [Accounts -> SUBSET (Columns \cup Levels)]
<1>1. [col \in Columns |-> IF col \in cols THEN v ELSE copy[col]] \in Row
  BY DEF Row
<1>2. [col \in Columns |-> IF col \in cols THEN v ELSE asked[u][col]] \in Row
  BY DEF Row, AccountsTypeOK
<1>. QED
  BY <1>1, <1>2 DEF AccountsTypeOK, SaveWhole

LEMMA EndTypes ==
    ASSUME AccountsTypeOK, NEW c \in Calls, End(c)
    PROVE  call' \in [Calls -> Call]
BY DEF AccountsTypeOK, End, Call

-----------------------------------------------------------------------------
LEMMA TypeInit == Init => AccountsTypeOK
<1>. SUFFICES ASSUME Init PROVE AccountsTypeOK
  OBVIOUS
<1>1. account \in [Accounts -> Row]
  BY DEF Init
<1>. QED
  BY <1>1 DEF Init, AccountsTypeOK, Call

LEMMA TypeStep == AccountsTypeOK /\ [Next]_vars => AccountsTypeOK'
<1>. SUFFICES ASSUME AccountsTypeOK, [Next]_vars PROVE AccountsTypeOK'
  OBVIOUS
<1>1. ASSUME NEW c \in Calls, NEW r \in Request, Look(c, r)
      PROVE  AccountsTypeOK'
  <2>1. r.name \in Name
    BY DEF Request
  <2>2. account[r.name.of] \in Row
    BY <2>1 DEF Name, AccountsTypeOK
  <2>3. [pc |-> "looked", req |-> r, copy |-> account[r.name.of]] \in Call
    BY <2>2 DEF Call
  <2>. QED
    BY <1>1, <2>3 DEF Look, AccountsTypeOK
<1>2. ASSUME NEW c \in Calls, NEW r \in Request, Refuse(c, r)
      PROVE  AccountsTypeOK'
  BY <1>2, EndTypes DEF Refuse, AccountsTypeOK
<1>3. ASSUME NEW c \in Calls, Fail(c)
      PROVE  AccountsTypeOK'
  BY <1>3, EndTypes DEF Fail, AccountsTypeOK
<1>4. ASSUME NEW c \in Calls, SetGlobalStaff(c)
      PROVE  AccountsTypeOK'
  <2>. DEFINE r == call[c].req
              u == r.name.of
              copy == call[c].copy
  <2>1. /\ call[c].pc = "looked" /\ r \in Request
        /\ u \in Accounts /\ copy \in Row
    BY <1>4, Looked DEF SetGlobalStaff
  <2>2. r.grant \in BOOLEAN
    BY <1>4, <2>1 DEF SetGlobalStaff, OfAccount, Request
  <2>3. /\ account' \in [Accounts -> Row]
        /\ asked' \in [Accounts -> Row]
        /\ excused' \in [Accounts -> SUBSET (Columns \cup Levels)]
    <3>1. CASE r.grant /\ ~copy["active"]
      <4>1. /\ account' = account
            /\ asked' = [asked EXCEPT ![u]["staff"] = TRUE]
            /\ excused' = [excused EXCEPT ![u] = @ \cup {"staff"}]
        BY <1>4, <3>1 DEF SetGlobalStaff
      <4>2. asked' \in [Accounts -> Row]
        BY <2>1, <4>1 DEF AccountsTypeOK, Row
      <4>. QED
        BY <2>1, <4>1, <4>2 DEF AccountsTypeOK, Columns
    <3>2. CASE ~(r.grant /\ ~copy["active"])
      BY <1>4, <2>1, <2>2, <3>2, WholeTypes DEF SetGlobalStaff, Columns
    <3>. QED
      BY <3>1, <3>2
  <2>. QED
    BY <1>4, <2>3, EndTypes DEF SetGlobalStaff, AccountsTypeOK
<1>5. ASSUME NEW c \in Calls, SetSuperuser(c)
      PROVE  AccountsTypeOK'
  <2>. DEFINE r == call[c].req
  <2>1. r \in Request /\ r.name.of \in Accounts
    BY <1>5, Looked DEF SetSuperuser
  <2>2. r.grant \in BOOLEAN
    BY <1>5, <2>1 DEF SetSuperuser, OfAccount, Request
  <2>. QED
    BY <1>5, <2>1, <2>2, ColumnTypes, EndTypes DEF SetSuperuser, AccountsTypeOK, Columns
<1>6. ASSUME NEW c \in Calls, ChangeCourseRole(c)
      PROVE  AccountsTypeOK'
  BY <1>6, Looked, EndTypes DEF ChangeCourseRole, OfCourse, AccountsTypeOK
<1>7. ASSUME NEW c \in Calls, Deactivate(c)
      PROVE  AccountsTypeOK'
  <2>1. call[c].req.name.of \in Accounts
    BY <1>7, Looked DEF Deactivate
  <2>. QED
    BY <1>7, <2>1, ColumnTypes, EndTypes DEF Deactivate, AccountsTypeOK, Columns
<1>8. ASSUME NEW c \in Calls, RequestRetirement(c)
      PROVE  AccountsTypeOK'
  <2>. DEFINE r == call[c].req
  <2>1. r.name.of \in Accounts /\ call[c].copy \in Row
    BY <1>8, Looked DEF RequestRetirement
  <2>2. /\ account' \in [Accounts -> Row]
        /\ asked' \in [Accounts -> Row]
        /\ excused' \in [Accounts -> SUBSET (Columns \cup Levels)]
    <3>1. CASE r.full
      BY <1>8, <2>1, <3>1, WholeTypes DEF RequestRetirement, Columns
    <3>2. CASE ~r.full
      BY <1>8, <3>2 DEF RequestRetirement, AccountsTypeOK
    <3>. QED
      BY <3>1, <3>2
  <2>. QED
    BY <1>8, <2>1, <2>2, EndTypes DEF RequestRetirement, AccountsTypeOK
<1>9. ASSUME NEW u \in Accounts, Activate(u)
      PROVE  AccountsTypeOK'
  BY <1>9, ColumnTypes DEF Activate, AccountsTypeOK, Columns
<1>10. CASE UNCHANGED vars
  BY <1>10 DEF vars, AccountsTypeOK
<1>. QED
  BY <1>1, <1>2, <1>3, <1>4, <1>5, <1>6, <1>7, <1>8, <1>9, <1>10 DEF Next, Save

(***************************************************************************)
(* The variables of Accounts keep their types.                             *)
(***************************************************************************)
THEOREM AccountsTypeCorrect == Spec => []AccountsTypeOK
BY TypeInit, TypeStep, PTL DEF Spec

-----------------------------------------------------------------------------
\* A save leaves every column as asked that was as asked, or excuses it.
LEMMA ColumnKeeps ==
    ASSUME AccountsTypeOK, StandingAsAsked,
           NEW u \in Accounts, NEW col \in Columns, NEW v \in BOOLEAN,
           SaveColumn(u, col, v), UNCHANGED <<roles, wanted>>
    PROVE  StandingAsAsked'
<1>. SUFFICES ASSUME NEW w \in Accounts
              PROVE  /\ \A k \in Columns \ excused'[w] : account'[w][k] = asked'[w][k]
                     /\ \A l \in Levels \ excused'[w] : l \in roles[w] <=> l \in wanted[w]
  BY DEF StandingAsAsked
<1>1. CASE w # u
  BY <1>1 DEF SaveColumn, StandingAsAsked, AccountsTypeOK
<1>2. CASE w = u
  <2>1. excused'[u] = excused[u] \ {col}
    BY DEF SaveColumn, AccountsTypeOK
  <2>2. ASSUME NEW k \in Columns \ excused'[u]
        PROVE  account'[u][k] = asked'[u][k]
    BY <2>1, <2>2 DEF SaveColumn, StandingAsAsked, AccountsTypeOK, Row
  <2>3. Levels \ excused'[u] = Levels \ excused[u]
    BY <2>1, AccountsAssumption DEF Columns
  <2>. QED
    BY <1>2, <2>2, <2>3 DEF StandingAsAsked
<1>. QED
  BY <1>1, <1>2

LEMMA WholeKeeps ==
    ASSUME AccountsTypeOK, StandingAsAsked,
           NEW u \in Accounts, NEW copy \in Row,
           NEW cols \in SUBSET Columns, NEW v \in BOOLEAN,
           SaveWhole(u, copy, cols, v), UNCHANGED <<roles, wanted>>
    PROVE  StandingAsAsked'
<1>. SUFFICES ASSUME NEW w \in Accounts
              PROVE  /\ \A k \in Columns \ excused'[w] : account'[w][k] = asked'[w][k]
                     /\ \A l \in Levels \ excused'[w] : l \in roles[w] <=> l \in wanted[w]
  BY DEF StandingAsAsked
<1>1. CASE w # u
  BY <1>1 DEF SaveWhole, StandingAsAsked, AccountsTypeOK
<1>2. CASE w = u
  <2>. DEFINE stale == {col \in Columns : copy[col] # account[u][col]}
  <2>1. excused'[u] = (excused[u] \cup stale) \ cols
    BY DEF SaveWhole, AccountsTypeOK
  <2>2. ASSUME NEW k \in Columns \ excused'[u]
        PROVE  account'[u][k] = asked'[u][k]
    <3>1. /\ account'[u][k] = (IF k \in cols THEN v ELSE copy[k])
          /\ asked'[u][k] = (IF k \in cols THEN v ELSE asked[u][k])
      BY DEF SaveWhole, AccountsTypeOK
    <3>2. CASE k \in cols
      BY <3>1, <3>2
    <3>3. CASE k \notin cols
      BY <2>1, <2>2, <3>1, <3>3 DEF StandingAsAsked
    <3>. QED
      BY <3>2, <3>3
  <2>3. Levels \ excused'[u] = Levels \ excused[u]
    BY <2>1, AccountsAssumption DEF Columns
  <2>. QED
    BY <1>2, <2>2, <2>3 DEF StandingAsAsked
<1>. QED
  BY <1>1, <1>2

LEMMA StandingStep ==
    AccountsTypeOK /\ StandingAsAsked /\ [Next]_vars => StandingAsAsked'
<1>. SUFFICES ASSUME AccountsTypeOK, StandingAsAsked, [Next]_vars
              PROVE  StandingAsAsked'
  OBVIOUS
<1>1. ASSUME NEW c \in Calls, NEW r \in Request, Look(c, r) \/ Refuse(c, r)
      PROVE  StandingAsAsked'
  BY <1>1 DEF Look, Refuse, StandingAsAsked
<1>2. ASSUME NEW c \in Calls, Fail(c)
      PROVE  StandingAsAsked'
  BY <1>2 DEF Fail, StandingAsAsked
<1>3. ASSUME NEW c \in Calls, SetGlobalStaff(c)
      PROVE  StandingAsAsked'
  <2>. DEFINE r == call[c].req
              u == r.name.of
              copy == call[c].copy
  <2>1. r \in Request /\ u \in Accounts /\ copy \in Row
    BY <1>3, Looked DEF SetGlobalStaff
  <2>2. r.grant \in BOOLEAN
    BY <1>3, <2>1 DEF SetGlobalStaff, OfAccount, Request
  <2>3. CASE r.grant /\ ~copy["active"]
    <3>1. /\ account' = account /\ roles' = roles /\ wanted' = wanted
          /\ asked' = [asked EXCEPT ![u]["staff"] = TRUE]
          /\ excused' = [excused EXCEPT ![u] = @ \cup {"staff"}]
      BY <1>3, <2>3 DEF SetGlobalStaff
    <3>. QED
      BY <2>1, <3>1 DEF StandingAsAsked, AccountsTypeOK, Row
  <2>4. CASE ~(r.grant /\ ~copy["active"])
    BY <1>3, <2>1, <2>2, <2>4, WholeKeeps DEF SetGlobalStaff, Columns
  <2>. QED
    BY <2>3, <2>4
<1>4. ASSUME NEW c \in Calls, SetSuperuser(c)
      PROVE  StandingAsAsked'
  <2>. DEFINE r == call[c].req
  <2>1. r \in Request /\ r.name.of \in Accounts
    BY <1>4, Looked DEF SetSuperuser
  <2>2. r.grant \in BOOLEAN
    BY <1>4, <2>1 DEF SetSuperuser, OfAccount, Request
  <2>. QED
    BY <1>4, <2>1, <2>2, ColumnKeeps DEF SetSuperuser, Columns
<1>5. ASSUME NEW c \in Calls, ChangeCourseRole(c)
      PROVE  StandingAsAsked'
  <2>. DEFINE r == call[c].req
              u == r.name.of
  <2>1. u \in Accounts /\ r.level \notin Columns
    BY <1>5, Looked, AccountsAssumption DEF ChangeCourseRole, OfCourse, Columns
  <2>2. /\ account' = account /\ asked' = asked
        /\ \A w \in Accounts \ {u} : /\ roles'[w] = roles[w]
                                     /\ wanted'[w] = wanted[w]
                                     /\ excused'[w] = excused[w]
    BY <1>5 DEF ChangeCourseRole, AccountsTypeOK
  <2>3. CASE r.grant /\ ~call[c].copy["active"]
    <3>1. /\ roles'[u] = roles[u]
          /\ wanted'[u] = wanted[u] \cup {r.level}
          /\ excused'[u] = excused[u] \cup {r.level}
      BY <1>5, <2>1, <2>3 DEF ChangeCourseRole, AccountsTypeOK
    <3>. QED
      BY <2>1, <2>2, <3>1 DEF StandingAsAsked
  <2>4. CASE r.grant /\ call[c].copy["active"]
    <3>1. /\ roles'[u] = roles[u] \cup {r.level}
          /\ wanted'[u] = wanted[u] \cup {r.level}
          /\ excused'[u] = excused[u] \ {r.level}
      BY <1>5, <2>1, <2>4 DEF ChangeCourseRole, AccountsTypeOK
    <3>. QED
      BY <2>1, <2>2, <3>1 DEF StandingAsAsked
  <2>5. CASE ~r.grant
    <3>1. /\ roles'[u] = roles[u] \ {r.level}
          /\ wanted'[u] = wanted[u] \ {r.level}
          /\ excused'[u] = excused[u] \ {r.level}
      BY <1>5, <2>1, <2>5 DEF ChangeCourseRole, AccountsTypeOK
    <3>. QED
      BY <2>1, <2>2, <3>1 DEF StandingAsAsked
  <2>. QED
    BY <2>3, <2>4, <2>5
<1>6. ASSUME NEW c \in Calls, Deactivate(c)
      PROVE  StandingAsAsked'
  <2>1. call[c].req.name.of \in Accounts
    BY <1>6, Looked DEF Deactivate
  <2>. QED
    BY <1>6, <2>1, ColumnKeeps DEF Deactivate, Columns
<1>7. ASSUME NEW c \in Calls, RequestRetirement(c)
      PROVE  StandingAsAsked'
  <2>1. call[c].req.name.of \in Accounts /\ call[c].copy \in Row
    BY <1>7, Looked DEF RequestRetirement
  <2>2. CASE call[c].req.full
    BY <1>7, <2>1, <2>2, WholeKeeps DEF RequestRetirement, Columns
  <2>3. CASE ~call[c].req.full
    BY <1>7, <2>3 DEF RequestRetirement, StandingAsAsked
  <2>. QED
    BY <2>2, <2>3
<1>8. ASSUME NEW u \in Accounts, Activate(u)
      PROVE  StandingAsAsked'
  BY <1>8, ColumnKeeps DEF Activate, Columns
<1>9. CASE UNCHANGED vars
  BY <1>9 DEF vars, StandingAsAsked
<1>. QED
  BY <1>1, <1>2, <1>3, <1>4, <1>5, <1>6, <1>7, <1>8, <1>9 DEF Next, Save

(***************************************************************************)
(* Every column and role is as the last successful call asked, unless an   *)
(* older row was saved over it or it was granted to an inactive account.   *)
(***************************************************************************)
THEOREM StandingAsAskedHolds == Spec => []StandingAsAsked
<1>1. Init => StandingAsAsked
  BY DEF Init, StandingAsAsked
<1>. QED
  BY <1>1, StandingStep, AccountsTypeCorrect, PTL DEF Spec

-----------------------------------------------------------------------------
\* Whoever got past the look had the scope its level needs.
GatePassed == \A c \in Calls : call[c].pc = "looked" => Permitted(call[c].req)

LEMMA GateStep == AccountsTypeOK /\ GatePassed /\ [Next]_vars => GatePassed'
<1>. SUFFICES ASSUME AccountsTypeOK, GatePassed, [Next]_vars PROVE GatePassed'
  OBVIOUS
<1>1. ASSUME NEW c \in Calls, NEW r \in Request, Look(c, r)
      PROVE  GatePassed'
  BY <1>1 DEF Look, GatePassed, AccountsTypeOK, Permitted, OfAccount
<1>2. ASSUME NEW c \in Calls, End(c)
      PROVE  GatePassed'
  BY <1>2 DEF End, GatePassed, AccountsTypeOK, Permitted, OfAccount
<1>3. CASE UNCHANGED call
  BY <1>3 DEF GatePassed, Permitted, OfAccount
<1>. QED
  BY <1>1, <1>2, <1>3 DEF Next, Save, Refuse, Fail, SetGlobalStaff, SetSuperuser,
     ChangeCourseRole, Deactivate, RequestRetirement, Activate, vars

\* A save raises a column it does not name only by putting an older row back.
LEMMA ColumnRises ==
    ASSUME AccountsTypeOK, NEW u \in Accounts, NEW k \in Columns, NEW v \in BOOLEAN,
           SaveColumn(u, k, v),
           NEW w \in Accounts, NEW col \in Columns, account'[w][col] # account[w][col]
    PROVE  w = u /\ col = k
BY DEF SaveColumn, AccountsTypeOK, Row

LEMMA WholeRises ==
    ASSUME AccountsTypeOK, NEW u \in Accounts, NEW copy \in Row,
           NEW cols \in SUBSET Columns, NEW v \in BOOLEAN,
           SaveWhole(u, copy, cols, v),
           NEW w \in Accounts, NEW col \in Columns, account'[w][col] # account[w][col]
    PROVE  w = u /\ (col \in cols \/ col \in excused'[w])
<1>1. w = u
  BY DEF SaveWhole, AccountsTypeOK
<1>2. account'[u][col] = IF col \in cols THEN v ELSE copy[col]
  BY DEF SaveWhole, AccountsTypeOK
<1>3. excused'[u] = (excused[u] \cup {k \in Columns : copy[k] # account[u][k]}) \ cols
  BY DEF SaveWhole, AccountsTypeOK
<1>. QED
  BY <1>1, <1>2, <1>3

LEMMA RiseStep ==
    ASSUME AccountsTypeOK, GatePassed, [Next]_vars,
           NEW u \in Accounts, NEW col \in AdminLevels,
           ~account[u][col], account'[u][col], col \notin excused'[u]
    PROVE  \E c \in Calls : /\ call[c].pc = "looked" /\ call'[c].pc = "done"
                            /\ OfAccount(call[c].req)
                            /\ call[c].req.admin
                            /\ call[c].req.name.of = u
<1>. col \in Columns /\ account'[u][col] # account[u][col]
  BY DEF AdminLevels, Columns
<1>1. ASSUME NEW c \in Calls, End(c)
      PROVE  call'[c].pc = "done"
  BY <1>1 DEF End, AccountsTypeOK
<1>2. ASSUME NEW c \in Calls, SetGlobalStaff(c)
      PROVE  OfAccount(call[c].req) /\ call[c].req.name.of = u
  <2>. DEFINE r == call[c].req
              copy == call[c].copy
  <2>1. r \in Request /\ r.name.of \in Accounts /\ copy \in Row
    BY <1>2, Looked DEF SetGlobalStaff
  <2>2. r.grant \in BOOLEAN /\ OfAccount(r)
    BY <1>2, <2>1 DEF SetGlobalStaff, OfAccount, Request
  <2>3. CASE r.grant /\ ~copy["active"]
    BY <1>2, <2>3 DEF SetGlobalStaff
  <2>4. CASE ~(r.grant /\ ~copy["active"])
    <3>1. SaveWhole(r.name.of, copy, {"staff"}, r.grant)
      BY <1>2, <2>4 DEF SetGlobalStaff
    <3>. QED
      BY <2>1, <2>2, <3>1, WholeRises DEF Columns
  <2>. QED
    BY <2>3, <2>4
<1>3. ASSUME NEW c \in Calls, SetSuperuser(c)
      PROVE  OfAccount(call[c].req) /\ call[c].req.name.of = u
  <2>. DEFINE r == call[c].req
  <2>1. r \in Request /\ r.name.of \in Accounts
    BY <1>3, Looked DEF SetSuperuser
  <2>2. r.grant \in BOOLEAN /\ OfAccount(r)
    BY <1>3, <2>1 DEF SetSuperuser, OfAccount, Request
  <2>3. SaveColumn(r.name.of, "superuser", r.grant)
    BY <1>3 DEF SetSuperuser
  <2>. QED
    BY <2>1, <2>2, <2>3, ColumnRises DEF Columns
<1>4. ASSUME NEW c \in Calls, Deactivate(c)
      PROVE  FALSE
  <2>1. call[c].req.name.of \in Accounts
    BY <1>4, Looked DEF Deactivate
  <2>2. SaveColumn(call[c].req.name.of, "active", FALSE)
    BY <1>4 DEF Deactivate
  <2>3. col = "active"
    BY <2>1, <2>2 DEF SaveColumn, AccountsTypeOK, Row, Columns
  <2>. QED
    BY <2>3 DEF AdminLevels
<1>5. ASSUME NEW c \in Calls, RequestRetirement(c)
      PROVE  FALSE
  <2>1. call[c].req.name.of \in Accounts /\ call[c].copy \in Row
    BY <1>5, Looked DEF RequestRetirement
  <2>2. SaveWhole(call[c].req.name.of, call[c].copy, {"hashed"}, TRUE)
    BY <1>5 DEF RequestRetirement
  <2>3. col = "hashed"
    BY <2>1, <2>2 DEF SaveWhole, AccountsTypeOK, Row, Columns
  <2>. QED
    BY <2>3 DEF AdminLevels
<1>6. ASSUME NEW w \in Accounts, Activate(w)
      PROVE  FALSE
  <2>1. SaveColumn(w, "active", TRUE)
    BY <1>6 DEF Activate
  <2>2. col = "active"
    BY <2>1 DEF SaveColumn, AccountsTypeOK, Row, Columns
  <2>. QED
    BY <2>2 DEF AdminLevels
<1>7. PICK c \in Calls : SetGlobalStaff(c) \/ SetSuperuser(c)
  BY <1>4, <1>5, <1>6 DEF Next, Save, Look, Refuse, Fail, ChangeCourseRole, vars
<1>8. call[c].pc = "looked" /\ call'[c].pc = "done"
  BY <1>1, <1>7 DEF SetGlobalStaff, SetSuperuser
<1>9. OfAccount(call[c].req) /\ call[c].req.name.of = u
  BY <1>2, <1>3, <1>7
<1>10. call[c].req.admin
  BY <1>8, <1>9 DEF GatePassed, Permitted
<1>. QED
  BY <1>8, <1>9, <1>10

(***************************************************************************)
(* is_staff and is_superuser rise by calls with grant:admin only, older    *)
(* rows put back excepted.                                                 *)
(***************************************************************************)
THEOREM RisesByScopeHolds == Spec => RisesByScope
<1>1. Init => GatePassed
  BY DEF Init, GatePassed
<1>2. AccountsTypeOK /\ GatePassed /\ [Next]_vars =>
        [\A u \in Accounts, col \in AdminLevels :
           ~account[u][col] /\ account'[u][col] =>
             \/ col \in excused'[u]
             \/ \E c \in Calls : /\ call[c].pc = "looked" /\ call'[c].pc = "done"
                                 /\ OfAccount(call[c].req)
                                 /\ call[c].req.admin
                                 /\ call[c].req.name.of = u]_vars
  BY RiseStep
<1>. QED
  BY <1>1, <1>2, GateStep, AccountsTypeCorrect, PTL DEF Spec, RisesByScope
=============================================================================
