------------------------------ MODULE Accounts ------------------------------
(***************************************************************************)
(* What the tools on accounts and course roles leave behind.               *)
(*                                                                         *)
(*   tool_views.py  set_role, instructor_access, deactivate_user           *)
(*   ops_views.py   request_retirement                                     *)
(*   users.py, roles.py, retirement.py    what they call                   *)
(*                                                                         *)
(* A call looks an account up (Look) and saves it later (one action per    *)
(* tool); in between, other calls save the same account.  Some calls save  *)
(* the one column they change, others the whole row as they read it.  A    *)
(* save takes effect with the end of the call's transaction: until then    *)
(* others read the old row and, if they save it themselves, wait.          *)
(***************************************************************************)
CONSTANTS Calls, Accounts,
          Levels        \* course roles, of one course

\* "staff" is the column; the course role of that name has another here.
ASSUME AccountsAssumption == Levels \cap {"active", "staff", "superuser", "hashed"} = {}

VARIABLES account,      \* account[u]: the row of auth_user
          roles,        \* roles[u]: the CourseAccessRole rows
          queue,        \* the accounts with a retirement request
          call,         \* call[c]: where call c is, and its copy of the row
          asked,        \* history: asked[u], the row as the calls wanted it
          wanted,       \* history: wanted[u], the roles as the calls wanted them
          excused       \* history: excused[u], the columns that a save of an
                        \* older row put back, and the roles and columns that an
                        \* inactive account was granted in vain

vars == <<account, roles, queue, call, asked, wanted, excused>>

-----------------------------------------------------------------------------
\* hashed: username and email are replaced, nobody finds the account any more.
Columns == {"active", "staff", "superuser", "hashed"}

Row == [Columns -> BOOLEAN]

AdminLevels == {"staff", "superuser"}

Name == [of : Accounts, by : {"username", "email"}]

\* grant: the action is "grant"; admin: the credential has grant:admin.
Request ==
    [tool : {"set_role"}, name : Name, level : AdminLevels \cup Levels,
     grant : BOOLEAN, admin : BOOLEAN]
    \cup [tool : {"instructor_access"}, name : Name, level : Levels, grant : BOOLEAN]
    \cup [tool : {"deactivate_user"}, name : Name]
    \cup [tool : {"request_retirement"}, name : Name, full : BOOLEAN]

Call == [pc : {"new", "done"}]
        \cup [pc : {"looked"}, req : Request, copy : Row]

\* The levels of set_role that are columns of the account.
OfAccount(r) == r.tool = "set_role" /\ r.level \in AdminLevels

\* Mistake: the dispatch of set_role does not end with the levels before.
OfCourseAny(r) == r.tool \in {"set_role", "instructor_access"}

OfCourse(r) == r.tool \in {"set_role", "instructor_access"} /\ r.level \in Levels

\* users.get_user, retirement._user: by username, then by email.  The course
\* roles look for a username only.
Finds(r) == /\ ~account[r.name.of]["hashed"]
            /\ OfCourse(r) => r.name.by = "username"

\* The escalation gate of set_role.
Permitted(r) == OfAccount(r) => r.admin

Init ==
    /\ account \in [Accounts -> {row \in Row : ~row["hashed"]}]
    /\ roles = [u \in Accounts |-> {}]
    /\ queue = {}
    /\ call = [c \in Calls |-> [pc |-> "new"]]
    /\ asked = account
    /\ wanted = roles
    /\ excused = [u \in Accounts |-> {}]

-----------------------------------------------------------------------------
End(c) == call' = [call EXCEPT ![c] = [pc |-> "done"]]

Look(c, r) ==
    /\ call[c].pc = "new"
    /\ Permitted(r) /\ Finds(r)
    /\ call' = [call EXCEPT ![c] =
                  [pc |-> "looked", req |-> r, copy |-> account[r.name.of]]]
    /\ UNCHANGED <<account, roles, queue, asked, wanted, excused>>

\* 403, 404, or a name that raises; the savepoint has nothing to undo.
Refuse(c, r) ==
    /\ call[c].pc = "new"
    /\ ~(Permitted(r) /\ Finds(r))
    /\ End(c)
    /\ UNCHANGED <<account, roles, queue, asked, wanted, excused>>

\* Anything raises, or the worker dies: the savepoint undoes what was done.
Fail(c) ==
    /\ call[c].pc = "looked"
    /\ End(c)
    /\ UNCHANGED <<account, roles, queue, asked, wanted, excused>>

\* user.save(update_fields=[col])
SaveColumn(u, col, v) ==
    /\ account' = [account EXCEPT ![u][col] = v]
    /\ asked' = [asked EXCEPT ![u][col] = v]
    /\ excused' = [excused EXCEPT ![u] = @ \ {col}]

\* user.save() of a row that was read as copy and given new values in cols:
\* every other column goes back to what it was then.
SaveWhole(u, copy, cols, v) ==
    /\ account' = [account EXCEPT ![u] =
                     [col \in Columns |-> IF col \in cols THEN v ELSE copy[col]]]
    /\ asked' = [asked EXCEPT ![u] =
                   [col \in Columns |-> IF col \in cols THEN v ELSE @[col]]]
    /\ excused' = [excused EXCEPT ![u] =
                     (@ \cup {col \in Columns : copy[col] # account[u][col]}) \ cols]

\* set_global_staff.  GlobalStaff().add_users passes over an inactive account.
SetGlobalStaff(c) ==
    LET r == call[c].req  u == r.name.of  copy == call[c].copy IN
    /\ call[c].pc = "looked"
    /\ OfAccount(r) /\ r.level = "staff"
    /\ IF r.grant /\ ~copy["active"]
       THEN /\ asked' = [asked EXCEPT ![u]["staff"] = TRUE]
            /\ excused' = [excused EXCEPT ![u] = @ \cup {"staff"}]
            /\ UNCHANGED account
       ELSE SaveWhole(u, copy, {"staff"}, r.grant)
    /\ End(c)
    /\ UNCHANGED <<roles, queue, wanted>>

SetSuperuser(c) ==
    LET r == call[c].req IN
    /\ call[c].pc = "looked"
    /\ OfAccount(r) /\ r.level = "superuser"
    /\ SaveColumn(r.name.of, "superuser", r.grant)
    /\ End(c)
    /\ UNCHANGED <<roles, queue, wanted>>

\* Mistake: the account is saved whole, as it was found.
DeactivateWhole(c) ==
    LET r == call[c].req  u == r.name.of IN
    /\ call[c].pc = "looked"
    /\ r.tool = "deactivate_user"
    /\ account' = [account EXCEPT ![u] = [call[c].copy EXCEPT !["active"] = FALSE]]
    /\ asked' = [asked EXCEPT ![u]["active"] = FALSE]
    /\ excused' = [excused EXCEPT ![u] = @ \ {"active"}]
    /\ End(c)
    /\ UNCHANGED <<roles, queue, wanted>>

Deactivate(c) ==
    LET r == call[c].req IN
    /\ call[c].pc = "looked"
    /\ r.tool = "deactivate_user"
    /\ SaveColumn(r.name.of, "active", FALSE)
    /\ End(c)
    /\ UNCHANGED <<roles, queue, wanted>>

\* grant_course_role and instructor_allow insert the same row, unless the
\* account is inactive; the revocations delete it whatever the account is.
ChangeCourseRole(c) ==
    LET r == call[c].req  u == r.name.of
        inVain == r.grant /\ ~call[c].copy["active"] IN
    /\ call[c].pc = "looked"
    /\ OfCourse(r)
    /\ roles' = [roles EXCEPT ![u] = IF inVain THEN @
                                     ELSE IF r.grant THEN @ \cup {r.level}
                                     ELSE @ \ {r.level}]
    /\ wanted' = [wanted EXCEPT ![u] = IF r.grant THEN @ \cup {r.level}
                                       ELSE @ \ {r.level}]
    /\ excused' = [excused EXCEPT ![u] = IF inVain THEN @ \cup {r.level}
                                         ELSE @ \ {r.level}]
    /\ End(c)
    /\ UNCHANGED <<account, queue, asked>>

\* A second request for an account raises.  A full one also hashes the names
\* and saves the row that was looked up.
RequestRetirement(c) ==
    LET r == call[c].req  u == r.name.of IN
    /\ call[c].pc = "looked"
    /\ r.tool = "request_retirement"
    /\ u \notin queue
    /\ queue' = queue \cup {u}
    /\ IF r.full THEN SaveWhole(u, call[c].copy, {"hashed"}, TRUE)
                 ELSE UNCHANGED <<account, asked, excused>>
    /\ End(c)
    /\ UNCHANGED <<roles, wanted>>

\* The owner follows the link in the activation mail.
Activate(u) ==
    /\ ~account[u]["active"]
    /\ SaveColumn(u, "active", TRUE)
    /\ UNCHANGED <<roles, queue, call, wanted>>

Save(c) == \/ SetGlobalStaff(c)
           \/ SetSuperuser(c)
           \/ ChangeCourseRole(c)
           \/ Deactivate(c)
           \/ RequestRetirement(c)

Next == \/ \E c \in Calls : \/ \E r \in Request : Look(c, r) \/ Refuse(c, r)
                            \/ Save(c)
                            \/ Fail(c)
        \/ \E u \in Accounts : Activate(u)

Spec == Init /\ [][Next]_vars

-----------------------------------------------------------------------------
AccountsTypeOK ==
    /\ account \in [Accounts -> Row]
    /\ roles \in [Accounts -> SUBSET Levels]
    /\ queue \subseteq Accounts
    /\ call \in [Calls -> Call]
    /\ asked \in [Accounts -> Row]
    /\ wanted \in [Accounts -> SUBSET Levels]
    /\ excused \in [Accounts -> SUBSET (Columns \cup Levels)]

(***************************************************************************)
(* However the calls on an account overlap, each of its columns and roles  *)
(* is what the last successful call that named it asked for -- a demotion  *)
(* stays, a deactivation stays, a retired account stays unknown -- except  *)
(* where a later save wrote back a whole row it had read before            *)
(* (users.py:91-93 and the retirement of the platform), or an inactive     *)
(* account was granted something.                                          *)
(***************************************************************************)
StandingAsAsked ==
    \A u \in Accounts :
        /\ \A col \in Columns \ excused[u] : account[u][col] = asked[u][col]
        /\ \A l \in Levels \ excused[u] : l \in roles[u] <=> l \in wanted[u]

(***************************************************************************)
(* "global_staff/superuser additionally need grant:admin" (tool_views.py:  *)
(* 85): is_staff and is_superuser of an account rise only by the step of a *)
(* call that carries the scope and names this account, or by one that puts *)
(* an older row back.                                                      *)
(***************************************************************************)
RisesByScope ==
    [][\A u \in Accounts, col \in AdminLevels :
         ~account[u][col] /\ account'[u][col] =>
             \/ col \in excused'[u]
             \/ \E c \in Calls : /\ call[c].pc = "looked" /\ call'[c].pc = "done"
                                 /\ OfAccount(call[c].req)
                                 /\ call[c].req.admin
                                 /\ call[c].req.name.of = u]_vars
=============================================================================
