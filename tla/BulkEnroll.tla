----------------------------- MODULE BulkEnroll -----------------------------
(***************************************************************************)
(* The preview and the confirmed write of the bulk_enroll tool, on the     *)
(* enrollments and invites (CourseEnrollmentAllowed rows) of one course.   *)
(*                                                                         *)
(*   tool_views.py  BulkEnrollView                                         *)
(*   enrollment.py  bulk_enroll, bulk_unenroll, _classify,                 *)
(*                  preview_bulk_enroll; enroll, unenroll                  *)
(*   users.py       create_user, account_conflicts                         *)
(*   guards.py      _run: the savepoint around the view                    *)
(*                                                                         *)
(* The preview looks addresses up stripped and in lower case and leaves    *)
(* out entries without one; the batch hands each entry's email to the      *)
(* platform as it was sent.  It is served row by row inside the savepoint, *)
(* and an exception of a row is caught and reported in its place.  If it   *)
(* came from the database, Django has marked the savepoint for rollback:   *)
(* the rows that follow cannot run a query, and leaving the block undoes   *)
(* all of them.  A row that a batch has changed is locked until its        *)
(* transaction ends, and until then the others see it as it was; a row it  *)
(* found as asked is not locked.  Learners, the single-enrollment tools    *)
(* and other batches work on the same course meanwhile.                    *)
(***************************************************************************)
EXTENDS Integers, SequencesExt

CONSTANTS Calls,        \* what handles one batch at a time: its preview and
                        \* its confirmed call
          Emails,       \* what the email columns of the platform can hold
          Addresses,    \* those an account can have
          Values,       \* what the "email" of an entry can be
          Sent,         \* Sent[v]: what the platform finds or stores v as;
                        \* None if there is no email
          Clean,        \* Clean[v]: the same for v.strip().lower(); None if
                        \* there is no email or an empty one
          MaxRows,      \* bound on the length of a batch
          None

ASSUME BulkAssumption ==
    /\ MaxRows \in Nat \ {0}
    /\ Addresses \subseteq Emails
    /\ Sent \in [Values -> Emails \cup {None}]
    /\ Clean \in [Values -> Emails \cup {None}]
    /\ None \notin Emails

VARIABLES roster,  \* roster[e]: account, active enrollment and invite of e,
                   \* as committed
          call     \* call[c]: the batch of c and how far it is

vars == <<roster, call>>

-----------------------------------------------------------------------------
Entry == [account : BOOLEAN, enrolled : BOOLEAN, invited : BOOLEAN]

Nobody == [account |-> FALSE, enrolled |-> FALSE, invited |-> FALSE]

Batches == BoundedSeq(Values, MaxRows) \ {<<>>}

Groups == {"enrolled", "pending", "account_not_enrolled", "no_account", "left_out"}

\* What the answer says of one row.
Report == SUBSET {"was_enrolled", "was_pending", "enrolled", "allowed", "error"}

\* groups: history, what the preview said of the rows, forgotten when another
\* changes an address of the batch.  changed: the entries the batch has
\* changed, not yet committed.  spoiled: the savepoint is marked for rollback.
\* stirred: history, rows whose address another has changed since their turn.
Call == [stage : {"previewed", "rows"}, action : {"enroll", "unenroll"},
         values : Batches,
         groups : BoundedSeq(Groups, MaxRows) \cup {None},
         results : BoundedSeq(Report, MaxRows),
         changed : UNION {[touched -> Entry] : touched \in SUBSET Emails},
         spoiled : BOOLEAN, stirred : SUBSET (1..MaxRows)]

BulkTypeOK ==
    /\ roster \in [Emails -> Entry]
    /\ call \in [Calls -> Call \cup {None}]

Init ==
    /\ roster = [e \in Emails |-> Nobody]
    /\ call = [c \in Calls |-> None]

Running(c) == call[c] # None /\ call[c].stage = "rows"

\* Some batch other than c's has changed e and not ended.
Locked(c, e) == \E d \in Calls \ {c} : Running(d) /\ e \in DOMAIN call[d].changed

\* The entry of e, as committed and as c sees it.
At(e) == IF e = None THEN Nobody ELSE roster[e]
View(c, e) == IF e \in DOMAIN call[c].changed THEN call[c].changed[e] ELSE At(e)

\* The rows of k with an address in moved, and k when others have changed those.
Hit(k, moved) == {i \in DOMAIN k.values : Sent[k.values[i]] \in moved}

Disturbed(k, moved) ==
    IF k = None \/ Hit(k, moved) = {} THEN k
    ELSE [k EXCEPT !.groups = None,
                   !.stirred = @ \cup (Hit(k, moved) \cap DOMAIN k.results)]

-----------------------------------------------------------------------------
(* The platform.                                                           *)

\* instructor.enrollment.enroll_email: an address without account is invited.
EnrollEmail(entry) ==
    IF ~ entry.account THEN [entry EXCEPT !.invited = TRUE]
    ELSE [entry EXCEPT !.enrolled = TRUE]

\* instructor.enrollment.unenroll_email: also withdraws the invite.
UnenrollEmail(entry) == [entry EXCEPT !.enrolled = FALSE, !.invited = FALSE]

Serve(action, entry) ==
    IF action = "enroll" THEN EnrollEmail(entry) ELSE UnenrollEmail(entry)

\* users.create_user, enrollment.enroll, enrollment.unenroll: the change of
\* one entry; the invite stays in each case.
Registered(entry) == [entry EXCEPT !.account = TRUE]
Enrolled(entry)   == [entry EXCEPT !.enrolled = TRUE]
Unenrolled(entry) == [entry EXCEPT !.enrolled = FALSE]

\* No batch is in the middle of changing e; one statement changes it.
Change(e, entry) ==
    /\ \A c \in Calls : Running(c) => e \notin DOMAIN call[c].changed
    /\ roster' = [roster EXCEPT ![e] = entry]
    /\ call' = [c \in Calls |-> Disturbed(call[c], {e})]

(* The address registers; an invited one may be enrolled on signup.        *)
SignUp(e) ==
    /\ ~ roster[e].account
    /\ \E enrolled \in {FALSE, roster[e].invited} :
         Change(e, [Registered(roster[e]) EXCEPT !.enrolled = enrolled])

\* account_conflicts, as far as the address goes.
Conflicts(e) == IF roster[e].account THEN {"email"} ELSE {}

(* create_user: an inactive account, which no invite has been looked up    *)
(* for.  The preview answers 409 on a conflict, and the form refuses it.   *)
CreateUser(e) ==
    /\ Conflicts(e) = {}
    /\ Change(e, Registered(roster[e]))

(* unenroll_user, whose preview answers 404 when there is nothing to end;  *)
(* or the learner leaves.                                                  *)
Unenroll(e) == /\ roster[e].enrolled
               /\ Change(e, Unenrolled(roster[e]))

(* enroll_user, or the learner enrolls.                                    *)
Enroll(e) == /\ roster[e].account /\ ~ roster[e].enrolled
             /\ Change(e, Enrolled(roster[e]))

-----------------------------------------------------------------------------
(* The preview.                                                            *)

\* Mistake: an invite counts for those without account only.
GroupByAccount(entry) ==
    IF entry.enrolled THEN "enrolled"
    ELSE IF entry.account THEN "account_not_enrolled"
    ELSE IF entry.invited THEN "pending" ELSE "no_account"

Group(entry) ==
    IF entry.enrolled THEN "enrolled"
    ELSE IF entry.invited THEN "pending"
    ELSE IF entry.account THEN "account_not_enrolled" ELSE "no_account"

\* _classify, of one entry.
Classify(v) == IF Clean[v] = None THEN "left_out" ELSE Group(roster[Clean[v]])

(* The batch is previewed, which hands the client its confirm token.       *)
Preview(c, action, values) ==
    /\ call[c] = None
    /\ call' = [call EXCEPT ![c] =
                  [stage |-> "previewed", action |-> action, values |-> values,
                   groups |-> [i \in DOMAIN values |-> Classify(values[i])],
                   results |-> <<>>, changed |-> <<>>, spoiled |-> FALSE,
                   stirred |-> {}]]
    /\ UNCHANGED roster

(* The client confirms what it has previewed.                              *)
Confirm(c) ==
    /\ call[c] # None /\ call[c].stage = "previewed"
    /\ call' = [call EXCEPT ![c].stage = "rows"]
    /\ UNCHANGED roster

-----------------------------------------------------------------------------
(* The batch.                                                              *)

\* The address of the row after the last result.
Current(c) == Sent[call[c].values[Len(call[c].results) + 1]]

MoreRows(c) == Running(c) /\ Len(call[c].results) < Len(call[c].values)

Says(entry) == (IF entry.enrolled THEN {"enrolled"} ELSE {})
                 \cup (IF entry.invited THEN {"allowed"} ELSE {})

Was(entry) == (IF entry.enrolled THEN {"was_enrolled"} ELSE {})
                 \cup (IF entry.invited THEN {"was_pending"} ELSE {})

\* What the answer says of a row that found before and left after.
Outcome(action, before, after) ==
    IF action = "enroll" THEN Says(after) ELSE Was(before) \cup Says(after)

Reported(c, says) == [call[c] EXCEPT !.results = Append(@, says)]

\* The row sees its entry, changes it if that is called for, and record
\* becomes the state of the call.
ChangeRow(c, record) ==
    LET e == Current(c)
        before == View(c, e)
        after == Serve(call[c].action, before)
        changed == [f \in DOMAIN call[c].changed \cup {e} |->
                      IF f = e THEN after ELSE call[c].changed[f]]
    IN /\ e # None \/ call[c].action = "unenroll"
       /\ IF after = before
          THEN call' = [call EXCEPT ![c] = record]
          ELSE /\ ~ Locked(c, e)
               /\ call' = [call EXCEPT ![c] = [record EXCEPT !.changed = changed]]
       /\ UNCHANGED roster

(* The row succeeds: before, after[:2], or states[1].                      *)
ServeRow(c) ==
    /\ MoreRows(c)
    /\ ~ call[c].spoiled
    /\ LET before == View(c, Current(c))
           after == Serve(call[c].action, before)
       IN  ChangeRow(c, Reported(c, Outcome(call[c].action, before, after)))

(* It raises, because the savepoint is already marked or for a reason of   *)
(* its own, before or after its change; the loop goes on.                  *)
RowRaises(c) ==
    /\ MoreRows(c)
    /\ \/ /\ call' = [call EXCEPT ![c] = Reported(c, {"error"})]
          /\ UNCHANGED roster
       \/ /\ ~ call[c].spoiled
          /\ ChangeRow(c, Reported(c, {"error"}))

\* Mistake: the loop runs once too often.
SpoilAfterLast(c) ==
    /\ Running(c)
    /\ call' = [call EXCEPT ![c] = [Reported(c, {"error"}) EXCEPT !.spoiled = TRUE]]
    /\ UNCHANGED roster

(* The database raises (a constraint, a deadlock): the savepoint is marked *)
(* for rollback, the exception caught all the same.                        *)
RowSpoils(c) ==
    /\ MoreRows(c)
    /\ call' = [call EXCEPT ![c] = [Reported(c, {"error"}) EXCEPT !.spoiled = TRUE]]
    /\ UNCHANGED roster

\* Mistake: a batch with an error in it is undone.
AfterBlockStrict(c) ==
    IF \E i \in DOMAIN call[c].results : "error" \in call[c].results[i]
    THEN roster ELSE [e \in Emails |-> View(c, e)]

\* What is committed when c's block has been left.
AfterBlock(c) == IF call[c].spoiled THEN roster ELSE [e \in Emails |-> View(c, e)]

(* Every row has its result: the view returns a 200, transaction.atomic()  *)
(* exits, the transaction ends.                                            *)
Answer(c) ==
    /\ Running(c)
    /\ ~ MoreRows(c)
    /\ roster' = AfterBlock(c)
    /\ call' = [d \in Calls |->
                  IF d = c THEN None
                  ELSE Disturbed(call[d], {e \in Emails : AfterBlock(c)[e] # roster[e]})]

(* The preview is never confirmed, or the call fails or dies before its    *)
(* transaction has ended.                                                  *)
GiveUp(c) ==
    /\ call[c] # None
    /\ call' = [call EXCEPT ![c] = None]
    /\ UNCHANGED roster

Next ==
    \/ \E e \in Addresses : SignUp(e) \/ CreateUser(e) \/ Unenroll(e) \/ Enroll(e)
    \/ \E c \in Calls :
         \/ \E action \in {"enroll", "unenroll"}, values \in Batches :
              Preview(c, action, values)
         \/ Confirm(c) \/ ServeRow(c) \/ RowRaises(c) \/ RowSpoils(c)
         \/ Answer(c) \/ GiveUp(c)

Spec == Init /\ [][Next]_vars

-----------------------------------------------------------------------------
(* What the preview has told: preview_bulk_enroll.                         *)

Count(c, groups) ==
    Cardinality({i \in DOMAIN call[c].groups : call[c].groups[i] \in groups})

\* Mistake: an invite is counted as an enrollment to come.
PreviewEnrollEager(c) ==
    [already_enrolled |-> Count(c, {"enrolled"}),
     will_enroll      |-> Count(c, {"account_not_enrolled", "pending"}),
     will_be_pending  |-> Count(c, {"no_account"})]

PreviewEnroll(c) ==
    [already_enrolled |-> Count(c, {"enrolled"}),
     will_enroll      |-> Count(c, {"account_not_enrolled"}),
     will_be_pending  |-> Count(c, {"no_account", "pending"})]

PreviewUnenroll(c) ==
    [will_unenroll       |-> Count(c, {"enrolled"}),
     will_revoke_pending |-> Count(c, {"pending"}),
     not_enrolled        |-> Count(c, {"account_not_enrolled", "no_account"})]

-----------------------------------------------------------------------------
(* Properties.                                                             *)

ErrorAt(c, i) == "error" \in call[c].results[i]

\* What row i says is stored of its address is stored after the step.
ResultTrue(c, i) ==
    LET e == Sent[call[c].values[i]]
    IN  call[c].results[i] \cap {"enrolled", "allowed"} =
          IF e = None THEN {} ELSE Says(roster'[e])

RowTrue(c, i) == ErrorAt(c, i) \/ i \in call[c].stirred \/ ResultTrue(c, i)

(* "Report per-row, don't abort the batch": a row that reports no error    *)
(* says what is stored when the call is answered, whatever the other rows  *)
(* and the other batches did, unless somebody else has changed the address *)
(* since the row's turn (which only a row that changed nothing allows).    *)
RowsTrue ==
    [][\A c \in Calls : Answer(c) =>
         \A i \in DOMAIN call[c].results : RowTrue(c, i)]_vars

(* The same, unless the database raised on a row.                          *)
RowsTrueUnlessSpoiled ==
    [][\A c \in Calls : Answer(c) /\ ~ call[c].spoiled =>
         \A i \in DOMAIN call[c].results : RowTrue(c, i)]_vars

\* The preview looks at the address the batch serves.
Tidy(v) == Clean[v] # None /\ Sent[v] = Clean[v]

\* The batch names each address once, as the preview looks it up.
Plain(values) ==
    /\ \A i \in DOMAIN values : Tidy(values[i])
    /\ \A i, j \in DOMAIN values : Sent[values[i]] = Sent[values[j]] => i = j

\* All rows of a plain batch are served, none with an error, and nobody else
\* has changed one of its addresses since the preview.
Undisturbed(c) ==
    /\ Running(c) /\ ~ MoreRows(c)
    /\ Plain(call[c].values)
    /\ call[c].groups # None
    /\ \A i \in DOMAIN call[c].results : ~ ErrorAt(c, i)

\* How many rows of the answer say all of some and nothing of none.
Tally(c, some, none) ==
    Cardinality({i \in DOMAIN call[c].results :
                   some \subseteq call[c].results[i] /\ none \cap call[c].results[i] = {}})

(* The unenroll preview is what the answer to the confirmed call reports,  *)
(* served row by row by other code some minutes later: whom it unenrolled, *)
(* whose invite it withdrew, and for whom it was a no-op.                  *)
UnenrollForetold ==
    \A c \in Calls : Undisturbed(c) /\ call[c].action = "unenroll" =>
        PreviewUnenroll(c) =
          [will_unenroll       |-> Tally(c, {"was_enrolled"}, {}),
           will_revoke_pending |-> Tally(c, {"was_pending"}, {"was_enrolled"}),
           not_enrolled        |-> Tally(c, {}, {"was_enrolled", "was_pending"})]

(* The enroll preview promises no enrollment that is not there when the    *)
(* confirmed call is answered, and those it did not promise are of invited *)
(* addresses: each comes back both enrolled and allowed.  (An invitee who  *)
(* has an account is announced as pending, yet enrolled at once.)          *)
EnrollForetold ==
    \A c \in Calls : Undisturbed(c) /\ call[c].action = "enroll" =>
        LET promised == PreviewEnroll(c).already_enrolled + PreviewEnroll(c).will_enroll
        IN  /\ promised <= Tally(c, {"enrolled"}, {})
            /\ Tally(c, {"enrolled"}, {}) <= promised + Tally(c, {"enrolled", "allowed"}, {})
=============================================================================
