---------------------------- MODULE AuditedWrite ----------------------------
(***************************************************************************)
(* The write pipeline of openedx_mcp: one HTTP call of a state-changing    *)
(* tool, from the moment its credential was read to its response, with any *)
(* number of calls in flight in different workers.                         *)
(*                                                                         *)
(*   auth.py    MCPKeyAuthentication.authenticate (the last_used_at touch),*)
(*              require_scopes                                             *)
(*   guards.py  the wrapper of audited_write                               *)
(*   _rails.py  consume/issue_confirm_token, through module ConfirmToken   *)
(*   base.py    handle_exception: what a call that raises answers          *)
(*                                                                         *)
(* The decorated view is a parameter: it makes up to Parts changes and     *)
(* then returns, or fails at any point (raises, or returns a status >=     *)
(* 400).  The view of a Lenient tool catches errors of its own: it may     *)
(* return a 2xx with only some of its changes made (an error in the row    *)
(* of a batch or in a section of settings, a 400 of the platform that is   *)
(* dropped), and the error it caught may be one of the database.           *)
(* Changes of an ordinary tool are rows of the database; those of an       *)
(* External tool leave it at once (modulestore writes, queued tasks).      *)
(*                                                                         *)
(* The database is modelled by what guards.py relies on.  A tool is served *)
(* by the LMS or by Studio, and its settings say whether a request is one  *)
(* transaction (ATOMIC_REQUESTS).  AtomicTools are the tools of a process  *)
(* where it is: the view runs in a savepoint, and a row updated by the     *)
(* call stays locked until it ends.  For the others every statement        *)
(* commits by itself and the view runs in a transaction of its own.        *)
(* Whether check_rate_limit allows the call is a free choice here; module  *)
(* RateLimit is about that choice.                                         *)
(***************************************************************************)
EXTENDS Naturals

CONSTANTS Requests,        \* tool calls; a confirm token is named by the call
                           \* whose preview issued it
          Keys, Sessions,  \* credentials: MCPKey rows, JWT or session logins
          Users, Owner,    \* Owner[c]: the user credential c acts as
          Tools, Payloads,
          Gated,           \* tools with require_confirm=True
          External,        \* tools whose changes leave the database
          Lenient,         \* tools whose views catch errors of their own
          Granted,         \* Granted[c]: tools whose scopes c carries
          Parts,           \* changes one complete write makes
          AtomicTools,     \* tools of a process with ATOMIC_REQUESTS
          None

Credentials == Keys \cup Sessions

ASSUME PipelineAssumption ==
    /\ Keys \cap Sessions = {}
    /\ Owner \in [Credentials -> Users]
    /\ Gated \subseteq Tools
    /\ External \subseteq Tools
    /\ Lenient \subseteq Tools
    /\ Granted \in [Credentials -> SUBSET Tools]
    /\ Parts \in Nat \ {0}
    /\ AtomicTools \subseteq Tools
    /\ None \notin Requests
    /\ None \notin Tools
    /\ None \notin [tool : Tools, user : Users, payload : Payloads]

VARIABLES pc,       \* pc[r]: how far the handling of r is
          req,      \* req[r]: credential, tool, payload and token of r
          cache, issued, call,  \* the confirm-token store and its clients
          rows,     \* rows[r]: audit rows inserted by r, not yet committed
          wrote,    \* wrote[r]: changes of r in the open transaction
          trail,    \* trail[r]: audit rows of r that are committed
          durable,  \* durable[r]: changes of r that are committed or external
          answer    \* answer[r]: what the client of r was told

tokenVars == <<cache, issued, call>>
dbVars == <<rows, wrote, trail, durable>>
vars == <<pc, req, tokenVars, dbVars, answer>>

Ops == [tool : Tools, user : Users, payload : Payloads]

Rail == INSTANCE ConfirmToken
          WITH Calls <- Requests, Tokens <- Requests, Fingerprints <- Ops

-----------------------------------------------------------------------------
Stages ==
  {"idle",      \* not received
   "touch",     \* key read, about to update its last_used_at
   "scopes",    \* authenticated and permitted, entering the wrapper
   "rate",      \* about to call check_rate_limit
   "denied",    \* over the limit, about to audit it
   "token",     \* in consume_confirm_token, before cache.get
   "burn",      \* in consume_confirm_token, before cache.delete
   "preview",   \* not confirmed, about to audit the dry run
   "dryrun",    \* running the view with confirmed=False
   "attempt",   \* confirmed, about to audit the attempt
   "writing",   \* running the view with confirmed=True
   "ok",        \* the view succeeded, about to audit the success
   "failed",    \* the view failed, about to audit the error
   "commit",    \* response built, the request's transaction about to end
   "done",      \* answered
   "crashed"}   \* the worker died

Call == [cred : Credentials, tool : Tools, payload : Payloads,
         token : Requests \cup {None}]
Outcomes == {"denied", "dry_run", "attempt", "success", "error"}
Answers == {"none", "refused", "preview", "applied", "error"}

TypeOK ==
    /\ pc \in [Requests -> Stages]
    /\ req \in [Requests -> Call \cup {None}]
    /\ Rail!TokenTypeOK
    /\ rows \in [Requests -> SUBSET Outcomes]
    /\ wrote \in [Requests -> 0..Parts]
    /\ trail \in [Requests -> SUBSET Outcomes]
    /\ durable \in [Requests -> 0..Parts]
    /\ answer \in [Requests -> Answers]

Init ==
    /\ pc = [r \in Requests |-> "idle"]
    /\ req = [r \in Requests |-> None]
    /\ Rail!TokenInit
    /\ rows = [r \in Requests |-> {}]
    /\ wrote = [r \in Requests |-> 0]
    /\ trail = [r \in Requests |-> {}]
    /\ durable = [r \in Requests |-> 0]
    /\ answer = [r \in Requests |-> "none"]

-----------------------------------------------------------------------------
(* What a confirm token is bound to: fingerprint(tool, user_id, plan).     *)
Fingerprint(r) == [tool |-> req[r].tool, user |-> Owner[req[r].cred],
                   payload |-> req[r].payload]

\* r has touched its key (or needs none) and its transaction has not ended.
InFlight(r) == pc[r] \notin {"idle", "touch", "done", "crashed"}

\* The request of r is one transaction.
Atomic(r) == req[r].tool \in AtomicTools

\* Another call holds the lock on the MCPKey row of r's credential.
KeyLocked(r) ==
    \E s \in Requests : InFlight(s) /\ Atomic(s) /\ req[s].cred = req[r].cred

Goto(r, stage) == pc' = [pc EXCEPT ![r] = stage]
Tell(r, what) == answer' = [answer EXCEPT ![r] = what]

\* MCPAuditLog.objects.create(outcome=outcome)
Audit(r, outcome) ==
    IF Atomic(r)
    THEN rows' = [rows EXCEPT ![r] = @ \cup {outcome}] /\ UNCHANGED trail
    ELSE trail' = [trail EXCEPT ![r] = @ \cup {outcome}] /\ UNCHANGED rows

\* Whatever r did in the open transaction is undone.
RollBack(r) ==
    /\ rows' = [rows EXCEPT ![r] = {}]
    /\ wrote' = [wrote EXCEPT ![r] = 0]
    /\ UNCHANGED <<trail, durable>>

\* The call ends with a failure answer and nothing of its transaction kept.
Abort(r, what) ==
    /\ Goto(r, "done")
    /\ Tell(r, what)
    /\ RollBack(r)
    /\ UNCHANGED <<req, tokenVars>>

-----------------------------------------------------------------------------
(* Authentication and scopes.                                              *)

\* A confirm token a client can present: one it was given in an answer.
Delivered == {t \in Requests : pc[t] = "done" /\ answer[t] = "preview"}

(* A client sends a call with a valid credential of a staff account; the   *)
(* worker has read the credential.  Retries and duplicates of a call are   *)
(* calls with the same fields.                                             *)
Receive(r, cred, tool, payload, token) ==
    /\ pc[r] = "idle"
    /\ token \in Delivered \cup {None}
    /\ req' = [req EXCEPT ![r] = [cred |-> cred, tool |-> tool,
                                  payload |-> payload, token |-> token]]
    /\ Goto(r, IF cred \in Keys THEN "touch" ELSE "scopes")
    /\ UNCHANGED <<tokenVars, dbVars, answer>>

\* Mistake: the touch takes no lock.
TouchUnlocked(r) ==
    /\ pc[r] = "touch"
    /\ Goto(r, "scopes")
    /\ UNCHANGED <<req, tokenVars, dbVars, answer>>

(* MCPKey.objects.filter(pk=key.pk).update(last_used_at=...): waits for    *)
(* the row while another call's transaction has it locked.                 *)
Touch(r) ==
    /\ pc[r] = "touch"
    /\ ~ KeyLocked(r)
    /\ Goto(r, "scopes")
    /\ UNCHANGED <<req, tokenVars, dbVars, answer>>

(* The database gives up waiting for the row; the update raises and        *)
(* handle_exception answers 500.                                           *)
TouchFails(r) ==
    /\ pc[r] = "touch"
    /\ KeyLocked(r)
    /\ Abort(r, "error")

(* require_scopes(request, *needed): a missing scope is a 403, raised      *)
(* before anything is counted or audited.                                  *)
CheckScopes(r) ==
    /\ pc[r] = "scopes"
    /\ req[r].tool \in Granted[req[r].cred]
    /\ Goto(r, "rate")
    /\ UNCHANGED <<req, tokenVars, dbVars, answer>>

RefuseScopes(r) ==
    /\ pc[r] = "scopes"
    /\ req[r].tool \notin Granted[req[r].cred]
    /\ Abort(r, "refused")

-----------------------------------------------------------------------------
(* The rails.                                                              *)

(* check_rate_limit allows the call: a gated tool goes on to the token,    *)
(* the others are always confirmed.                                        *)
RateAllows(r) ==
    /\ pc[r] = "rate"
    /\ IF req[r].tool \in Gated
       THEN Rail!Enter(r, req[r].token, Fingerprint(r)) /\ Goto(r, "token")
       ELSE UNCHANGED tokenVars /\ Goto(r, "attempt")
    /\ UNCHANGED <<req, dbVars, answer>>

RateDenies(r) ==
    /\ pc[r] = "rate"
    /\ Goto(r, "denied")
    /\ UNCHANGED <<req, tokenVars, dbVars, answer>>

\* Mistake: after a denial the limit is asked again, instead of answering.
AuditDeniedRetrying(r) ==
    /\ pc[r] = "denied"
    /\ Audit(r, "denied")
    /\ Goto(r, "rate")
    /\ UNCHANGED <<req, tokenVars, wrote, durable, answer>>

AuditDenied(r) ==
    /\ pc[r] = "denied"
    /\ Audit(r, "denied")
    /\ Goto(r, "commit")
    /\ Tell(r, "refused")
    /\ UNCHANGED <<req, tokenVars, wrote, durable>>

GetToken(r) ==
    /\ pc[r] = "token"
    /\ Rail!Get(r)
    /\ Goto(r, IF call'[r].phase = "delete" THEN "burn" ELSE "preview")
    /\ UNCHANGED <<req, dbVars, answer>>

BurnToken(r) ==
    /\ pc[r] = "burn"
    /\ Rail!Delete(r)
    /\ Goto(r, "attempt")
    /\ UNCHANGED <<req, dbVars, answer>>

(* The cache raises in consume_confirm_token.  It is no APIException, so   *)
(* handle_exception answers 500 without marking the transaction.           *)
CacheFails(r) ==
    /\ pc[r] \in {"token", "burn"}
    /\ Rail!Abandon(r)
    /\ Goto(r, "commit")
    /\ Tell(r, "error")
    /\ UNCHANGED <<req, dbVars>>

(* A confirm token leaves the cache: expired or evicted.                   *)
TokenExpires(t) ==
    /\ Rail!Expire(t)
    /\ UNCHANGED <<pc, req, dbVars, answer>>

-----------------------------------------------------------------------------
(* The dry run: _audit("dry_run"), _run(False), issue_confirm_token.       *)

\* Mistake: the dry run is not recorded.
AuditDryRunSkipped(r) ==
    /\ pc[r] = "preview"
    /\ Goto(r, "dryrun")
    /\ UNCHANGED <<req, tokenVars, dbVars, answer>>

AuditDryRun(r) ==
    /\ pc[r] = "preview"
    /\ Audit(r, "dry_run")
    /\ Goto(r, "dryrun")
    /\ UNCHANGED <<req, tokenVars, wrote, durable, answer>>

\* Mistake: a token the client sent is bound to the new payload and reused.
PreviewReuses(r) ==
    /\ pc[r] = "dryrun"
    /\ IF req[r].token = None
       THEN Rail!Issue(r, Fingerprint(r))
       ELSE /\ cache' = [cache EXCEPT ![req[r].token] = Fingerprint(r)]
            /\ UNCHANGED <<issued, call>>
    /\ Goto(r, "commit")
    /\ Tell(r, "preview")
    /\ UNCHANGED <<req, dbVars>>

Preview(r) ==
    /\ pc[r] = "dryrun"
    /\ Rail!Issue(r, Fingerprint(r))
    /\ Goto(r, "commit")
    /\ Tell(r, "preview")
    /\ UNCHANGED <<req, dbVars>>

\* The view refused the preview, or storing the token raised.
PreviewFails(r) ==
    /\ pc[r] = "dryrun"
    /\ Goto(r, "commit")
    /\ \E what \in {"refused", "error"} : Tell(r, what)
    /\ UNCHANGED <<req, tokenVars, dbVars>>

-----------------------------------------------------------------------------
(* The write: _audit("attempt"), _run(True), _audit of the outcome.        *)

\* Mistake: the attempt is recorded only with its outcome.
AuditAttemptSkipped(r) ==
    /\ pc[r] = "attempt"
    /\ Goto(r, "writing")
    /\ UNCHANGED <<req, tokenVars, dbVars, answer>>

AuditAttempt(r) ==
    /\ pc[r] = "attempt"
    /\ Audit(r, "attempt")
    /\ Goto(r, "writing")
    /\ UNCHANGED <<req, tokenVars, wrote, durable, answer>>

\* Mistake: the view makes one change too many.
WritePartTwice(r) ==
    /\ pc[r] = "writing"
    /\ wrote[r] + durable[r] <= Parts
    /\ wrote' = [wrote EXCEPT ![r] = @ + 1]
    /\ UNCHANGED <<pc, req, tokenVars, rows, trail, durable, answer>>

\* The view makes its next change.
WritePart(r) ==
    /\ pc[r] = "writing"
    /\ wrote[r] + durable[r] < Parts
    /\ IF req[r].tool \in External
       THEN durable' = [durable EXCEPT ![r] = @ + 1] /\ UNCHANGED wrote
       ELSE wrote' = [wrote EXCEPT ![r] = @ + 1] /\ UNCHANGED durable
    /\ UNCHANGED <<pc, req, tokenVars, rows, trail, answer>>

\* transaction.atomic() exits and the changes stand: the savepoint is
\* released or, without ATOMIC_REQUESTS, the transaction commits.
KeepBlock(r) ==
    IF Atomic(r)
    THEN UNCHANGED <<wrote, durable>>
    ELSE /\ durable' = [durable EXCEPT ![r] = @ + wrote[r]]
         /\ wrote' = [wrote EXCEPT ![r] = 0]

\* transaction.atomic() exits and undoes what the view did in the database.
UndoBlock(r) ==
    /\ wrote' = [wrote EXCEPT ![r] = 0]
    /\ UNCHANGED durable

(* The view returned a 2xx: all of its changes made or, of a Lenient tool, *)
(* some.  If the view swallowed a database error Django has marked the     *)
(* block for rollback, and leaving it undoes the changes without a word:   *)
(* _run returns the 2xx all the same.                                      *)
WriteReturns(r) ==
    /\ pc[r] = "writing"
    /\ \/ wrote[r] + durable[r] = Parts /\ KeepBlock(r)
       \/ req[r].tool \in Lenient /\ (KeepBlock(r) \/ UndoBlock(r))
    /\ Goto(r, "ok")
    /\ UNCHANGED <<req, tokenVars, rows, trail, answer>>

\* Mistake: no savepoint around the view.
WriteFailsKeeping(r) ==
    /\ pc[r] = "writing"
    /\ Goto(r, "failed")
    /\ UNCHANGED <<req, tokenVars, dbVars, answer>>

(* The view raised, or returned a status >= 400 (set_rollback): the        *)
(* savepoint undoes its changes in the database.                           *)
WriteFails(r) ==
    /\ pc[r] = "writing"
    /\ Goto(r, "failed")
    /\ UndoBlock(r)
    /\ UNCHANGED <<req, tokenVars, rows, trail, answer>>

AuditSuccess(r) ==
    /\ pc[r] = "ok"
    /\ Audit(r, "success")
    /\ Goto(r, "commit")
    /\ Tell(r, "applied")
    /\ UNCHANGED <<req, tokenVars, wrote, durable>>

AuditError(r) ==
    /\ pc[r] = "failed"
    /\ Audit(r, "error")
    /\ Goto(r, "commit")
    /\ Tell(r, "error")
    /\ UNCHANGED <<req, tokenVars, wrote, durable>>

\* Mistake: the failure of the insert is swallowed.
AuditFailsQuietly(r) ==
    /\ pc[r] \in {"denied", "preview", "attempt", "ok", "failed"}
    /\ Goto(r, "commit")
    /\ Tell(r, "error")
    /\ UNCHANGED <<req, tokenVars, dbVars>>

(* The audit row cannot be inserted.  Django marks the transaction for     *)
(* rollback and the exception becomes a 500.                               *)
AuditFails(r) ==
    /\ pc[r] \in {"denied", "preview", "attempt", "ok", "failed"}
    /\ Abort(r, "error")

-----------------------------------------------------------------------------
(* The end of the request.                                                 *)

Commit(r) ==
    /\ pc[r] = "commit"
    /\ Goto(r, "done")
    /\ trail' = [trail EXCEPT ![r] = @ \cup rows[r]]
    /\ durable' = [durable EXCEPT ![r] = @ + wrote[r]]
    /\ rows' = [rows EXCEPT ![r] = {}]
    /\ wrote' = [wrote EXCEPT ![r] = 0]
    /\ UNCHANGED <<req, tokenVars, answer>>

(* The commit is refused (a deferred constraint, a lost connection): the   *)
(* transaction is undone and the client gets a 500.                        *)
CommitFails(r) ==
    /\ pc[r] = "commit"
    /\ Atomic(r)
    /\ Abort(r, "error")

(* The worker dies.  The database undoes the open transaction; the cache   *)
(* and the external stores keep what they have.                            *)
Crash(r) ==
    /\ pc[r] \notin {"idle", "done", "crashed"}
    /\ Goto(r, "crashed")
    /\ Tell(r, "none")
    /\ RollBack(r)
    /\ IF pc[r] \in {"token", "burn"} THEN Rail!Abandon(r) ELSE UNCHANGED tokenVars
    /\ UNCHANGED req

Arrives(r) == \E cred \in Credentials, tool \in Tools, payload \in Payloads,
                 token \in Requests \cup {None} : Receive(r, cred, tool, payload, token)

Faults(r) == \/ TouchFails(r) \/ CacheFails(r) \/ PreviewFails(r) \/ WriteFails(r)
             \/ AuditFails(r) \/ CommitFails(r) \/ Crash(r)

\* What the worker of r does when nothing fails.
Works(r) == \/ Touch(r) \/ CheckScopes(r) \/ RefuseScopes(r)
            \/ RateAllows(r) \/ RateDenies(r) \/ AuditDenied(r)
            \/ GetToken(r) \/ BurnToken(r)
            \/ AuditDryRun(r) \/ Preview(r)
            \/ AuditAttempt(r) \/ WritePart(r) \/ WriteReturns(r)
            \/ AuditSuccess(r) \/ AuditError(r) \/ Commit(r)

Next == \/ \E r \in Requests : Arrives(r) \/ Works(r) \/ Faults(r)
        \/ \E t \in Requests : TokenExpires(t)

Spec == Init /\ [][Next]_vars

(* A worker keeps running until its call ends: nothing in the code waits   *)
(* for anything but the row lock, whose holder is another running worker.  *)
FairSpec == Spec /\ \A r \in Requests : WF_vars(Works(r))

-----------------------------------------------------------------------------
(* Properties.                                                             *)

(* "Intent recorded before the write": at every moment, and so at every    *)
(* crash, a change that is kept has its attempt on the audit trail.  Where *)
(* each statement commits by itself the row is first; where the request    *)
(* is one transaction they commit together, which a change outside the     *)
(* database does not wait for: that one case is EffectsAudited below.      *)
IntentOnRecord ==
    \A r \in Requests :
        durable[r] > 0 /\ req[r].tool \notin External \cap AtomicTools
            => "attempt" \in trail[r]

(* "The write is refused if the record cannot be persisted": a call that   *)
(* is over and left a change behind has its attempt on the trail.  Changes *)
(* of an External tool leave before the attempt is committed.              *)
EffectsAudited ==
    \A r \in Requests :
        pc[r] \in {"done", "crashed"} /\ durable[r] > 0 => "attempt" \in trail[r]

(* The trail tells the truth about what is stored.  A success row means    *)
(* that the whole write was kept, unless the tool is one whose view hides  *)
(* its errors; an error, dry_run or denied row means of every tool that    *)
(* nothing was (of changes the database can undo).                         *)
OutcomeTrue ==
    \A r \in Requests :
        /\ "success" \in trail[r] /\ req[r].tool \notin Lenient => durable[r] = Parts
        /\ /\ trail[r] \cap {"error", "dry_run", "denied"} # {}
           /\ req[r].tool \notin External
           => durable[r] = 0

(* What the client is told is what happened, with one transaction per      *)
(* call: whatever was kept was answered as applied, so a client told of a  *)
(* failure can try again; and applied means the whole write, unless the    *)
(* view hides its errors.                                                  *)
AnswerTrue ==
    \A r \in Requests : pc[r] = "done" =>
        /\ durable[r] > 0 => answer[r] = "applied"
        /\ answer[r] = "applied" /\ req[r].tool \notin Lenient => durable[r] = Parts

(* A confirm-gated tool never writes, nor tries to, without a preview: the *)
(* dry run of some earlier call of the same user with the same tool and    *)
(* the same payload is on the audit trail.                                 *)
PreviewedFirst ==
    \A r \in Requests :
        /\ durable[r] > 0 \/ "attempt" \in trail[r]
        /\ req[r].tool \in Gated
        => \E p \in Requests :
             /\ p = req[r].token
             /\ "dry_run" \in trail[p]
             /\ req[p].tool = req[r].tool
             /\ req[p].payload = req[r].payload
             /\ Owner[req[p].cred] = Owner[req[r].cred]

(* One preview, one write: no two calls of one key write by the same       *)
(* confirm token, because the first takes the row of the key (in a process *)
(* with ATOMIC_REQUESTS, where it keeps that row until it ends).           *)
OneWritePerToken ==
    \A r, s \in Requests :
        /\ durable[r] > 0 /\ durable[s] > 0
        /\ req[r].tool \in Gated /\ req[s].tool \in Gated
        /\ req[r].token = req[s].token
        /\ req[r].cred \in Keys /\ req[r].cred = req[s].cred
        /\ Atomic(r) /\ Atomic(s)
        => r = s

(* Every call ends: calls waiting for each other's key row never wait in a *)
(* circle, and no stage of the pipeline is a dead end.                     *)
EveryCallEnds ==
    \A r \in Requests : pc[r] # "idle" ~> pc[r] \in {"done", "crashed"}

(* The pipeline uses the confirm-token rail as ConfirmToken describes it.  *)
UsesRail == Rail!TokenSpec

\* The tool r called, for AuditTrail.
Asked == [r \in Requests |-> IF pc[r] = "idle" THEN None ELSE req[r].tool]

Promise == INSTANCE AuditTrail WITH tool <- Asked

(* With one transaction per call, and changes only in the database, the    *)
(* pipeline implements AuditTrail: the record of a call and its effect     *)
(* become durable in one step and agree.                                   *)
KeepsPromise == Promise!TrailSpec
=============================================================================
