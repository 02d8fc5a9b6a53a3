# Specifications of openedx-mcp

openedx-mcp is a Django plugin for Open edX: an HTTP facade through which an MCP
client, driven by an agent, reads and changes a learning platform. This directory
holds TLA+ specifications of its safety rails, TLC configurations that check them
on small instances, and TLAPS proofs of what matters most for every instance.
Paths below are relative to `src/`; `mcp/` stands for `openedx_mcp/api/mcp/`.

## The system

| Component | State it keeps | Operations | What makes it correct |
|---|---|---|---|
| Confirm token (`mcp/_rails.py:51-77`) | cache entry per token: the fingerprint it was issued for, 5 minutes | `issue_confirm_token`, `consume_confirm_token` | a token confirms only the request it was issued for; once |
| Rate limit (`mcp/_rails.py:80-96`, `guards.py:98`) | cache counter per (subject, tool, window) | `check_rate_limit` | at most the budget per window; nobody pays for another, but for a key and a user of the same number |
| Audited write (`mcp/guards.py:66-147`, `base.py:74-76`) | audit rows; the transaction and its savepoint | the wrapper around every write tool | nothing written without its audit row; rows tell the truth; a gated write has its preview |
| Authentication and scopes (`mcp/auth.py`, `models.py:47-94`) | `MCPKey` row: hash, scopes, revoked, expiry, last use; the user's flags | `authenticate`, `has_permission`, `require_scopes` | a dead key or a demoted user is refused; scopes only narrow |
| Key admin (`admin.py`, `models.py`) | the same rows | add, change, revoke action, delete | a revoked key stays revoked; the secret exists once |
| Redaction (`mcp/_rails.py:99-115`) | none | `redact` | no secret reaches the audit log |
| Bulk enrollment (`native/enrollment.py`, `tool_views.py:41-61`) | enrollments and pending invites (platform) | preview, enroll, unenroll | what is applied is what was previewed; a bad row spoils only itself (it does not, see Findings) |
| Authoring (`native/authoring.py`, `mcp/authoring_views.py`) | block tree, course settings (modulestore, not the database) | create, create tree, update, publish, delete, settings | what is made is where it was asked for; what is answered as saved is saved |
| Users and roles (`native/users.py`, `native/roles.py`, `tool_views.py:64-143`) | accounts, flags, course roles (platform) | create, deactivate, set role, instructor access | an account stands as the last call asked; admin levels need `grant:admin` |
| Certificates, reports, retirement (`native/*`, `ops_views.py`) | platform tables and celery tasks | one platform call each | previews write nothing; a retired account stays unknown |
| Reads and audit view (`mcp/views.py`, `native/analytics.py`) | none | queries, four of them by pages | a client that walks through the pages gets every row |
| Routing (`mcp/urls.py`, `mcp/cms_urls.py`) | none | first match over greedy converters | every URL reaches its own view |
| Plugin wiring, settings, packaging; admin templates | none | declarations | - |

How they interact. A request authenticates, which updates the key's row, and passes
the live authority check; a write tool then runs inside the `audited_write` wrapper,
which checks the scopes, counts the call in the cache, consumes or issues a confirm
token in the cache, inserts audit rows, and calls the tool's view, which calls the
platform. Workers share the database, the cache and, in Studio, the modulestore;
nothing else. The LMS sets `ATOMIC_REQUESTS` (`guards.py:17`), so a request is one
transaction and the view runs in a savepoint of it; without the setting every
statement commits on its own and the savepoint is a transaction.

What is hard here. The code of one request is sequential and short; what is hard is
that many run at once and any of them can stop anywhere:

- the cache is not transactional. A token is read and deleted in two operations, a
  counter is added and incremented in two, entries expire or are evicted in between;
- audit rows and effects are separate statements with a commit point that depends on
  a setting of the host, and some effects (modulestore) obey no commit at all;
- a worker dies, a cache or database operation raises, or the commit is refused, at
  each of these points; clients retry, duplicate and delay their calls;
- keys and users are read once per request, and administrators change them meanwhile;
- some platform functions save a whole row of which they mean one column;
- a listing is counted and cut into pages by separate queries, on tables that change.

PROJECT.json lists each hazard at its line and the properties aimed at it.

## The modules

| Module | Models | Notes |
|---|---|---|
| `ConfirmToken` | `_rails.py:70-77`, `51`, `60-64` | the token store under any number of overlapping calls |
| `RateLimit` | `_rails.py:80-96`, `guards.py:98` | the counter, operation by operation |
| `AuditTrail` | `guards.py:1-25`, `98-145` | abstract: what a tool call promises |
| `AuditedWrite` | `guards.py:66-147`, `auth.py:36-51`, `84-95`, `base.py:74-76` | the pipeline; instantiates `ConfirmToken`, refines `AuditTrail` |
| `KeyAuth` | `auth.py:32-95`, `models.py:54-101`, `admin.py:82-127`, `164-167`, `tool_views.py:82-99` | a key's life against the calls made with it |
| `BulkEnroll` | `native/enrollment.py:13-120`, `native/users.py:41-81`, `tool_views.py:17-79`, `guards.py:108-119` | a batch from its preview to its answer, and what else changes an enrollment |
| `Authoring` | `native/authoring.py:45-98`, `123-142`, `authoring_views.py:28-81`, `guards.py:108-119` | Studio's tools, one modulestore operation per step |
| `Accounts` | `tool_views.py:82-143`, `native/users.py:9-13`, `84-105`, `native/roles.py`, `native/retirement.py:17-41` | the tools on accounts and course roles, look-up and save apart |
| `Routes` | `urls.py`, `cms_urls.py` | both tables of patterns and the rule of the first match |
| `Redact` | `_rails.py:99-115`, `guards.py:49-50`, `87-88` | what the audit log keeps of a body |
| `Listing` | `views.py:43-107`, `native/users.py:16-25`, `native/analytics.py:16-23`, `native/certificates.py:22-34` | a client's walk through the pages of a listing |
| `Facade` | `urls.py`, `guards.py:87-96` | a request from its URL to its view; composes the three before it |
| `ConfirmTokenProofs`, `RateLimitProofs`, `AuditedWriteProofs`, `KeyAuthProofs`, `AccountsProofs`, `BulkEnrollProofs`, `AuthoringProofs`, `FacadeProofs` | - | the theorems |
| `MC...` | - | small instances and symmetry |

`AuditedWrite` uses `ConfirmToken`; `RateLimit`, `KeyAuth`, `BulkEnroll`, `Accounts` and
`Authoring` stand beside it. Each is the detail of something `AuditedWrite` leaves free:
whether the limiter allows a call, which calls enter, and what a view does, in the
database or in the modulestore. `Facade` is what lies before a view: the route to it and
the summary of the body. They are kept apart because nothing of one is read by another:
the limiter's counters, the keys and the accounts are touched by no other step of the
pipeline than the one that stands for them.

**ConfirmToken.** `cache[t]` is the entry `mcp:confirm:<t>`; `call[c]` is the state of
one execution of `consume_confirm_token`. `Issue` is `issue_confirm_token`; `Enter`,
`Get`, `Delete` are the call, its `cache.get` with the decision taken on it, and its
`cache.delete`; `Expire` is the TTL or an eviction; `Abandon` a cache error or the
death of the worker. `issued` and the field `late` are history. A fingerprint is an
opaque value: the SHA-256 of (tool, user, payload) is assumed free of collisions, and
so are the 24 random bytes of a token.

**RateLimit.** `counter[b]` is the entry of a bucket (subject, tool, window) with the
window it was stored in. `Enter` reads the clock and forms the name, `Add`, `Incr`,
`IncrMisses` and `SetOne` are `cache.add`, `cache.incr`, its `ValueError` and the
`cache.set(ck, 1)` of the handler; `FailOpen` is any other exception, and
`FailOpenCounted` the one that hides an increment that did happen. Time is counted in
windows; an entry stored in one window can expire in the next, also under a call that
formed its name earlier. The subject is `key_id or user_id`: a bare number.

**AuditedWrite.** One `Requests` element is one HTTP call of a write tool from the
moment its credential has been read. `pc` names the statement that comes next:

| Stage | Code | Leaves by |
|---|---|---|
| touch | `auth.py:50` | `Touch`, `TouchFails` (lock wait given up) |
| scopes | `guards.py:80-82`, `auth.py:84-95` | `CheckScopes`, `RefuseScopes` |
| rate | `guards.py:98` | `RateAllows`, `RateDenies` |
| denied | `guards.py:100-106` | `AuditDenied` |
| token, burn | `guards.py:122`, `_rails.py:73-77` | `GetToken`, `BurnToken`, `CacheFails` |
| preview, dryrun | `guards.py:125-135` | `AuditDryRun`, `Preview`, `PreviewFails` |
| attempt | `guards.py:137` | `AuditAttempt` |
| writing | `guards.py:108-119` | `WritePart`, `WriteReturns`, `WriteFails` |
| ok, failed | `guards.py:139-144` | `AuditSuccess`, `AuditError` |
| commit | end of the request's transaction | `Commit`, `CommitFails` |

`AuditFails` may replace any audit insert and `Crash` any step. `rows` and `wrote` are
the open transaction, `trail` and `durable` what would survive a crash now. A tool
outside `AtomicTools` is served by a process without ATOMIC_REQUESTS: an audit row goes
to `trail` at once and a view's changes when its `transaction.atomic()` exits. Processes
of both kinds may run side by side. The decorated view is a parameter: `Parts` changes
one after another, failing after any of them; the changes of an `External` tool
(`create_xblock`, `update_course_settings`: modulestore) go to `durable` as they are
made. `WriteReturns` is a 2xx of the view: after all of its changes or, of a `Lenient`
tool, after some. Lenient are the tools that report errors inside a 2xx: `bulk_enroll`
(`enrollment.py:49`, `69`), `update_course_settings` (`authoring.py:140-141`), and
`update_xblock` and `create_xblock` with content, which drop the 400 of `_save_xblock`
(`authoring.py:80`). When such a view swallows an error of the *database*, Django has
marked the block for rollback and `transaction.atomic()` undoes everything without
raising: `UndoBlock` before a success row and a 200. Whether the limiter allows a call is a free choice, so everything shown here
holds whatever `RateLimit` does.

**KeyAuth.** `key[k]` is the row of an `MCPKey`, `flags[u]` what `IsStaffOrSuperuser`
looks at. `AddKey`, `OpenForm`, `PostForm`, `SaveForm`, `RevokeKeys` and `DeleteKey` are
the Django admin; a change form is three steps because it stays open on a screen, and
because the posted row is read before it is saved. `Send`, `ReadKey`, `Admit`, `Refuse`
and `Act` are a call: the one query of `authenticate` with its copy of row and user, the
decision of `authenticate`, `has_permission` and `require_scopes` on that copy, and the
tool, which for the admin levels of `set_role` changes `flags` itself. `decided` and
`justified` are history. A raw key is identified with its row: the hash is assumed
free of collisions.

**BulkEnroll.** `roster[e]` is an address in one course: account, enrollment, invite, as
committed. `call[c]` is one batch. `Preview` is the call without a token: `Classify` puts
each entry in a group, in the order of the tests of `_classify`. `Confirm` starts the call
with the token; `ServeRow`, `RowRaises` and `RowSpoils` are the outcomes of one row,
`Answer` the end of the savepoint and the transaction, `GiveUp` any other end. An entry's
email is a value with two readings: `Clean`, stripped and lower-cased, is what the preview
looks up (`enrollment.py:80`); `Sent` is what the platform does with the raw string the
batch hands it (`enrollment.py:39`, `63`). Entries without an email are `left_out` of the
preview and still have a row; `enroll_email` raises for them. `changed` is what the batch
has changed and not committed: those rows are locked, a row that found its address as
asked is not. `spoiled` is the flag Django sets on a connection after a database error: no
more queries, and a rollback when the block is left. `SignUp`, `CreateUser`, `Enroll`,
`Unenroll` are learners and the tools for one user: `create_user` makes an account without
looking for its invites. `groups` and `stirred` are history: what the preview said, until
somebody else changes one of the addresses, and the rows whose address somebody else has
changed since their turn. `PreviewEnroll` and `PreviewUnenroll` are the numbers of the
preview; the properties compare them with the rows of the answer.

**Authoring.** `store[b]` is the block at a locator, as Studio edits it: its fields and the
list of its children. No block names its parent; being listed is all there is.
`public[b]` is what learners see. `StartTree`, `StartUpdate` and `StartSettings` are the
views; `create_xblock` is a tree of one node without content. A tree call creates its nodes
in document order (`Create`), and a node with content goes through `Read` and one of
`Save`, `SaveRaises` and `Refuse`: `get_item` and `_save_xblock` of `update_block`. The
tree of the request is a sequence of nodes that name their parent by number. `Save` puts
the whole block back as it was read, list of children included, with the fields of the
request replaced. `Refuse` is a value Studio cannot take: it saves nothing and says so in
a returned 400, which `update_block` drops before it says "saved"; in a settings call it
is the `errors` of the answer. A settings call goes through `Read` and `Save` of the course
once per section. `Discard` is `publish="discard_changes"`: the block and everything under
it goes back to what is public (`Revert`), and what was never public goes. `PublishBlock`
and `DeleteBlock` are the confirmed tools of that name, and `Raise` stands for any
failure: the call ends, what it did stays. `home`, `latest`, `lost` and `raced` are
history: where a block was created; what the last save of a field set it to; the fields an
answer has claimed in vain, refused or overwritten from an old copy; the blocks whose list
of children an old copy has replaced.

**Accounts.** `account[u]` is the row of `auth_user`, `roles[u]` its course roles. `Look`
is the look-up of the name with the copy of the row it returns, `Refuse` the 403 or 404;
`SetGlobalStaff`, `SetSuperuser`, `ChangeCourseRole`, `Deactivate` and `RequestRetirement`
are the tools from there to the end of their transaction, `Fail` any failure, `Activate`
the link in an activation mail. Some tools save one column, others the whole copy.
`asked` and `wanted` are history: what the successful calls asked for. `excused` says
where the two may differ: a column put back by a save of an older row, or something
granted to an inactive account, which the platform passes over.

**Facade, Routes, Redact, Listing.** A URL is a sequence of segments and a pattern one of
segments and converters; `Resolve` takes the first pattern that matches, `UrlOf` is the
reverse. `Dispatch` is a request's way to its view, with the summary of its body if the
view is wrapped by `audited_write`; a body nests texts, lists and dicts. When the view is
one of the four listings, `Open` begins a walk: the client asks for a page (`Count`, then
`Fetch`: two queries), goes on where the answer says it ended, and stops at the total or
at a page that is not full, while rows come into view and leave (`Come`, `Leave`).
`steady`, `came`, `slipped`, `left` and `again` are history.

Operators introduced by "Mistake:" are not used by any specification: each is a
plausible error in the definition that follows it (a dropped guard, a missing reset,
an off-by-one). Replacing the definition by its mistake makes TLC report the property
named in the `mutants` list of PROJECT.json, which is the evidence that the property
depends on that piece of code.

### Assumptions and abstractions

- One operation of the shared cache is atomic (Redis or memcached, as `guards.py:22-24`
  requires); LocMemCache, which is per process, is not modelled.
- Clocks of the workers agree on the current window and do not go backwards.
- The only lock modelled is the `MCPKey` row taken by `auth.py:50`. Deadlocks with
  locks the platform takes inside a view are out of sight.
- Only authenticated staff calls enter the pipeline; refused ones change nothing.
- An exception that is not an `APIException` becomes a 500 without marking the
  transaction for rollback (`base.py:74-76`), so what was inserted before it commits;
  an error of the database itself does mark it.
- `KeyAuth` lets an administrator's change happen while a call holds the key's row, which
  the lock of `auth.py:50` partly forbids: more behaviours than the system has.
- `select_related` makes row and user one query, read at one moment. Saving a row that
  was deleted meanwhile inserts it again, as `Model.save` does.
- JWT and session calls are authenticated by other code; like a key's user, theirs is
  read once per request.
- `enroll_email` and `unenroll_email` are platform code, modelled from how they are
  used: by address, in the default mode, idempotent, with the invite kept on enrollment.
  `enroll_email` raises without an address; `unenroll_email` finds nothing. The three
  queries of `_classify` are one step.
- One operation of the modulestore is atomic, and locators are never given twice.
  Categories are left out: a block stands for a unit or what is in it, and what Studio
  publishes as it is saved (sections, the course) is not `public` here; the course always
  counts as published and has no changes to discard. The order of children is left out.
  A block is published with everything under it, under a parent that is public; a deleted
  one stays public until its parent is published. Which values `_save_xblock` refuses with
  a 400 is free, among the fields it checks (`Checked`: metadata, advanced settings).
- The platform's `GlobalStaff` sets the flag on the object it was given and saves it whole,
  and passes over an inactive account when it adds; so do the course roles when they add.
  A second retirement request for an account raises, and a full one replaces username and
  email by hashes and saves the row. An account has one username and one email, and
  nobody else takes them.
- A client of a listing reads `total` and the limit in the answer. Its superuser flag does
  not change during a walk. Negative limits and offsets, which Django refuses, and a limit
  of zero are left out.
- A segment of a URL is opaque; percent-encoding and trailing slashes are left out.
- The text of answers and of logs is left out, and so is the text of audit summaries
  except for which secrets show in it.
- A preview (`confirmed=False`) makes no change: the decorator demands it
  (`guards.py:70-72`) and the views were read and comply.

## The runs

Deadlock is checked in `bulk_enroll` and `bulk_rows`, where batches start anew; in the
other runs the calls, the walk or the resources are finitely many, and a finished system
stops.

| Run | Question | Instance |
|---|---|---|
| `confirm_token` | can a token confirm anything it was not issued for, or a retry? | 3 overlapping calls, 2 tokens, 2 fingerprints |
| `confirm_race` | is a token single-use? **No** | 2 calls, 1 token |
| `atomic` | do record, effect and answer agree under ATOMIC_REQUESTS? does one key write once by one token? | 3 calls, key and session of one user, two gated database tools, one of them lenient, 2 changes |
| `modes` | with it and without it, at every crash point: does the attempt precede the effect, does the outcome row agree with it, does every call end? | 2 calls, 2 keys (one without scopes) and a session; four tools, each in both modes: gated database, the same lenient, ungated lenient modulestore, gated modulestore |
| `untracked` | is every lasting effect audited? **No** | 1 call, modulestore tool |
| `rate_limit` | do at most `limit` calls pass in a window? what does a lost counter cost? is a caller denied only by calls of its own number? | 4 calls, 3 callers (keys 1 and 2, user 1), limit 2, 2 windows, 1 eviction |
| `key_life` | did a call that acts have a live key, a privileged owner and the scopes at one moment? does a revocation stick, unless an older form is saved? | 1 call, 1 key, 1 user, 1 admin tab, 2 tools, times 0 and 1, TTL 1 |
| `bulk_enroll` | are the rows of an answer true? does a batch do what its preview said? | 2 overlapping batches of up to 2 rows (3 rows together, if both are at work), 4 entries: two plain, one untidy, one empty |
| `bulk_rows` | are the rows true after a database error? **No** | 1 batch of 2 rows |
| `authoring` | what does a call leave behind, whole or half done? is a saved field kept? | 2 overlapping calls, 2 new blocks, trees of up to 2 nodes, 2 fields, one of them checked |
| `accounts` | is an account what the last call asked? who can make staff? | 2 overlapping calls, 2 accounts, 1 course role beside the two admin levels |
| `facade` | does every URL reach its view? does a secret reach the log? what can a walk through pages miss or repeat? | every route, 3 course ids (one in the new form, two in the old), 2 usernames, bodies nested twice with secrets in dicts and lists, list sample 1, 3 rows, limits 1 and 2, cap 1, 2 rows that come and 2 that leave |

Why these bounds are enough. `atomic` needs three calls because the shortest misuse of
a token takes three: a preview, and two calls that present it; the second tool lets one
of them differ from what was previewed. Two changes make "half" possible, and a crash or failure is possible at
every stage without any bound. `modes` needs no third call: its properties are
about one call, and the second is there to take the token of the first. `rate_limit`
has two calls more than one caller's budget, so that a straggler, a caller at the limit
and one above it meet, or another caller interferes, user 1 with the number of key 1 and
key 2 with one of its own; the second window is what makes expiry possible. In
`key_life` one call suffices because calls meet only in `flags`, which `SetFlags`
changes in every possible way; one key can be revoked, expire, be deleted, be saved
back and change hands, and its user be demoted and promoted, all between two steps of
the call. `bulk_enroll` needs two rows, so that a row has one before it to undo and the
same address can come twice, and two batches, so that a row meets another batch's lock,
or a change of an address it has left alone; one of the entries is stored under another
name than the preview looks up, one has no email. One address can register; the others
show what an invite alone does.
`accounts` needs two calls, one to save between the other's look-up and its save, and a
second account only to show that nothing reaches it. `facade` needs three rows: one on
each side of a page's end and one that moves them; one row on a page is enough to have
ends of pages everywhere. Its usernames include `roles`, and its course ids `o/c/team`
and `o/team/settings`, because those look like sub-routes.
`authoring` needs two blocks for a parent and a child, with the course as a parent above
them, and two fields for an update to name one and carry the other along, or to have one
refused; two calls are enough for one to save or create between the other's reading and
saving, and deleting and publishing need no call at all.
The proofs remove the bounds altogether; only liveness and the counterexamples stay
bound to an instance.

`KeepsPromise` is the refinement of `AuditTrail`: seen through `trail` and `durable`, a
call concludes in one step, with one of four sets of rows and the matching effect, or
leaves nothing. It holds exactly where the docstring's claim does: one transaction per
call and no `External` tool. What "success" means is part of the abstraction: the whole
write, or for a `Lenient` tool no more than that the view came to its end. `UsesRail` says
that the pipeline drives `ConfirmToken` by that module's own steps, so its theorems carry
over.

### Fairness

Only `modes` assumes any: weak fairness of `Works(r)` for each call, that is, a
worker that can take its next step eventually does, or dies. Faults are never fair and
never required. Weak fairness is enough for the lock as well: its holder is a call
past `touch`, which waits for nothing and ends; the waiter could only be overtaken
for ever by an infinite supply of other calls, and a run has finitely many. With
infinitely many calls of one key the database's own queueing would have to be fair.

### Findings

Three runs end in a counterexample, each against a sentence of the repository:

1. `SingleUse` (`_rails.py:73-76`): `get` and `delete` are two operations and the
   result of the delete is ignored, so two overlapping calls are both confirmed. Under
   ATOMIC_REQUESTS calls of one *key* are saved by accident: the row lock of the
   last-used update runs them one after another (`OneWritePerToken`, proved). Sessions
   and JWTs take no such lock, and two keys of one user share fingerprints.
2. `EffectsAudited` (`guards.py:137`): the attempt row is inserted before the write but
   committed after it; a modulestore change outlives a crash that the row does not.
3. `RowsTrue` (`native/enrollment.py:49`, `69`): a row's database error is caught inside
   the savepoint, which Django then rolls back: a 200 and a success row report rows that
   were undone. In `AuditedWrite` this is the `Lenient` exception of `OutcomeTrue`,
   `AnswerTrue` and `AuditTrail`.

Read in the code while modelling, and plain enough to need no run:

- `admin.py:112`, `127`: the change form posts `is_revoked` as it was when the form was
  opened, so saving it revives a key revoked meanwhile ("Revoke any time via the row
  action.", `README.md:50`); `RevocationSticks` states what is left: nothing else does.
- `native/users.py:91`, `93`: granting or removing global staff saves the whole row as it
  was looked up, and undoes a deactivation or a demotion saved in between;
  `StandingAsAsked` states that nothing else does.
- `native/roles.py:49`, `native/users.py:91`: a role granted to an inactive account is
  answered as granted and was not. `create_user` makes inactive accounts.
- `_rails.py:107`: the items of a list are written out as text, so a dict among them shows
  what it has under `password` ("sensitive keys become [redacted]", `_rails.py:101`).
- `mcp/urls.py:24-25`: the detail of a course whose old-style id ends in `/team` is taken
  for the team of another course.
- `views.py:98-106`, `native/certificates.py:28`: no listing by time breaks ties, so rows
  with the same time may change places between two pages.
- `admin.py:170-181`: an audit row can be deleted in the admin, although the log is
  "append-only" (`admin.py:178`); a walk through the log must reckon with that.

- `guards.py:98`: the subject `key_id or user_id` mixes two number spaces. A key and a
  session user with the same number share one counter ("Fixed-window counter per (key,
  tool)", `_rails.py:81`); `DeniedByOwnCalls` names that namesake, and nobody else.
- `native/authoring.py:79-81`: two updates of one block that overlap lose fields of the
  first, although both say "saved", and the second puts back the list of children it read:
  a block created meanwhile is in no list. `EditsKept` and `TreeAsAsked` state what is
  kept otherwise.
- `native/authoring.py:80-82`: `_save_xblock` answers a value it cannot take with a 400
  and saves nothing; the answer is dropped, and the caller reads `"saved": True`.
- `native/authoring.py:81`: `discard_changes` on a section or a subsection takes the
  unpublished blocks under it along, those of other calls included.
- `native/enrollment.py:80`: the preview strips and lower-cases addresses and skips
  entries without one; the batch (`:39`, `:63`) hands the platform what was sent, so for
  such entries "what a bulk enroll/unenroll batch would do" (`:101`) is told of other
  addresses, and `total` is not the `count` of the answer.
- `native/authoring.py:74-81`: `update_xblock` with `publish="make_public"` publishes at
  once, where "delete/publish use confirm handshake" (`authoring_views.py:2-3`).
- `tool_views.py:115`: `instructor_access` grants on `"grant"` and revokes on anything
  else, `"allow"` included, although its docstring says "allow/revoke" (`tool_views.py:106`).
- `native/roles.py:48`, `55`, `79`, `89`: `username_or_email` is looked up as a username only.
- `guards.py:111`: a savepoint does not undo the modulestore, so a tool of several
  modulestore changes that fails leaves some of them ("Nothing half-written is
  committed", `guards.py:20`; `README.md:97-98` admits the limit).
- `auth.py:49-50`: "never blocks the request", yet the update waits for the key's row
  while another call's transaction holds it, and its failure fails the request.
- `native/enrollment.py:40-47`: the mode of a row is read and reported, not used.
- `native/enrollment.py:91`: an account with a leftover invite (`create_user` makes such
  accounts of invited addresses) is previewed under `will_be_pending`, "no account yet"
  (`:104`), and enrolled at once; `EnrollForetold` states the preview up to these.

## The proofs

`tlapm` checks every theorem for all values of the constants that satisfy the named
assumptions: any number of calls, tokens, credentials, tools, payloads, changes, keys,
users, administrators, batches of any length, blocks, fields and node lists, bodies
nested to any depth, course ids of any length, tables of any size and pages of any
length. The assumptions, each in the module that declares the constants, are `TokenAssumption`,
`PipelineAssumption`, `KeyAssumption`, `RateAssumption` (limits are positive, finitely
many calls), `AccountsAssumption`, `BulkAssumption` and `AuthoringAssumption` (a node
comes after its parent, as document order has it), `ValuesAssumption` (values are nested
finitely deep, and redacting one makes another), `ListingAssumption` (finite tables,
positive limits) and `FacadeAssumption` (course ids are not empty; in a body, a secret
is what a sensitive key names); and that `None` is no record (`NoneIsNoCall`,
`NoneIsNoRecord`, `NoneAssumption`). TLC evaluates each on the instances of the runs.

**ConfirmTokenProofs.** `TokenInv` is the inductive invariant: what is in the cache is
what was issued (`StoreHonest`); a call past its `get` holds the fingerprint its token
was issued for (`CallsMatch`); once a token is spent it is gone from the cache
(`SpentGone`) and nobody who started later got past the `get` (`LateRefused`);
arguments are in range (`ArgsGiven`). `PreviewBinding` and `RetryIsRefused` alone are
not inductive: nothing in them ties the cache to `issued`, or a spent token to an
empty entry. From it follow `TokenTypeCorrect`, `PreviewBindingHolds` and
`RetryIsRefusedHolds`.

**RateLimitProofs.** `RateInv` is inductive; `WindowBudget` is not, since nothing in it
ties who was allowed to where the entry stands. The invariant ties them, bucket by
bucket: the entry counts no more than the calls that were counted (`CountsCalls`), those
allowed are at most the budgets of the losses and what the entry itself has handed out
(`HandedOut`, whence `LossBudgetHolds`), and while nothing is dropped early a bucket loses
nothing before its window is over, not even under a call between its `add` and its `incr`
(`Unbroken`, with `ClockAhead`, whence `WindowBudgetHolds`). `PendingUncounted` and
`DeniedByBucket` give `DeniedByOwnCallsHolds`: `Limit` other calls of the bucket have been
counted, and the number in a bucket's name belongs to one key and one user at most
(`SameNumber`): the caller and its namesake.

**AuditedWriteProofs.**

- `TypeCorrect`: `Spec => []TypeOK`.
- `RailRefined`: every step of the pipeline is a step of `ConfirmToken` or leaves its
  variables alone. The lemma `SameRail` identifies the two instances of the token
  module, after which the token theorems are facts about the pipeline.
- `PreviewedFirstHolds`: a gated tool never writes without a preview. A call that
  reaches `attempt` was confirmed, hence its token's fingerprint is its own
  (`PreviewBinding` through the rail); the invariant adds that a token is issued only
  by the call it is named after, for that call's fingerprint, and that a call which
  answered with a preview and is done has its dry run on the trail.
- `OutcomeTrueHolds`: rows and effects agree, with or without ATOMIC_REQUESTS; of a
  `Lenient` tool the error, dry_run and denied rows do. The invariant bounds `wrote`,
  `durable`, `rows` and `trail` stage by stage, and past the view tells strict tools from
  lenient ones.
- `IntentFirst`: `IntentOnRecord`, in both transaction modes.
- `PipelineKeepsPromise`: with ATOMIC_REQUESTS and no external tool, the refinement of
  `AuditTrail`: before `commit` nothing is on the trail, at `commit` the open rows are
  one of the four records and agree with `wrote`.
- `OneWritePerKey`: with ATOMIC_REQUESTS, two calls of one key never write by the same
  token (`OneWritePerToken`). The invariant is mutual exclusion by the row lock
  (`Serial`), and that a call which is past its `burn` leaves the token spent, which the
  next holder of the lock therefore finds gone.
- `AnswerTrueHolds`: with ATOMIC_REQUESTS and no external tool, what was kept was answered
  as applied, and what was answered as applied was kept whole, unless the tool is
  `Lenient`. Before the commit the answer agrees with what the
  transaction holds, after it with what is stored (`AnswerHeld`).

**KeyAuthProofs.** `KeyTypeCorrect`, `AuthorityMomentHolds`, `RevocationSticksHolds`. `AuthorityMoment` speaks
of calls that were admitted, by a decision on a copy that may be stale; what makes it
inductive is `CopyJustified`: if a copy passes *now*, its call was authorized at some
moment. When the copy is taken this holds because it equals what is stored, and `Watch`
records it; later steps can change what is stored but not the copy, and the clock can
only make a copy fail (`ExpiryIsFinal`). `OthersUntouched` and `WatchGrows` keep the rest.

`RevocationSticksHolds` needs beside the types only `MintedFirst`: rows, forms and
decisions are of keys once added. Without it a key could be decided on before it exists
and be added, not revoked, afterwards.

**AccountsProofs.** `AccountsTypeCorrect`, `StandingAsAskedHolds` and `RisesByScopeHolds`.
`StandingAsAsked` is inductive together with the type invariant, because every save moves
the stored row and the history by the same columns and `excused` takes the rest; no step
of a call reads what another call holds, so the number of calls does not enter.

**BulkEnrollProofs.** `BulkInv` is the inductive invariant. `RowsTrueUnlessSpoiled` speaks
of a batch that ends, so it needs to be known while the batch runs: a row's result is true
and serving the row once more would change nothing (`ServedTrue`; the second part is for
an address that comes twice). It stays so because no two batches have changed one address
(`Apart`, the row locks), because `Serve` is idempotent, which is a lemma, and because a
change by anybody else of an address that is not locked marks the rows it hits (`stirred`).
The previews are true of the answer because of `StillForetold`: of a plain batch that
nobody has disturbed, a row already served has the result of some entry in its group
(`Foreseen`), and a row to come has an address the batch has not touched and that is
still in its group. At the end every row is foreseen, and the counts of the preview are the
tallies of the answer, by a lemma on sets of rows (`CountBetween`). From it follow
`BulkTypeCorrect`, `RowsTrueUnlessSpoiledHolds`, `UnenrollForetoldHolds` and
`EnrollForetoldHolds`.

**AuthoringProofs.** None of the three properties is inductive: a step of one call changes
blocks of another, and whether that breaks something depends on copies, on the public
blocks that a discard brings back, and on who may be the parent of whom. `AuthoringInv`
ties these down. `home` orders the blocks, each after the one it was created under
(`Ranked`), so nothing is under itself and `Under` stays within what was created below.
In the draft *and* in public a block is listed only by its `home` (`Listed`), and a block
that is there is listed by it unless that one is in `raced` (`Linked`); `Told` is
`EditsKept` block by block; locators without a `home` are nowhere (`Unused`). A copy about
to be saved lists only what was created there, and is the block as it is, part by part,
unless the call is marked as overlapped (`CopyFits`, in `CallFits`). Each node made has
the `home` its request gave it (`Placed`), and its content as asked or as yet untouched,
depending on how far the call is (`RightNode`). No two calls have made one block
(`MadeOnce`). `Under` is the least closed set, not a recursion, so a deletion, a
publication or a revert is about a set that is closed (`UnderIs`, `UnderLeast`,
`UnderBelow`) and needs no induction over the tree. One lemma for each action, above a few
for steps that only move calls (`CallsOnly`), that create (`CreateStep`), that save
(`SavesStep`) and that revert (`DiscardStep`). From it follow `AuthoringTypeCorrect`,
`TreeAsAskedHolds`, `AnswerWholeHolds` and `EditsKeptHolds`.

**FacadeProofs.** Three arguments that share only the state.

- `SecretsStayOut`. `RedactValue` and `Inside` are recursive functions, and the prover
  takes a definition `f[x \in S] == ...` for no more than the choice of a function that
  satisfies it. `RedactIs` and `InsideIs` show that there is one: for each depth there is
  a function right on all values less deep (`RedactStarts`), two of them agree where both
  are right (`RedactAgree`), and together they make the solution. Each is an argument by
  the least depth at which it could fail (`LeastNumber`), since a rule of induction over
  an operator is not to be had. `ValuesKeptOut` is another: of the values the redaction
  leaves a secret in, one of least depth would have none below it. The invariant,
  `RecordInv`, says that the summary is the one of the body.
- `WalksMissNoMore` and `RepeatsNeedArrivals`. Both speak of a finished walk or of a count
  and say nothing of where in the listing the walk is, so neither is inductive. `WalkInv`
  says it: of the rows *before* the offset, no more were missed than rows left
  (`Missed`), and the rows already got that stand *behind* it, with those got twice, are
  no more than rows came (`Repeated`). A row's place is the number of rows before it. One
  row that comes or leaves moves every other by at most one place, so at most one of
  those with a place of their own crosses the offset (`LeaveUpto`, `LeaveFrom`,
  `ComeUpto`, `ComeFrom`); that two such rows never share a place (`PlacesApart`) is
  where ties are excluded. A page is the rows in places from the offset to the next,
  whatever order the ties are put in (`PageHolds`), so `Fetch` moves the offset and changes
  neither side of the account. When the client stops, what is behind the offset slipped
  in after the count (`StopsAtEnd`).
- `UrlsReachTheirViews`. `UrlIs` says where in the URL of a route each segment of the
  pattern is: what is behind a `<path:>` is shifted by the length of what it stands for.
  From it follows that the route's own pattern matches and captures the arguments
  (`OwnMatch`), and that no URL of one pattern is matched by another that is `Apart`
  from it: a word differs in a place both fix, or a length. `LmsApart` and `CmsApart`
  go through the tables and find each pattern apart from all before it, but for
  `course-team` before `course-detail`, where `DetailNotTeam` needs that the course id
  does not end in `/team`. The words of the routes are not assumed to be `STRING`s,
  which the prover does not know of a literal: a URL is a sequence over the course ids'
  segments and the words of its pattern (`Texts`).
- `FacadeTypes` from the three invariants.

Model-checked only: `EveryCallEnds` (liveness is outside what the prover does) and the
counterexamples.

## What is not modelled, and the plan

Not modelled on purpose:

- the read tools that answer about one thing (course detail, grade, roles, team, the
  certificate of a user, the overview, `whoami`, `health`): one query, no state, no step
  that another could come between;
- `generate_certificate`, `regenerate_certificates`, `invalidate_certificate`,
  `submit_report`, `reset_student_attempts`: one or two calls into the platform, which
  queues a task or changes its own tables. Around them is `AuditedWrite`; inside there is
  only the platform;
- wiring, settings and packaging (declarations), the admin templates (layout).

Not modelled yet: a name that belongs to another account when the call is confirmed than
when it was previewed (the token binds the name, not the account).
