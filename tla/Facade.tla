------------------------------- MODULE Facade -------------------------------
(***************************************************************************)
(* One request from its URL to its view: the route it takes, the summary   *)
(* of its body that a write tool puts on record, and for a listing the     *)
(* walk through its pages that begins with it.                             *)
(***************************************************************************)
EXTENDS Routes, Redact, Listing

CONSTANTS CourseIds,   \* course ids, as sequences of segments
          Usernames,
          Bodies       \* bodies of write requests

ASSUME FacadeAssumption ==
    /\ CourseIds \subseteq Seq(STRING) \ {<<>>}
    /\ Usernames \subseteq STRING
    /\ \A body \in Bodies : IsBody(body)

VARIABLES request,     \* the route the client means, its arguments, the body
          view,        \* the view that was reached, or None
          summary      \* request_summary of the audit rows, or None

vars == <<request, view, summary, walkVars>>

Tables == [lms |-> LmsRoutes, cms |-> CmsRoutes]

Views == UNION {{route.view : route \in ToSet(Tables[site])} : site \in DOMAIN Tables}

\* The arguments that fit the converters of a pattern.
Arguments(p) ==
    {args \in [Converters(p) -> CourseIds \cup {<<u>> : u \in Usernames}] :
       \A i \in Converters(p) : IF i \in PathAt(p) THEN args[i] \in CourseIds
                                                   ELSE Len(args[i]) = 1}

NoBody == [k \in {} |-> Redacted]

Request(site, route, bodies) ==
    {[site |-> site, route |-> route, args |-> args, body |-> body] :
       args \in Arguments(route.pattern), body \in bodies}

\* Any URL without a body, and every body at one of the write tools.
Requests ==
    (UNION {UNION {Request(site, route, {NoBody}) : route \in ToSet(Tables[site])} :
              site \in DOMAIN Tables})
    \cup Request("lms", Write("create-user", <<"users", "create">>), Bodies)

\* None stands for no view.
ASSUME NoneAssumption ==
    \A r \in Requests : Resolve(Tables[r.site], UrlOf(r.route, r.args)) # None

Init ==
    /\ request \in Requests
    /\ view = None
    /\ summary = None
    /\ WalkInit

Dispatch ==
    /\ view = None
    /\ view' = Resolve(Tables[request.site], UrlOf(request.route, request.args))
    /\ summary' = IF view'.writes THEN Summary(request.body) ELSE None
    /\ UNCHANGED <<request, walkVars>>

\* The view of a listing serves the first page, and the pages after it.
BeginWalk ==
    /\ view # None /\ view.view \in Listings
    /\ Open(view.view)
    /\ UNCHANGED <<request, view, summary>>

ServeWalk ==
    /\ WalkNext
    /\ UNCHANGED <<request, view, summary>>

Next == Dispatch \/ BeginWalk \/ ServeWalk

Spec == Init /\ [][Next]_vars

-----------------------------------------------------------------------------
FacadeTypeOK ==
    /\ view \in {None, NotFound} \/ view.view \in Views
    /\ summary # None => view # None /\ view.writes
    /\ WalkTypeOK

\* A course id in the old form, with slashes, may end like a route below it.
Swallowed == /\ request.route.view = "course-detail"
             /\ \E i \in DOMAIN request.args :
                   Len(request.args[i]) > 1 /\ Last(request.args[i]) = "team"

(***************************************************************************)
(* "<path:> is greedy (matches "/"), so sub-routes of a course must        *)
(* precede the bare course-detail route or they get swallowed by it"       *)
(* (urls.py:22-23): the URL made for a view and its arguments reaches this *)
(* view with these arguments, but for a course whose own id ends in        *)
(* "/team": its detail is taken for the team of another course.            *)
(***************************************************************************)
OwnView ==
    view # None /\ ~Swallowed =>
        view.view = request.route.view /\ view.args = request.args

(***************************************************************************)
(* "sensitive keys become [redacted]" (_rails.py:101), at any depth: no    *)
(* secret can be read in the audit log, unless the body has it in a dict   *)
(* inside a list, whose items are written out as they are (_rails.py:107). *)
(***************************************************************************)
SecretsKeptOut ==
    summary # None =>
        \A k \in DOMAIN summary :
            Exposes(summary[k]) => DictInList(request.body[k])
=============================================================================
