------------------------------- MODULE Routes -------------------------------
(***************************************************************************)
(* urls.py and cms_urls.py: the first pattern that matches takes the URL.  *)
(*                                                                         *)
(* A URL is the sequence of its segments.  In a pattern, Str stands for    *)
(* one segment and Path for one or more: Django's <str:> and <path:>.  No  *)
(* pattern has more than one Path, so a match captures in one way only.    *)
(***************************************************************************)
EXTENDS SequencesExt

Str == "<str>"
Path == "<path>"

NotFound == [view |-> "not found", args |-> <<>>, writes |-> FALSE]

\* Write: the view of the route is wrapped by audited_write.
Read(view, pattern) == [view |-> view, pattern |-> pattern, writes |-> FALSE]
Write(view, pattern) == [view |-> view, pattern |-> pattern, writes |-> TRUE]

PathAt(p) == {i \in DOMAIN p : p[i] = Path}

Converters(p) == {i \in DOMAIN p : p[i] \in {Str, Path}}

\* The segments of url that stand for segment i of the pattern.
Part(p, url, i) ==
    LET extra == Len(url) - Len(p) IN
    IF \E j \in PathAt(p) : j < i THEN <<url[i + extra]>>
    ELSE SubSeq(url, i, IF i \in PathAt(p) THEN i + extra ELSE i)

Matches(p, url) ==
    /\ IF PathAt(p) = {} THEN Len(url) = Len(p) ELSE Len(url) >= Len(p)
    /\ \A i \in DOMAIN p \ Converters(p) : Part(p, url, i) = <<p[i]>>

\* The view a URL reaches, with what its converters captured.
Resolve(routes, url) ==
    LET hits == {i \in DOMAIN routes : Matches(routes[i].pattern, url)}
        hit == routes[Min(hits)] IN
    IF hits = {} THEN NotFound
    ELSE [view |-> hit.view,
          args |-> [i \in Converters(hit.pattern) |-> Part(hit.pattern, url, i)],
          writes |-> hit.writes]

\* The URL of a route for given arguments: django.urls.reverse.
UrlOf(route, args) ==
    FlattenSeq([i \in DOMAIN route.pattern |->
                  IF i \in DOMAIN args THEN args[i] ELSE <<route.pattern[i]>>])

-----------------------------------------------------------------------------
\* Mistake: the bare course comes first.
CourseRoutesSwapped == <<
    Read("course-detail", <<"courses", Path>>),
    Read("course-team", <<"courses", Path, "team">>) >>

CourseRoutes == <<
    Read("course-team", <<"courses", Path, "team">>),
    Read("course-detail", <<"courses", Path>>) >>

LmsRoutes == <<
    Read("health", <<"health">>),
    Read("whoami", <<"whoami">>),
    Read("analytics-overview", <<"analytics", "overview">>),
    Read("courses", <<"courses">>) >> \o CourseRoutes \o <<
    Read("users", <<"users">>),
    Read("user-roles", <<"users", Str, "roles">>),
    Read("user-grade", <<"grades", Str, Path>>),
    Read("audit-log", <<"audit">>),
    Write("enroll", <<"enroll">>),
    Write("unenroll", <<"unenroll">>),
    Write("bulk-enroll", <<"bulk-enroll">>),
    Write("create-user", <<"users", "create">>),
    Write("deactivate-user", <<"users", "deactivate">>),
    Write("set-role", <<"roles", "set">>),
    Write("instructor-access", <<"access", "instructor">>),
    Write("reset-attempts", <<"students", "reset-attempts">>),
    Read("course-certificates", <<"certificates", "course", Path>>),
    Read("user-certificates", <<"certificates", "user", Str>>),
    Read("user-certificate", <<"certificates", "user", Str, Path>>),
    Write("generate-cert", <<"certificates", "generate">>),
    Write("regenerate-cert", <<"certificates", "regenerate">>),
    Write("invalidate-cert", <<"certificates", "invalidate">>),
    Write("submit-report", <<"reports", "submit">>),
    Read("report-tasks", <<"reports", "tasks", Path>>),
    Read("report-downloads", <<"reports", "downloads", Path>>),
    Read("retirement-status", <<"retirement", "status", Str>>),
    Write("retirement-request", <<"retirement", "request">>) >>

CmsRoutes == <<
    Write("course-settings", <<"courses", "settings">>),
    Read("outline", <<"courses", Path, "outline">>),
    Read("course-settings-read", <<"courses", Path, "settings">>),
    Write("create-block", <<"blocks", "create">>),
    Write("create-block-tree", <<"blocks", "create-tree">>),
    Write("update-block", <<"blocks", "update">>),
    Write("publish-block", <<"blocks", "publish">>),
    Write("delete-block", <<"blocks", "delete">>) >>
=============================================================================
