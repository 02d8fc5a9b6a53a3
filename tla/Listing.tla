------------------------------ MODULE Listing ------------------------------
(***************************************************************************)
(* A client pages through one of the listings while their tables change.   *)
(*                                                                         *)
(*   views.py         AuditLogView: newest first; staff see their own rows *)
(*   users.py         list_users: by id, perhaps filtered by is_staff      *)
(*   analytics.py     list_courses: by course id                           *)
(*   certificates.py  list_course_certificates: newest first               *)
(*                                                                         *)
(* A request counts the rows and then cuts the page out of them, in two    *)
(* queries.  The client asks for the page that begins where the last one   *)
(* ended.  Rows come into view in any order, whatever their place is: an   *)
(* audit row gets its time when it is inserted and is seen when its        *)
(* transaction commits.                                                    *)
(***************************************************************************)
EXTENDS Integers, SequencesExt

CONSTANTS Rows,
          Limits,     \* limits a client asks for
          PageCap,    \* the most rows a page of the audit log has: 200
          MaxMoves,   \* bound: rows that come into view, or leave, in a walk
          None

ASSUME ListingAssumption ==
    /\ IsFiniteSet(Rows)
    /\ Limits \subseteq Nat \ {0}
    /\ PageCap \in Nat \ {0}
    /\ MaxMoves \in Nat
    /\ None \notin STRING

VARIABLES listing,    \* the listing that is walked, or None
          rank,       \* rank[r]: what the listing is ordered by
          table,      \* the rows that exist and match the filters
          own,        \* audit log: the rows of the client's account
          superuser,  \* the client's flag
          walk,       \* the client: its last answer and its next request
          returned,   \* the rows it got
          steady,     \* history: the rows listed ever since the walk began
          came, slipped, left, again
                      \* history: rows that came; those that came between a
                      \* count and its page; that left; that were got again

walkVars == <<listing, rank, table, own, superuser, walk, returned,
              steady, came, slipped, left, again>>

Listings == {"audit-log", "users", "courses", "course-certificates"}

\* What a listing selects, how it orders it, whether the order leaves no ties,
\* and the rows on a page.
AuditLogQuery == [rows |-> IF superuser THEN table ELSE table \cap own,
                  newestFirst |-> TRUE, tieFree |-> FALSE,
                  limit |-> Min({walk.limit, PageCap})]

UsersQuery == [rows |-> table, newestFirst |-> FALSE, tieFree |-> TRUE,
               limit |-> walk.limit]

CoursesQuery == [rows |-> table, newestFirst |-> FALSE, tieFree |-> TRUE,
                 limit |-> walk.limit]

CertificatesQuery == [rows |-> table, newestFirst |-> TRUE, tieFree |-> FALSE,
                      limit |-> walk.limit]

Query == CASE listing = "audit-log"           -> AuditLogQuery
           [] listing = "users"               -> UsersQuery
           [] listing = "courses"             -> CoursesQuery
           [] listing = "course-certificates" -> CertificatesQuery

Listed == Query.rows

Capped == Query.limit

\* Mistake: the answer repeats the limit that was asked for.
EchoAsked == walk.limit

\* The limit as the answer gives it, by which the client goes on.
Echo == Capped

Precedes(r, s) == IF Query.newestFirst THEN rank[r] > rank[s] ELSE rank[r] < rank[s]

\* The orders the database may give the rows: ties are in any order.
Orders == {seq \in SetToSeqs(Listed) :
             \A i, j \in DOMAIN seq : Precedes(seq[i], seq[j]) => i < j}

\* Mistake: one row too many.
SliceInclusive(seq, from, n) == SubSeq(seq, from + 1, Min({from + n + 1, Len(seq)}))

Slice(seq, from, n) == SubSeq(seq, from + 1, Min({from + n, Len(seq)}))

Alone(r) == \A s \in Rows \ {r} : rank[s] # rank[r]

WalkInit ==
    /\ listing = None
    /\ rank = [r \in Rows |-> 1]
    /\ table = {} /\ own = {} /\ superuser = FALSE
    /\ walk = [pc |-> "closed", offset |-> 0, limit |-> 0, total |-> 0]
    /\ returned = {} /\ steady = {}
    /\ came = 0 /\ slipped = 0 /\ left = 0 /\ again = 0

-----------------------------------------------------------------------------
\* The first request of a walk, on any table there can be.
Open(l) ==
    /\ walk.pc = "closed"
    /\ listing' = l
    /\ rank' \in [Rows -> 1..Cardinality(Rows)]
    /\ table' \in SUBSET Rows
    /\ own' \in SUBSET Rows
    /\ superuser' \in BOOLEAN
    /\ superuser' \/ l # "audit-log" => own' = {}   \* asked for by staff only
    /\ \E n \in Limits : walk' = [walk EXCEPT !.pc = "asked", !.limit = n]
    /\ Query'.tieFree => IsInjective(rank')
    /\ steady' = Listed'
    /\ UNCHANGED <<returned, came, slipped, left, again>>

\* Mistake: the total is where the page ends.
CountToPage ==
    /\ walk.pc = "asked"
    /\ walk' = [walk EXCEPT !.pc = "counted", !.total = walk.offset + walk.limit]
    /\ UNCHANGED <<listing, rank, table, own, superuser, returned,
                   steady, came, slipped, left, again>>

\* qs.count()
Count ==
    /\ walk.pc = "asked"
    /\ walk' = [walk EXCEPT !.pc = "counted", !.total = Cardinality(Listed)]
    /\ UNCHANGED <<listing, rank, table, own, superuser, returned,
                   steady, came, slipped, left, again>>

Stop(page, next) == next >= walk.total \/ Cardinality(page) < Echo

\* The client stops at the end of the total or at a page that is not full.
Fetch ==
    /\ walk.pc = "counted"
    /\ \E seq \in Orders :
         LET page == ToSet(Slice(seq, walk.offset, Capped))
             next == walk.offset + Echo IN
         /\ returned' = returned \cup page
         /\ again' = again + Cardinality({r \in page \cap returned : Alone(r)})
         /\ walk' = IF Stop(page, next) THEN [walk EXCEPT !.pc = "done"]
                    ELSE [walk EXCEPT !.pc = "asked", !.offset = next]
    /\ UNCHANGED <<listing, rank, table, own, superuser, steady, came, slipped, left>>

Walking == walk.pc \in {"asked", "counted"}

\* A transaction commits an audit row, someone signs up, becomes staff, gets
\* a certificate, a course is made.
Come(r) ==
    /\ Walking /\ came < MaxMoves
    /\ r \notin table
    /\ table' = table \cup {r}
    /\ UNCHANGED <<listing, rank, own, superuser, walk, returned, steady, left, again>>
    /\ came' = came + Cardinality(Listed' \ Listed)
    /\ slipped' = IF walk.pc = "counted" THEN slipped + Cardinality(Listed' \ Listed)
                                         ELSE slipped

\* An audit row is deleted in the admin, somebody is no longer staff, a
\* certificate is invalidated, a course deleted.
Leave(r) ==
    /\ Walking /\ left < MaxMoves
    /\ r \in table
    /\ table' = table \ {r}
    /\ UNCHANGED <<listing, rank, own, superuser, walk, returned, came, slipped, again>>
    /\ left' = left + Cardinality(Listed \ Listed')
    /\ steady' = steady \ {r}

WalkNext == Count \/ Fetch \/ \E r \in Rows : Come(r) \/ Leave(r)

-----------------------------------------------------------------------------
WalkTypeOK ==
    /\ listing \in Listings \cup {None}
    /\ table \cup own \cup returned \cup steady \subseteq Rows
    /\ superuser \in BOOLEAN
    /\ walk \in [pc : {"closed", "asked", "counted", "done"}, offset : Nat,
                 limit : Nat, total : 0..Cardinality(Rows)]
    /\ {came, slipped, left, again} \subseteq Nat
    /\ slipped <= came

(***************************************************************************)
(* A finished walk has missed no more of the rows that were listed all the *)
(* time than rows left the listing meanwhile, or came between a count and  *)
(* its page; in particular rows that come cost it nothing else.  Of rows   *)
(* with the same time nothing is promised: no listing breaks ties.         *)
(***************************************************************************)
WalkMissesNoMore ==
    walk.pc = "done" =>
        Cardinality({r \in steady \ returned : Alone(r)}) <= left + slipped

(***************************************************************************)
(* A row is got a second time only because another came into view.         *)
(***************************************************************************)
RepeatsForArrivals == again <= came
=============================================================================
