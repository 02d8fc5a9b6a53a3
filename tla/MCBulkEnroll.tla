---------------------------- MODULE MCBulkEnroll ----------------------------
(***************************************************************************)
(* Small instances of BulkEnroll: two entries in the form accounts have,   *)
(* one that the platform stores under a name of its own until it is        *)
(* stripped and lower-cased (" Ann@example.org" for ann@example.org), and  *)
(* one without an email.                                                   *)
(***************************************************************************)
EXTENDS BulkEnroll

CONSTANTS ann, bob, odd, missing,   \* entries
          annMail, bobMail, oddMail \* what the platform keeps

MCSent == [v \in Values |-> CASE v = ann -> annMail [] v = bob -> bobMail
                              [] v = odd -> oddMail [] OTHER -> None]
MCClean == [v \in Values |-> CASE v \in {ann, odd} -> annMail [] v = bob -> bobMail
                               [] OTHER -> None]

\* Bound: when two batches are at work, they have three rows between them,
\* all of the plain entries.
SmallTogether ==
    \A c, d \in Calls : c # d /\ call[c] # None /\ call[d] # None =>
        /\ Len(call[c].values) + Len(call[d].values) <= 3
        /\ \A i \in DOMAIN call[c].values : call[c].values[i] \in {ann, bob}

BulkSymmetry == Permutations(Calls)
=============================================================================
