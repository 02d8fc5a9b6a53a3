------------------------------ MODULE MCFacade ------------------------------
(***************************************************************************)
(* Small instance of Facade.  Bodies nest a dict in a dict and in a list;  *)
(* the texts a sensitive key names may be secret, every other one is not.  *)
(***************************************************************************)
EXTENDS Facade

MCKeys == {"name", "Password", "confirm_token"}

MCLower == [k \in MCKeys |-> IF k = "Password" THEN "password" ELSE k]

\* New-style ids are one segment, old-style ids three.
MCCourseIds == {<<"c">>, <<"o", "c", "team">>, <<"o", "team", "settings">>}

Over(ks, values) == UNION {[domain -> values] : domain \in SUBSET ks}

BodyKeys == {"name", "Password"}

\* Values that no text of is out of its place.
Filed(values) == {v \in values : v.type = "dict" => PlainFields(v.fields)}

Texts == {Text(TRUE), Text(FALSE)}

Dicts == {Dict(fields) : fields \in Over(BodyKeys, Texts)}

Items == {Redacted} \cup Filed(Dicts)

Lists == {List(items) : items \in BoundedSeq(Items, MaxSample + 1)}

Secrets == List(<<Text(TRUE)>>)

\* Those of a client, and those they are redacted to.
MCValues == Texts \cup Dicts \cup Lists \cup {Secrets}
            \cup {Digest(v) : v \in Lists \cup {Secrets}}

MCDepth ==
    LET depth[v \in MCValues] == IF Parts(v) = {} THEN 0
                                 ELSE 1 + Max({depth[w] : w \in Parts(v)}) IN
    depth

BodiesOver(ks) ==
    {body \in Over(ks, Texts \cup Filed(Dicts) \cup Lists \cup {Secrets}) :
       PlainFields(body)}

MCBodies == LET bodies == BodiesOver(BodyKeys) IN
            bodies \cup {body @@ ("confirm_token" :> Text(TRUE)) : body \in bodies}

RowSymmetry == Permutations(Rows)
=============================================================================
