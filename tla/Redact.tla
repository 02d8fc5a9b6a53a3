------------------------------- MODULE Redact -------------------------------
(***************************************************************************)
(* _rails.py redact and its call in guards.py: what of a request's body is *)
(* kept in the audit log.                                                  *)
(*                                                                         *)
(* A body is a function from keys to values; a value is a text, a list or  *)
(* the fields of a dict.  A text is either plain or secret.                *)
(***************************************************************************)
EXTENDS Integers, SequencesExt

CONSTANTS MaxSample,   \* _MAX_LIST_SAMPLE
          Lower,       \* Lower[k]: the key in lower case
          Values,      \* JSON values, of bodies and of the audit log
          Depth        \* how deep a value is nested

Sensitive == {"confirm_token", "password", "key", "secret", "token"}

Text(secret) == [type |-> "text", secret |-> secret]
List(items)  == [type |-> "list", items |-> items]
Dict(fields) == [type |-> "dict", fields |-> fields]

Redacted == Text(FALSE)

\* A list becomes its length and its first items written out, dicts included.
Digest(v) == [type |-> "digest", count |-> Len(v.items),
              sample |-> SubSeq(v.items, 1, Min({MaxSample, Len(v.items)})),
              truncated |-> Len(v.items) > MaxSample]

\* Mistake: the values are shortened, what is inside a dict is not looked at.
RedactTop(body) ==
    [k \in DOMAIN body |-> IF Lower[k] \in Sensitive THEN Redacted
                           ELSE IF body[k].type = "list" THEN Digest(body[k])
                           ELSE body[k]]

\* One level of fields, by what becomes of the values in them.
RedactFields(fields, redact) ==
    [k \in DOMAIN fields |-> IF Lower[k] \in Sensitive THEN Redacted
                             ELSE redact[fields[k]]]

RedactLevel(v, redact) ==
    CASE v.type = "list" -> Digest(v)
      [] v.type = "dict" -> Dict(RedactFields(v.fields, redact))
      [] OTHER -> v

RedactValue[v \in Values] == RedactLevel(v, RedactValue)

RedactBody(body) == RedactFields(body, RedactValue)

\* The wrapper takes the token out first: it is not part of the plan.
Plan(body) == [k \in DOMAIN body \ {"confirm_token"} |-> body[k]]

Summary(body) == RedactBody(Plan(body))

-----------------------------------------------------------------------------
Parts(v) == CASE v.type = "list"   -> ToSet(v.items)
              [] v.type = "digest" -> ToSet(v.sample)
              [] v.type = "dict"   -> {v.fields[k] : k \in DOMAIN v.fields}
              [] OTHER             -> {}

InsideLevel(v, inside) == {v} \cup UNION {inside[w] : w \in Parts(v)}

\* The value, its parts, their parts, and so on.
Inside[v \in Values] == InsideLevel(v, Inside)

\* Whether a secret can be read in a value.
Exposes(v) == Text(TRUE) \in Inside[v]

\* Whether a list of the value holds a dict, or another list.
DictInList(v) ==
    \E list \in Inside[v] :
       list.type = "list" /\ \E item \in Parts(list) : item.type # "text"

\* A secret is what a sensitive key names, or an item of a list it names.
PlainFields(fields) ==
    \A k \in DOMAIN fields :
       Lower[k] \notin Sensitive =>
           /\ fields[k] # Text(TRUE)
           /\ fields[k].type = "list" => Text(TRUE) \notin Parts(fields[k])

FromClient(v) ==
    \A w \in Inside[v] : /\ w.type # "digest"
                         /\ w.type = "dict" => PlainFields(w.fields)

IsBody(body) ==
    /\ PlainFields(body)
    /\ \A k \in DOMAIN body : body[k] \in Values /\ FromClient(body[k])

IsValue(v) ==
    CASE v.type = "text"   -> v \in {Text(TRUE), Text(FALSE)}
      [] v.type = "list"   -> v.items \in Seq(Values)
      [] v.type = "digest" -> v.sample \in Seq(Values)
      [] v.type = "dict"   -> \A k \in DOMAIN v.fields : v.fields[k] \in Values
      [] OTHER             -> FALSE

\* Values are nested finitely deep, and redacting one makes another.
ASSUME ValuesAssumption ==
    /\ MaxSample \in Nat
    /\ Redacted \in Values
    /\ Depth \in [Values -> Nat]
    /\ \A v \in Values : /\ IsValue(v)
                         /\ \A w \in Parts(v) : Depth[w] < Depth[v]
                         /\ RedactValue[v] \in Values
=============================================================================
