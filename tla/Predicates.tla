------------------------------ MODULE Predicates ------------------------------
(***************************************************************************)
(* Trigger predicates (graph/predicates.py): does one change of an entity  *)
(* start a workflow?                                                       *)
(*                                                                         *)
(* Attributes are numbers or None; a value of a type that cannot be        *)
(* compared, and `contains', which needs one, are left out: both count as  *)
(* no match.  A clause that is absent is not in the domain of the record.  *)
(***************************************************************************)
EXTENDS Naturals

CONSTANT None           \* JSON null, and what .get answers for a missing key

Get(attrs, a) == IF a \in DOMAIN attrs THEN attrs[a] ELSE None

\* A literal is an expectation with the operator "eq".
Compare(actual, expected) ==
    LET op == expected.op
        v  == expected.value
    IN  \/ op = "eq" /\ actual = v
        \/ op = "ne" /\ actual # v
        \/ op = "in" /\ actual \in v
        \/ op = "not_in" /\ actual \notin v
        \/ op = "exists" /\ (actual # None) = v
        \/ /\ actual # None
           /\ \/ op = "gt" /\ actual > v
              \/ op = "gte" /\ actual >= v
              \/ op = "lt" /\ actual < v
              \/ op = "lte" /\ actual <= v

AllMatch(block, attrs) == \A a \in DOMAIN block : Compare(Get(attrs, a), block[a])

Matches(predicate, change) ==
    /\ "changed" \in DOMAIN predicate => predicate.changed \cap change.keys # {}
    /\ "match" \in DOMAIN predicate => AllMatch(predicate.match, change.after)
    /\ "was" \in DOMAIN predicate => AllMatch(predicate.was, change.before)
==============================================================================
