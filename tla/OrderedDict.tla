---------------------------- MODULE OrderedDict ----------------------------
(***************************************************************************)
(* Insertion-ordered dictionaries (collections.OrderedDict and dict) as    *)
(* records: val maps every possible key to its value or to Absent, ord     *)
(* lists the present keys, oldest first.                                   *)
(***************************************************************************)
EXTENDS Integers, Sequences, SequencesExt, FiniteSets

CONSTANT Absent   \* the value of a key that is not in the dictionary

OdEmpty(K) == [val |-> [k \in K |-> Absent], ord |-> << >>]

OdHas(d, k) == d.val[k] # Absent

OdKeys(d) == {k \in DOMAIN d.val : OdHas(d, k)}

\* d[k] = v: a new key goes to the end, an existing one keeps its place.
OdPut(d, k, v) ==
    [val |-> [d.val EXCEPT ![k] = v],
     ord |-> IF OdHas(d, k) THEN d.ord ELSE Append(d.ord, k)]

\* d.pop(k, None)
OdPop(d, k) ==
    [val |-> [d.val EXCEPT ![k] = Absent],
     ord |-> IF OdHas(d, k)
             THEN RemoveAt(d.ord, CHOOSE i \in DOMAIN d.ord : d.ord[i] = k)
             ELSE d.ord]

\* Drop every key of S.
OdDrop(d, S) ==
    [val |-> [k \in DOMAIN d.val |-> IF k \in S THEN Absent ELSE d.val[k]],
     ord |-> SelectSeq(d.ord, LAMBDA k : k \notin S)]

\* k is the first key in order that satisfies Test.
OdIsFirst(d, k, Test(_)) ==
    \E i \in 1..Len(d.ord) :
        /\ d.ord[i] = k
        /\ Test(k)
        /\ \A j \in 1..(i - 1) : ~Test(d.ord[j])

\* The keys up to and including the first one that satisfies Test (all of
\* them when none does): what a loop that stops at the first hit visits.
OdVisited(d, Test(_)) ==
    {d.ord[i] : i \in {n \in 1..Len(d.ord) :
                          \A j \in 1..(n - 1) : ~Test(d.ord[j])}}

\* The order list is exactly an enumeration of the present keys.
OdWellFormed(d) ==
    /\ ToSet(d.ord) = OdKeys(d)
    /\ Len(d.ord) = Cardinality(OdKeys(d))
=============================================================================
