------------------------------ MODULE KeyValues ------------------------------
(***************************************************************************)
(* What an INI object promises of its data, whatever its strings, comments *)
(* and load orders do: a set of sections, and for a key of a section the   *)
(* values it has, in the order they were added.  A call changes the values *)
(* of one key, or takes one section away, or everything.                   *)
(***************************************************************************)
EXTENDS Naturals, Sequences, FiniteSets

VARIABLES
    names,      \* the sections
    values,     \* <<section, key>> -> its values, at least one
    multiKey    \* whether a key may get further values

vars == <<names, values, multiKey>>

Old(p) == IF p \in DOMAIN values THEN values[p] ELSE << >>

Without(places) == [q \in DOMAIN values \ places |-> values[q]]

Init ==
    /\ names = {}
    /\ values = << >>
    /\ multiKey \in BOOLEAN

AddSection(s) ==
    /\ names' = names \cup {s}
    /\ UNCHANGED <<values, multiKey>>

Assign(p, seq) ==
    /\ names' = names \cup {p[1]}
    /\ values' = [q \in DOMAIN values \cup {p} |-> IF q = p THEN seq ELSE values[q]]
    /\ UNCHANGED multiKey

\* A further value, when a key may have several.
Put(p, v) == multiKey /\ Assign(p, Append(Old(p), v))

\* The value of a key that has one; of several the first is changed.
Replace(p, v) ==
    /\ ~ multiKey
    /\ Assign(p, IF Old(p) = << >> THEN <<v>> ELSE [Old(p) EXCEPT ![1] = v])

ReplaceAll(p, v) == multiKey /\ Old(p) # << >> /\ Assign(p, <<v>>)

\* All values of a key, or those that equal v.
Remove(p) ==
    /\ values' = Without({p})
    /\ UNCHANGED <<names, multiKey>>

\* What is left of several values stays in its order.
RemoveValue(p, v) ==
    LET left == {i \in DOMAIN values[p] : values[p][i] # v}
    IN  /\ \/ left = {} /\ values' = Without({p})
           \/ /\ left # {}
              /\ \E f \in [1..Cardinality(left) -> left] :
                    /\ \A i, j \in DOMAIN f : i < j => f[i] < f[j]
                    /\ values' = [values EXCEPT ![p] = [i \in DOMAIN f |-> values[p][f[i]]]]
        /\ UNCHANGED <<names, multiKey>>

RemoveSection(s) ==
    /\ names' = names \ {s}
    /\ values' = Without({p \in DOMAIN values : p[1] = s})
    /\ UNCHANGED multiKey

Clear ==
    /\ names' = {}
    /\ values' = << >>
    /\ UNCHANGED multiKey

SetMultiKey ==
    /\ multiKey' \in BOOLEAN
    /\ UNCHANGED <<names, values>>

Next ==
    \/ \E s \in names' : AddSection(s)
    \/ \E p \in DOMAIN values' : \E i \in DOMAIN values'[p] :
            \/ Put(p, values'[p][i])
            \/ Replace(p, values'[p][i])
            \/ ReplaceAll(p, values'[p][i])
    \/ \E p \in DOMAIN values :
            \/ Remove(p)
            \/ \E i \in DOMAIN values[p] : RemoveValue(p, values[p][i])
    \/ \E s \in names : RemoveSection(s)
    \/ Clear
    \/ SetMultiKey

Spec == Init /\ [][Next]_vars
=============================================================================
