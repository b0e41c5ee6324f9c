---- MODULE ConfigWrite ----
(***************************************************************************)
(* toYAMLKeys (pkg/config/write.go): before a configuration is written, by *)
(* the dialogue or for `k3os config --dump`, each key of each map becomes  *)
(* ToYAMLKey of it (rancher/mapper), be it the name of a setting or, of a  *)
(* label, a sysctl or an environment variable.  The map is changed while   *)
(* it is iterated over.  FuzzyNames (rename.go) reads the names again.     *)
(***************************************************************************)
EXTENDS Naturals, SequencesExt

CONSTANTS MaxLength,  \* bounds on the length of a key
          MaxKeys     \* and on the number of keys

\* A letter of each kind is enough.
Letters == {"a", "B", "_"}
Lower(r) == IF r = "B" THEN "b" ELSE r
Keys == UNION {[1 .. n -> Letters] : n \in 1 .. MaxLength}

VARIABLES given,  \* the keys
          data,   \* the map: under each key the value, which is the key that was given
          todo    \* the keys that the iteration has yet to come to

vars == <<given, data, todo>>

\* An underscore comes before each capital but those that the key begins with.
Signs(key, i) ==
    IF key[i] = "B" /\ \E j \in 1 .. i : key[j] # "B" THEN <<"_", "b">> ELSE <<Lower(key[i])>>
ToYAMLKey(key) == FlattenSeq([i \in DOMAIN key |-> Signs(key, i)])

Init ==
    /\ given \in {Range(keys) : keys \in [1 .. MaxKeys -> Keys]}
    /\ data = [k \in given |-> k] /\ todo = given

\* A key that is removed is not come to; one that is added may be, or not.
Without(k) == [other \in DOMAIN data \ {k} |-> data[other]]
Put(map, k, value) == [other \in DOMAIN map \cup {k} |-> IF other = k THEN value ELSE map[other]]

TakenAfterwards(k) == << >>
Taken(k) == data[k]

IsNew(k) == ToYAMLKey(k) # k
Rename(k) ==
    /\ k \in todo /\ IsNew(k)
    /\ data' = Put(Without(k), ToYAMLKey(k), Taken(k))
    /\ \/ todo' = todo \ {k}
       \/ ToYAMLKey(k) \notin DOMAIN data /\ todo' = (todo \ {k}) \cup {ToYAMLKey(k)}
    /\ UNCHANGED given
Keep(k) == k \in todo /\ ~IsNew(k) /\ todo' = todo \ {k} /\ UNCHANGED <<given, data>>
Done == todo = {} /\ UNCHANGED vars

Next == (\E k \in todo : Rename(k) \/ Keep(k)) \/ Done
Spec == Init /\ [][Next]_vars

----------------------------------------------------------------------------
\* Properties.

\* The names that the schema has: they begin with a small letter and have no underscore.
Fields == {k \in Keys : k[1] # "B" /\ \A i \in DOMAIN k : k[i] # "_"}
ReadAs(k, field) == k \in {field, ToYAMLKey(field), [i \in DOMAIN field |-> Lower(field[i])]}

\* Every setting is there when what was written is read again, with its own value, however
\* the iteration went, unless another key has its written name.
FieldsReadBack ==
    todo = {} => \A f \in given \cap Fields :
        \/ \E k \in DOMAIN data : ReadAs(k, f) /\ data[k] = f
        \/ \E k \in given \ {f} : ToYAMLKey(k) = ToYAMLKey(f)

\* What is written has no capitals, and nothing under two keys.
WrittenInLowerCase ==
    todo = {} =>
        /\ \A k \in DOMAIN data : \A i \in DOMAIN k : k[i] # "B"
        /\ \A k, other \in DOMAIN data : data[k] = data[other] => k = other

\* `k3os config --dump`: "Print current configuration"; so a key is still the key that was
\* given.
CurrentConfiguration == todo = {} => \A k \in given : k \in DOMAIN data /\ data[k] = k
====
