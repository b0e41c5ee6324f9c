---- MODULE Cmdline ----
(***************************************************************************)
(* readCmdline (pkg/config/read.go): the words of the kernel command line  *)
(* become the tree of settings that is merged with the other sources.  The *)
(* tree is kept as its leaves: the paths that have values.  GetValue and   *)
(* PutValue are those of rancher/mapper.                                   *)
(*                                                                         *)
(* A word is a key, given as the names and signs it is written with, such  *)
(* as <<"k3os", ".", "token">>, and a value; "true" when there is none.    *)
(***************************************************************************)
EXTENDS Naturals, FiniteSets, SequencesExt

CONSTANTS Words,     \* the words that occur: records of a key and a value
          MaxWords   \* bound on their number

ASSUME CmdlineAssumption ==
    /\ MaxWords \in Nat
    /\ \A w \in Words : w.key \in Seq(STRING) /\ w.value \in STRING

VARIABLES words,   \* the words read so far
          data     \* the leaves, with one or several values each

vars == <<words, data>>

\* strings.Split(parts[0], "."): the names between the dots, brackets included.
Path(key) ==
    FoldLeft(LAMBDA path, sign : IF sign = "." THEN Append(path, << >>)
                                 ELSE Front(path) \o <<Append(Last(path), sign)>>,
             << << >> >>, key)

Paths == {Path(w.key) : w \in Words}

Init == words = << >> /\ data = [p \in {} |-> << >>]

\* GetValue finds a map at a path that goes on.
Inside(short, long) == short # long /\ IsPrefix(short, long)
IsMap(path) == \E p \in DOMAIN data : Inside(path, p)

\* PutValue gives up on the way to a path that continues a value.
BlockedIgnored(path) == FALSE
Blocked(path) == \E p \in DOMAIN data : Inside(p, path)

\* A second value makes a list, a later one extends it.
Replaced(old, value) == <<value>>
Together(old, value) == Append(old, value)

Set(path, values) == data' = [p \in DOMAIN data \cup {path} |->
                                 IF p = path THEN values ELSE data[p]]

Add(path, value) ==
    /\ path \in DOMAIN data
    /\ Set(path, Together(data[path], value))

Put(path, value) ==
    /\ path \notin DOMAIN data /\ ~IsMap(path) /\ ~Blocked(path)
    /\ Set(path, <<value>>)

\* Neither is an error: the word is left out without notice.
Ignore(path) ==
    /\ path \notin DOMAIN data /\ (IsMap(path) \/ Blocked(path))
    /\ UNCHANGED data

Word(w) ==
    /\ Len(words) < MaxWords
    /\ words' = Append(words, w)
    /\ \/ Add(Path(w.key), w.value)
       \/ Put(Path(w.key), w.value)
       \/ Ignore(Path(w.key))

Done == Len(words) = MaxWords /\ UNCHANGED vars

Next == (\E w \in Words : Word(w)) \/ Done
Spec == Init /\ [][Next]_vars

----------------------------------------------------------------------------
\* Properties.

TypeOK ==
    /\ words \in Seq(Words) /\ Len(words) <= MaxWords
    /\ DOMAIN data \subseteq Paths
    /\ \A p \in DOMAIN data : data[p] \in Seq({w.value : w \in Words}) \ {<< >>}

\* No setting is a value and a map at once: the leaves are those of a tree, which the
\* steps that follow (renaming, merging, decoding) take for granted.  Only a word that
\* comes after one whose path begins with its own, or the other way around, is left out:
\* the first of the two decides.
Tree == \A p, q \in DOMAIN data : ~Inside(p, q)
FirstDecides ==
    \A i \in DOMAIN words :
        \/ Path(words[i].key) \in DOMAIN data
        \/ \E j \in 1 .. i - 1 :
              LET p == Path(words[i].key)
                  q == Path(words[j].key) IN
              q \in DOMAIN data /\ (Inside(p, q) \/ Inside(q, p))
WordsAreKept == Tree /\ FirstDecides

\* What is repeated is complete and in the order in which it was written: the n-th word
\* about a setting has given it its n-th value, and no value is dropped because of words
\* about other settings between them.
About(p, n) == {i \in 1 .. n : Path(words[i].key) = p}
ValuesAreKept ==
    \A p \in DOMAIN data :
        /\ Len(data[p]) = Cardinality(About(p, Len(words)))
        /\ \A i \in About(p, Len(words)) : data[p][Cardinality(About(p, i))] = words[i].value

\* README: "For map values the form `key[key]=value` form is used": the entry is then
\* found under the path of the map.
OpensMap(key, n) == key[n] = "[" /\ key[Len(key)] = "]"
MapForm ==
    \A w \in ToSet(words) : \A n \in DOMAIN w.key :
        OpensMap(w.key, n) => \E p \in DOMAIN data : Inside(Path(SubSeq(w.key, 1, n - 1)), p)
====
