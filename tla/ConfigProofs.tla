---- MODULE ConfigProofs ----
(***************************************************************************)
(* What TLAPS proves of the configuration.  For any words on the kernel    *)
(* command line and any number of them: the settings are a tree, only a    *)
(* word that contradicts an earlier one is left out, and every other gives *)
(* its setting one more value.  For any values: the last source that names *)
(* a field decides it.  For keys of any length: what is written is read    *)
(* back.                                                                   *)
(***************************************************************************)
EXTENDS Config, Integers, FiniteSetTheorems, SequenceTheorems, NaturalsInduction,
        WellFoundedInduction, TLAPS

----------------------------------------------------------------------------
\* The kernel command line.

\* Every setting comes from a word.
FromWords == \A p \in DOMAIN data : \E j \in DOMAIN words : Path(words[j].key) = p

KeptInv == words \in Seq(Words) /\ FromWords /\ WordsAreKept

\* What the three ways of taking a word have in common: it is appended.
LEMMA Appended ==
    ASSUME words \in Seq(Words), NEW w \in Words, words' = Append(words, w)
    PROVE  /\ words' \in Seq(Words)
           /\ DOMAIN words' = DOMAIN words \cup {Len(words) + 1}
           /\ DOMAIN words = 1 .. Len(words) /\ Len(words) \in Nat
           /\ \A i \in DOMAIN words : words'[i] = words[i]
           /\ words'[Len(words) + 1] = w
  <1>1. /\ words' \in Seq(Words) /\ Len(words') = Len(words) + 1
        /\ \A i \in 1 .. Len(words) : words'[i] = words[i]
        /\ words'[Len(words) + 1] = w
    BY AppendProperties
  <1>2. DOMAIN words = 1 .. Len(words) /\ Len(words) \in Nat
    OBVIOUS
  <1>3. DOMAIN words' = 1 .. Len(words) + 1
    BY <1>1
  <1>4. DOMAIN words' = DOMAIN words \cup {Len(words) + 1}
    BY <1>2, <1>3
  <1>. QED
    BY <1>1, <1>2, <1>4

\* A word that is taken or left out leaves the earlier ones decided.
LEMMA StillDecided ==
    ASSUME KeptInv, NEW w \in Words, words' = Append(words, w),
           DOMAIN data \subseteq DOMAIN data'
    PROVE  \A i \in DOMAIN words :
               \/ Path(words'[i].key) \in DOMAIN data'
               \/ \E j \in 1 .. i - 1 :
                     LET p == Path(words'[i].key)
                         q == Path(words'[j].key) IN
                     q \in DOMAIN data' /\ (Inside(p, q) \/ Inside(q, p))
  <1>1. /\ DOMAIN words = 1 .. Len(words) /\ Len(words) \in Nat
        /\ \A i \in DOMAIN words : words'[i] = words[i]
    BY Appended DEF KeptInv
  <1>2. TAKE i \in DOMAIN words
  <1>3. CASE Path(words[i].key) \in DOMAIN data
    BY <1>1, <1>3
  <1>4. ASSUME NEW j \in 1 .. i - 1,
               Path(words[j].key) \in DOMAIN data,
               \/ Inside(Path(words[i].key), Path(words[j].key))
               \/ Inside(Path(words[j].key), Path(words[i].key))
        PROVE  \E k \in 1 .. i - 1 :
                   LET p == Path(words'[i].key)
                       q == Path(words'[k].key) IN
                   q \in DOMAIN data' /\ (Inside(p, q) \/ Inside(q, p))
    <2>1. j \in DOMAIN words
      BY <1>1
    <2>. QED
      BY <1>1, <1>4, <2>1
  <1>. QED
    BY <1>3, <1>4 DEF KeptInv, WordsAreKept, FirstDecides

LEMMA AddInv ==
    ASSUME KeptInv, NEW w \in Words, words' = Append(words, w), Add(Path(w.key), w.value)
    PROVE  KeptInv'
  <1>1. DOMAIN data' = DOMAIN data
    BY DEF Add, Set
  <1>2. /\ words' \in Seq(Words) /\ DOMAIN words' = DOMAIN words \cup {Len(words) + 1}
        /\ \A i \in DOMAIN words : words'[i] = words[i]
        /\ words'[Len(words) + 1] = w
    BY Appended DEF KeptInv
  <1>3. FromWords'
    BY <1>1, <1>2 DEF KeptInv, FromWords
  <1>4. Tree'
    BY <1>1 DEF KeptInv, WordsAreKept, Tree
  <1>5. Path(words'[Len(words) + 1].key) \in DOMAIN data'
    BY <1>1, <1>2 DEF Add
  <1>6. FirstDecides'
    BY <1>1, <1>2, <1>5, StillDecided DEF FirstDecides
  <1>. QED
    BY <1>2, <1>3, <1>4, <1>6 DEF KeptInv, WordsAreKept

\* The new setting neither continues one nor is continued by one.
LEMMA PutInv ==
    ASSUME KeptInv, NEW w \in Words, words' = Append(words, w), Put(Path(w.key), w.value)
    PROVE  KeptInv'
  <1>1. DOMAIN data' = DOMAIN data \cup {Path(w.key)}
    BY DEF Put, Set
  <1>2. /\ words' \in Seq(Words) /\ DOMAIN words' = DOMAIN words \cup {Len(words) + 1}
        /\ \A i \in DOMAIN words : words'[i] = words[i]
        /\ words'[Len(words) + 1] = w
    BY Appended DEF KeptInv
  <1>3. FromWords'
    BY <1>1, <1>2 DEF KeptInv, FromWords
  <1>4. \A p \in DOMAIN data : ~Inside(Path(w.key), p) /\ ~Inside(p, Path(w.key))
    BY DEF Put, IsMap, Blocked
  <1>5. ~Inside(Path(w.key), Path(w.key))
    BY DEF Inside
  <1>6. Tree'
    BY <1>1, <1>4, <1>5 DEF KeptInv, WordsAreKept, Tree
  <1>7. Path(words'[Len(words) + 1].key) \in DOMAIN data'
    BY <1>1, <1>2
  <1>8. FirstDecides'
    BY <1>1, <1>2, <1>7, StillDecided DEF FirstDecides
  <1>. QED
    BY <1>2, <1>3, <1>6, <1>8 DEF KeptInv, WordsAreKept

\* The setting that is in the way of a word comes from an earlier one.
LEMMA IgnoreInv ==
    ASSUME KeptInv, NEW w \in Words, words' = Append(words, w), Ignore(Path(w.key))
    PROVE  KeptInv'
  <1>1. data' = data
    BY DEF Ignore
  <1>2. /\ words' \in Seq(Words) /\ DOMAIN words' = DOMAIN words \cup {Len(words) + 1}
        /\ DOMAIN words = 1 .. Len(words) /\ Len(words) \in Nat
        /\ \A i \in DOMAIN words : words'[i] = words[i]
        /\ words'[Len(words) + 1] = w
    BY Appended DEF KeptInv
  <1>3. FromWords'
    BY <1>1, <1>2 DEF KeptInv, FromWords
  <1>4. Tree'
    BY <1>1 DEF KeptInv, WordsAreKept, Tree
  <1>5. PICK q \in DOMAIN data : Inside(Path(w.key), q) \/ Inside(q, Path(w.key))
    BY DEF Ignore, IsMap, Blocked
  <1>6. PICK j \in DOMAIN words : Path(words[j].key) = q
    BY DEF KeptInv, FromWords
  <1>7. j \in 1 .. (Len(words) + 1) - 1 /\ Path(words'[j].key) = q
    BY <1>2, <1>6
  <1>8. \E k \in 1 .. (Len(words) + 1) - 1 :
           LET p == Path(words'[Len(words) + 1].key)
               r == Path(words'[k].key) IN
           r \in DOMAIN data' /\ (Inside(p, r) \/ Inside(r, p))
    BY <1>1, <1>2, <1>5, <1>7
  <1>9. FirstDecides'
    BY <1>1, <1>2, <1>8, StillDecided DEF FirstDecides
  <1>. QED
    BY <1>2, <1>3, <1>4, <1>9 DEF KeptInv, WordsAreKept

\* The other parts leave the words and the settings alone.
LEMMA CmdlineStep ==
    ASSUME [ConfigNext]_<<part, vars, readVars, writeVars>>
    PROVE  [Next]_vars
  BY DEF ConfigNext

\* The inductive invariant: beside the property, that every setting comes from a word, which
\* is what readCmdline's silence about a word it drops rests on.
THEOREM KeptInvariant == ConfigSpec => []KeptInv
  <1>1. ConfigInit => KeptInv
    <2>1. ConfigInit => words = << >> /\ DOMAIN data = {}
      BY DEF ConfigInit, CmdlineUnused, Init
    <2>. QED
      BY <2>1 DEF KeptInv, FromWords, WordsAreKept, Tree, FirstDecides
  <1>2. ASSUME KeptInv, [Next]_vars PROVE KeptInv'
    <2>1. ASSUME NEW w \in Words, Word(w) PROVE KeptInv'
      BY <1>2, <2>1, AddInv, PutInv, IgnoreInv DEF Word
    <2>2. CASE UNCHANGED vars
      BY <1>2, <2>2 DEF vars, KeptInv, FromWords, WordsAreKept, Tree, FirstDecides
    <2>. QED
      BY <1>2, <2>1, <2>2 DEF Next, Done
  <1>. QED
    BY <1>1, <1>2, CmdlineStep, PTL DEF ConfigSpec

\* For any words: no setting is a value and a map at once, and a word that left no trace
\* contradicts an earlier one that did (PutValue, which returns without an error).
THEOREM WordsAlwaysKept == ConfigSpec => []WordsAreKept
  <1>1. KeptInv => WordsAreKept
    BY DEF KeptInv
  <1>. QED
    BY <1>1, KeptInvariant, PTL

\* Who writes about a setting: nothing but the next word can change it.
LEMMA AboutNext ==
    ASSUME words \in Seq(Words), NEW w \in Words, words' = Append(words, w), NEW p,
           NEW n, n = Len(words)
    PROVE  /\ n \in Nat /\ Len(words') = n + 1 /\ words'[n + 1] = w
           /\ \A i \in 1 .. n : About(p, i)' = About(p, i) /\ words'[i] = words[i]
           /\ Path(w.key) # p => About(p, n + 1)' = About(p, n)
           /\ Path(w.key) = p => About(p, n + 1)' = About(p, n) \cup {n + 1}
  <1>1. /\ DOMAIN words = 1 .. n /\ n \in Nat /\ Len(words') = n + 1
        /\ \A i \in 1 .. n : words'[i] = words[i]
        /\ words'[n + 1] = w
    BY Appended, AppendProperties
  <1>2. ASSUME NEW i \in 1 .. n PROVE About(p, i)' = About(p, i)
    BY <1>1 DEF About
  <1>3. 1 .. n + 1 = (1 .. n) \cup {n + 1} /\ n + 1 \notin 1 .. n
    BY <1>1
  <1>4. About(p, n + 1)' = {i \in (1 .. n) \cup {n + 1} : Path(words'[i].key) = p}
    BY <1>3 DEF About
  <1>5. CASE Path(w.key) = p
    BY <1>1, <1>2, <1>3, <1>4, <1>5 DEF About
  <1>6. CASE Path(w.key) # p
    BY <1>1, <1>2, <1>3, <1>4, <1>6 DEF About
  <1>. QED
    BY <1>1, <1>2, <1>5, <1>6

LEMMA AboutCount ==
    ASSUME NEW n \in Nat, NEW p
    PROVE  /\ IsFiniteSet(About(p, n)) /\ Cardinality(About(p, n)) \in Nat
           /\ \A i \in About(p, n) :
                 Cardinality(About(p, i)) \in 1 .. Cardinality(About(p, n))
  <1>1. \A k \in Nat : IsFiniteSet(About(p, k)) /\ Cardinality(About(p, k)) \in Nat
    <2>1. TAKE k \in Nat
    <2>2. IsFiniteSet(1 .. k) /\ About(p, k) \in SUBSET (1 .. k)
      BY FS_Interval DEF About
    <2>. QED
      BY <2>2, FS_Subset, FS_CardinalityType
  <1>2. ASSUME NEW i \in About(p, n)
        PROVE  Cardinality(About(p, i)) \in 1 .. Cardinality(About(p, n))
    <2>1. i \in Nat /\ About(p, i) \subseteq About(p, n) /\ i \in About(p, i)
      BY DEF About
    <2>2. Cardinality(About(p, i)) <= Cardinality(About(p, n))
      BY <1>1, <2>1, FS_Subset
    <2>3. Cardinality(About(p, i)) # 0
      BY <1>1, <2>1, FS_EmptySet
    <2>. QED
      BY <1>1, <2>1, <2>2, <2>3
  <1>. QED
    BY <1>1, <1>2

\* Beside the property, that the values of a setting are a list.
ValuesInv ==
    /\ \A p \in DOMAIN data : data[p] \in Seq(STRING)
    /\ ValuesAreKept

\* What holds of the settings that a word is not about.
LEMMA OthersKept ==
    ASSUME KeptInv, ValuesInv, NEW w \in Words, words' = Append(words, w),
           NEW p \in DOMAIN data, p # Path(w.key), p \in DOMAIN data', data'[p] = data[p]
    PROVE  /\ data'[p] \in Seq(STRING)
           /\ Len(data'[p]) = Cardinality(About(p, Len(words))')
           /\ \A i \in About(p, Len(words))' :
                 data'[p][Cardinality(About(p, i)')] = words'[i].value
  <1>1. PICK n : n = Len(words)
    OBVIOUS
  <1>2. /\ n \in Nat /\ Len(words') = n + 1
        /\ \A i \in 1 .. n : About(p, i)' = About(p, i) /\ words'[i] = words[i]
        /\ About(p, n + 1)' = About(p, n)
    BY <1>1, AboutNext DEF KeptInv
  <1>3. About(p, Len(words))' = About(p, n)
    BY <1>2
  <1>4. /\ Len(data[p]) = Cardinality(About(p, n))
        /\ \A i \in About(p, n) : data[p][Cardinality(About(p, i))] = words[i].value
    BY <1>1 DEF ValuesInv, ValuesAreKept
  <1>5. \A i \in About(p, n) : i \in 1 .. n
    BY DEF About
  <1>. QED
    BY <1>2, <1>3, <1>4, <1>5 DEF ValuesInv

LEMMA AddValues ==
    ASSUME KeptInv, ValuesInv, NEW w \in Words, words' = Append(words, w),
           Add(Path(w.key), w.value)
    PROVE  ValuesInv'
  <1> DEFINE p == Path(w.key)
  <1>1. /\ p \in DOMAIN data /\ DOMAIN data' = DOMAIN data
        /\ data'[p] = Append(data[p], w.value)
        /\ \A q \in DOMAIN data \ {p} : data'[q] = data[q]
    BY DEF Add, Set, Together
  <1>2. PICK n : n = Len(words)
    OBVIOUS
  <1>3. /\ n \in Nat /\ Len(words') = n + 1 /\ words'[n + 1] = w
        /\ \A i \in 1 .. n : About(p, i)' = About(p, i) /\ words'[i] = words[i]
        /\ About(p, n + 1)' = About(p, n) \cup {n + 1}
    <2>1. words \in Seq(Words) /\ Path(w.key) = p
      BY DEF KeptInv
    <2>. QED
      BY <1>2, <2>1, AboutNext, ZenonT(30)
  <1>4. /\ IsFiniteSet(About(p, n)) /\ Cardinality(About(p, n)) \in Nat
        /\ \A i \in About(p, n) : Cardinality(About(p, i)) \in 1 .. Cardinality(About(p, n))
        /\ \A i \in About(p, n) : i \in 1 .. n
        /\ n + 1 \notin About(p, n)
    <2>1. (\A i \in About(p, n) : i \in 1 .. n) /\ n + 1 \notin About(p, n)
      BY <1>3 DEF About
    <2>. QED
      BY <1>3, <2>1, AboutCount
  <1>5. Cardinality(About(p, n + 1)') = Cardinality(About(p, n)) + 1
    BY <1>3, <1>4, FS_AddElement
  <1>6. /\ data[p] \in Seq(STRING) /\ Len(data[p]) = Cardinality(About(p, n))
        /\ \A i \in About(p, n) : data[p][Cardinality(About(p, i))] = words[i].value
    BY <1>1, <1>2 DEF ValuesInv, ValuesAreKept
  <1>7. /\ data'[p] \in Seq(STRING) /\ Len(data'[p]) = Len(data[p]) + 1
        /\ \A k \in 1 .. Len(data[p]) : data'[p][k] = data[p][k]
        /\ data'[p][Len(data[p]) + 1] = w.value
    BY <1>1, <1>6, CmdlineAssumption, AppendProperties
  <1>8. About(p, Len(words))' = About(p, n + 1)'
    BY <1>3
  <1>9. \A i \in About(p, Len(words))' : data'[p][Cardinality(About(p, i)')] = words'[i].value
    <2>1. TAKE i \in About(p, Len(words))'
    <2>2. CASE i = n + 1
      BY <1>3, <1>5, <1>6, <1>7, <2>2
    <2>3. CASE i \in About(p, n)
      BY <1>3, <1>4, <1>6, <1>7, <2>3
    <2>. QED
      BY <1>3, <1>8, <2>2, <2>3
  <1>10. Len(data'[p]) = Cardinality(About(p, Len(words))')
    BY <1>5, <1>6, <1>7, <1>8
  <1>11. ASSUME NEW q \in DOMAIN data'
         PROVE  /\ data'[q] \in Seq(STRING)
                /\ Len(data'[q]) = Cardinality(About(q, Len(words))')
                /\ \A i \in About(q, Len(words))' :
                      data'[q][Cardinality(About(q, i)')] = words'[i].value
    <2>1. CASE q = p
      BY <1>7, <1>9, <1>10, <2>1
    <2>2. CASE q # p
      <3>1. q \in DOMAIN data /\ q # Path(w.key) /\ data'[q] = data[q]
        BY <1>1, <2>2
      <3>. QED
        BY <3>1, OthersKept
    <2>. QED
      BY <2>1, <2>2
  <1>. QED
    BY <1>11 DEF ValuesInv, ValuesAreKept

\* A setting is new: had an earlier word been about it, it would be there, or what kept it
\* out would keep this word out too.
LEMMA NobodyBefore ==
    ASSUME KeptInv, NEW w \in Words, Put(Path(w.key), w.value), NEW n, n = Len(words)
    PROVE  About(Path(w.key), n) = {}
  <1> DEFINE p == Path(w.key)
  <1>1. DOMAIN words = 1 .. n
    BY DEF KeptInv
  <1>2. SUFFICES ASSUME NEW i \in 1 .. n, Path(words[i].key) = p
                 PROVE  FALSE
    BY DEF About
  <1>3. \E q \in DOMAIN data : q = p \/ Inside(p, q) \/ Inside(q, p)
    BY <1>1, <1>2 DEF KeptInv, WordsAreKept, FirstDecides
  <1>. QED
    BY <1>3 DEF Put, IsMap, Blocked

LEMMA PutValues ==
    ASSUME KeptInv, ValuesInv, NEW w \in Words, words' = Append(words, w),
           Put(Path(w.key), w.value)
    PROVE  ValuesInv'
  <1> DEFINE p == Path(w.key)
  <1>1. /\ p \notin DOMAIN data /\ DOMAIN data' = DOMAIN data \cup {p}
        /\ data'[p] = <<w.value>> /\ \A q \in DOMAIN data : data'[q] = data[q]
    BY DEF Put, Set
  <1>2. PICK n : n = Len(words)
    OBVIOUS
  <1>3. /\ n \in Nat /\ Len(words') = n + 1 /\ words'[n + 1] = w
        /\ About(p, n + 1)' = About(p, n) \cup {n + 1}
    BY <1>2, AboutNext DEF KeptInv
  <1>4. About(p, n + 1)' = {n + 1}
    BY <1>2, <1>3, NobodyBefore
  <1>5. About(p, Len(words))' = {n + 1} /\ Cardinality({n + 1}) = 1
    BY <1>3, <1>4, FS_Singleton
  <1>6. data'[p] \in Seq(STRING) /\ Len(data'[p]) = 1 /\ data'[p][1] = w.value
    BY <1>1, CmdlineAssumption
  <1>7. ASSUME NEW q \in DOMAIN data'
        PROVE  /\ data'[q] \in Seq(STRING)
               /\ Len(data'[q]) = Cardinality(About(q, Len(words))')
               /\ \A i \in About(q, Len(words))' :
                     data'[q][Cardinality(About(q, i)')] = words'[i].value
    <2>1. CASE q = p
      BY <1>3, <1>4, <1>5, <1>6, <2>1
    <2>2. CASE q # p
      <3>1. q \in DOMAIN data /\ q # Path(w.key) /\ data'[q] = data[q]
        BY <1>1, <2>2
      <3>. QED
        BY <3>1, OthersKept
    <2>. QED
      BY <2>1, <2>2
  <1>. QED
    BY <1>7 DEF ValuesInv, ValuesAreKept

LEMMA IgnoreValues ==
    ASSUME KeptInv, ValuesInv, NEW w \in Words, words' = Append(words, w),
           Ignore(Path(w.key))
    PROVE  ValuesInv'
  <1>1. data' = data /\ Path(w.key) \notin DOMAIN data
    BY DEF Ignore
  <1>2. ASSUME NEW q \in DOMAIN data'
        PROVE  /\ data'[q] \in Seq(STRING)
               /\ Len(data'[q]) = Cardinality(About(q, Len(words))')
               /\ \A i \in About(q, Len(words))' :
                     data'[q][Cardinality(About(q, i)')] = words'[i].value
    <2>1. q \in DOMAIN data /\ q # Path(w.key) /\ data'[q] = data[q]
      BY <1>1
    <2>. QED
      BY <2>1, OthersKept
  <1>. QED
    BY <1>2 DEF ValuesInv, ValuesAreKept

\* The n-th word about a setting that was taken at all gave it its n-th value (PutValue and
\* the appending in readCmdline), however many words about others came between.
THEOREM ValuesAlwaysKept == ConfigSpec => []ValuesAreKept
  <1>1. ConfigInit => ValuesInv
    BY DEF ConfigInit, CmdlineUnused, Init, ValuesInv, ValuesAreKept
  <1>2. ASSUME KeptInv, ValuesInv, [Next]_vars PROVE ValuesInv'
    <2>1. ASSUME NEW w \in Words, Word(w) PROVE ValuesInv'
      BY <1>2, <2>1, AddValues, PutValues, IgnoreValues DEF Word
    <2>2. CASE UNCHANGED vars
      BY <1>2, <2>2 DEF vars, ValuesInv, ValuesAreKept, About
    <2>. QED
      BY <1>2, <2>1, <2>2 DEF Next, Done
  <1>3. ValuesInv => ValuesAreKept
    BY DEF ValuesInv
  <1>. QED
    BY <1>1, <1>2, <1>3, CmdlineStep, KeptInvariant, PTL DEF ConfigSpec

----------------------------------------------------------------------------
\* The sources.

\* What a source may say.
Values == Written \cup {CR!Value("list", <<"script">>)}
Sayings == UNION {[forms -> Values] : forms \in SUBSET CR!Forms}

LEMMA SourceType ==
    ASSUME NEW reader, NEW source \in CR!Source(reader)
    PROVE  source \in Sayings
  <1> USE DEF Sayings, Values, CR!Forms
  <1>1. CR!Nothing \in Sayings
    <2>1. CR!Nothing \in [{} -> Values]
      BY DEF CR!Nothing
    <2>. QED
      BY <2>1
  <1>2. CR!Script \in Sayings
    <2>1. CR!Script \in [{"field"} -> Values]
      BY DEF CR!Script
    <2>. QED
      BY <2>1
  <1>3. \A ks : CR!OfKind(ks) \subseteq Values
    BY DEF CR!OfKind
  <1>4. \A values : values \subseteq Values => CR!Maps(values) \subseteq Sayings
    BY DEF CR!Maps
  <1>5. \A ks : /\ [{"other"} -> CR!OfKind(ks)] \subseteq Sayings
                /\ [{"field"} -> CR!OfKind(ks)] \subseteq Sayings
    BY <1>3
  <1>. QED
    BY <1>1, <1>2, <1>3, <1>4, <1>5 DEF CR!Source

\* The merged field is that of the last source that names it, and so is its name in lower
\* case; which is why the order in which the names of a source were visited is forgotten.
IsLast(i, S) == i \in S /\ \A j \in S : j <= i
MergedInv ==
    /\ CR!Sources(CR!Forms) = {} => DOMAIN merged = {}
    /\ CR!Sources(CR!Forms) # {} =>
           /\ "field" \in DOMAIN merged
           /\ \E i : /\ IsLast(i, CR!Sources(CR!Forms))
                     /\ \E f \in DOMAIN sources[i] : merged["field"] = CR!Coerced(sources[i][f])
    /\ CR!Consistent => "lower" \notin DOMAIN merged
    /\ ~CR!Consistent =>
           /\ "lower" \in DOMAIN merged
           /\ \E i : /\ IsLast(i, CR!Sources({"lower"}))
                     /\ merged["lower"] = sources[i]["lower"]

\* What Decode looks at, and what it makes of it.
Names == {"field", "lower"} \cap DOMAIN merged
DecodedInv ==
    /\ status = "decoded" =>
           /\ \A f \in Names : CR!Fits(merged[f])
           /\ Names # {} => result = merged[IF "lower" \in Names THEN "lower" ELSE "field"]
    /\ status = "error" /\ Len(sources) = Len(CR!Readers) =>
           \E f \in Names : ~CR!Fits(merged[f])

ReadInv == /\ kind \in CR!Kinds /\ sources \in Seq(Sayings)
           /\ MergedInv /\ DecodedInv

\* The source with its names and types: the value under the field's own name is one that it
\* was given under some name, and the name in lower case is left alone.
LEMMA Internal ==
    ASSUME NEW source \in Sayings, NEW new \in CR!ToInternal(source)
    PROVE  /\ DOMAIN source = {} => DOMAIN new = {}
           /\ DOMAIN source # {} =>
                 "field" \in DOMAIN new /\ \E f \in DOMAIN source : new["field"] = CR!Coerced(source[f])
           /\ "lower" \in DOMAIN new <=> "lower" \in DOMAIN source
           /\ "lower" \in DOMAIN new => new["lower"] = source["lower"]
  <1>1. PICK s \in CR!Renamed(source) : new = CR!CoercedField(s)
    BY DEF CR!ToInternal
  <1>2. /\ DOMAIN new = DOMAIN s
        /\ "field" \in DOMAIN s => new["field"] = CR!Coerced(s["field"])
        /\ "lower" \in DOMAIN s => new["lower"] = s["lower"]
    BY <1>1 DEF CR!CoercedField
  <1>3. CASE DOMAIN source \subseteq {"field"}
    <2>1. s = source
      BY <1>1, <1>3 DEF CR!Renamed
    <2>. QED
      BY <1>2, <1>3, <2>1
  <1>4. CASE ~(DOMAIN source \subseteq {"field"})
    <2>1. PICK o \in DOMAIN source :
              s = [f \in DOMAIN source \cup {"field"} |-> source[IF f = "field" THEN o ELSE f]]
      BY <1>1, <1>4 DEF CR!Renamed
    <2>2. /\ DOMAIN s = DOMAIN source \cup {"field"} /\ s["field"] = source[o]
          /\ "lower" \in DOMAIN source => s["lower"] = source["lower"]
      BY <2>1
    <2>. QED
      BY <1>2, <1>4, <2>2
  <1>. QED
    BY <1>3, <1>4

LEMMA SourcesNext ==
    ASSUME sources \in Seq(Sayings), NEW source \in Sayings, sources' = Append(sources, source),
           NEW n, n = Len(sources), NEW names
    PROVE  /\ n \in Nat /\ sources' \in Seq(Sayings) /\ sources'[n + 1] = source
           /\ Len(sources') = n + 1
           /\ \A i \in CR!Sources(names) : i \in 1 .. n /\ sources'[i] = sources[i]
           /\ DOMAIN source \cap names = {} => CR!Sources(names)' = CR!Sources(names)
           /\ DOMAIN source \cap names # {} =>
                 /\ CR!Sources(names)' = CR!Sources(names) \cup {n + 1}
                 /\ IsLast(n + 1, CR!Sources(names)')
  <1>1. /\ n \in Nat /\ sources' \in Seq(Sayings) /\ DOMAIN sources = 1 .. n
        /\ Len(sources') = n + 1 /\ sources'[n + 1] = source
        /\ \A i \in 1 .. n : sources'[i] = sources[i]
    BY AppendProperties
  <1>2. DOMAIN sources' = (1 .. n) \cup {n + 1} /\ n + 1 \notin 1 .. n
    BY <1>1
  <1>3. \A i \in CR!Sources(names) : i \in 1 .. n /\ sources'[i] = sources[i]
    BY <1>1 DEF CR!Sources
  <1>4. CASE DOMAIN source \cap names = {}
    <2>1. CR!Sources(names)' = CR!Sources(names)
      BY <1>1, <1>2, <1>4 DEF CR!Sources
    <2>. QED
      BY <1>1, <1>3, <1>4, <2>1
  <1>5. CASE DOMAIN source \cap names # {}
    <2>1. CR!Sources(names)' = CR!Sources(names) \cup {n + 1}
      BY <1>1, <1>2, <1>5 DEF CR!Sources
    <2>2. \A i \in CR!Sources(names)' : i <= n + 1
      BY <1>1, <1>3, <2>1
    <2>. QED
      BY <1>1, <1>3, <1>5, <2>1, <2>2 DEF IsLast
  <1>. QED
    BY <1>4, <1>5

\* A source that names the field becomes the last, one that does not leaves all as it was.
LEMMA ReadMerges ==
    ASSUME ReadInv, CR!Read
    PROVE  /\ sources' \in Seq(Sayings) /\ MergedInv'
           /\ UNCHANGED <<kind, result, status>> /\ status = "reading"
  <1>0. PICK source \in Sayings :
           /\ sources' = Append(sources, source)
           /\ \E new \in CR!ToInternal(source) : merged' = CR!Merged(merged, new)
    BY SourceType DEF CR!Read
  <1>1. PICK new \in CR!ToInternal(source) : merged' = CR!Merged(merged, new)
    BY <1>0
  <1>2. UNCHANGED <<kind, result, status>> /\ status = "reading"
    BY DEF CR!Read
  <1>3. PICK n : n = Len(sources)
    OBVIOUS
  <1>4. \A names :
           /\ n \in Nat /\ sources' \in Seq(Sayings) /\ sources'[n + 1] = source
           /\ \A i \in CR!Sources(names) : i \in 1 .. n /\ sources'[i] = sources[i]
           /\ DOMAIN source \cap names = {} => CR!Sources(names)' = CR!Sources(names)
           /\ DOMAIN source \cap names # {} =>
                 /\ CR!Sources(names)' = CR!Sources(names) \cup {n + 1}
                 /\ IsLast(n + 1, CR!Sources(names)')
    BY <1>0, <1>3, SourcesNext DEF ReadInv
  <1>5. DOMAIN source \cap CR!Forms = DOMAIN source
    BY DEF Sayings
  <1>6. /\ DOMAIN merged' = DOMAIN merged \cup DOMAIN new
        /\ \A f \in DOMAIN new : merged'[f] = new[f]
        /\ \A f \in DOMAIN merged \ DOMAIN new : merged'[f] = merged[f]
    BY <1>1 DEF CR!Merged
  <1>7. \A v : CR!Coerced(v)' = CR!Coerced(v)
    BY <1>2 DEF CR!Coerced
  <1> DEFINE Naming == CR!Sources(CR!Forms)
             Lower == CR!Sources({"lower"})
  <1>8. /\ CR!Consistent <=> Lower = {}
        /\ CR!Consistent' <=> Lower' = {}
    BY DEF CR!Consistent
  <1>9. /\ Naming' = {} => DOMAIN merged' = {}
        /\ Naming' # {} =>
              /\ "field" \in DOMAIN merged'
              /\ \E i : /\ IsLast(i, Naming')
                        /\ \E f \in DOMAIN sources'[i] :
                              merged'["field"] = CR!Coerced(sources[i][f])'
    <2>1. CASE DOMAIN source = {}
      <3>1. Naming' = Naming /\ DOMAIN merged' = DOMAIN merged
            /\ \A f \in DOMAIN merged : merged'[f] = merged[f]
        BY <1>1, <1>4, <1>5, <1>6, <2>1, Internal
      <3>2. CASE Naming = {}
        BY <3>1, <3>2 DEF ReadInv, MergedInv
      <3>3. CASE Naming # {}
        <4>1. PICK i : /\ IsLast(i, Naming)
                       /\ \E f \in DOMAIN sources[i] : merged["field"] = CR!Coerced(sources[i][f])
          BY <3>3 DEF ReadInv, MergedInv
        <4>2. sources'[i] = sources[i] /\ "field" \in DOMAIN merged
          BY <1>4, <3>3, <4>1 DEF IsLast, ReadInv, MergedInv
        <4>. QED
          BY <1>7, <3>1, <3>3, <4>1, <4>2
      <3>. QED
        BY <3>2, <3>3
    <2>2. CASE DOMAIN source # {}
      <3>1. /\ "field" \in DOMAIN new
            /\ \E f \in DOMAIN source : new["field"] = CR!Coerced(source[f])
        BY <1>1, <2>2, Internal
      <3>2. IsLast(n + 1, Naming') /\ sources'[n + 1] = source /\ Naming' # {}
        BY <1>4, <1>5, <2>2 DEF IsLast
      <3>. QED
        BY <1>6, <1>7, <3>1, <3>2
    <2>. QED
      BY <2>1, <2>2
  <1>10. /\ Lower' = {} => "lower" \notin DOMAIN merged'
         /\ Lower' # {} =>
               /\ "lower" \in DOMAIN merged'
               /\ \E i : IsLast(i, Lower') /\ merged'["lower"] = sources'[i]["lower"]
    <2>1. CASE "lower" \notin DOMAIN source
      <3>1. "lower" \notin DOMAIN new
        BY <1>1, <2>1, Internal
      <3>2. Lower' = Lower
        BY <1>4, <2>1
      <3>3. CASE Lower = {}
        BY <1>6, <1>8, <3>1, <3>2, <3>3 DEF ReadInv, MergedInv
      <3>4. CASE Lower # {}
        <4>1. PICK i : IsLast(i, Lower) /\ merged["lower"] = sources[i]["lower"]
          BY <1>8, <3>4 DEF ReadInv, MergedInv
        <4>2. sources'[i] = sources[i] /\ "lower" \in DOMAIN merged
          BY <1>4, <1>8, <3>4, <4>1 DEF IsLast, ReadInv, MergedInv
        <4>3. "lower" \in DOMAIN merged' /\ merged'["lower"] = sources'[i]["lower"]
          BY <1>6, <3>1, <4>1, <4>2
        <4>4. IsLast(i, Lower')
          BY <3>2, <4>1
        <4>. QED
          BY <3>2, <3>4, <4>3, <4>4
      <3>. QED
        BY <3>3, <3>4
    <2>2. CASE "lower" \in DOMAIN source
      <3>1. "lower" \in DOMAIN new /\ new["lower"] = source["lower"]
        BY <1>1, <2>2, Internal
      <3>2. IsLast(n + 1, Lower') /\ sources'[n + 1] = source /\ Lower' # {}
        BY <1>4, <2>2 DEF IsLast
      <3>. QED
        BY <1>6, <3>1, <3>2
    <2>. QED
      BY <2>1, <2>2
  <1>. QED
    BY <1>2, <1>4, <1>8, <1>9, <1>10 DEF MergedInv

\* Decode looks at the field under its own name and in lower case.
LEMMA DecodeLooks ==
    ASSUME ReadInv, CR!Decode
    PROVE  DecodedInv' /\ UNCHANGED <<kind, sources, merged>>
  <1>1. /\ UNCHANGED <<kind, sources, merged>>
        /\ status' = IF {f \in Names : CR!Fits(merged[f])} = Names THEN "decoded" ELSE "error"
        /\ result' = IF {f \in Names : CR!Fits(merged[f])} = {} THEN CR!Unset
                     ELSE merged[IF "lower" \in {f \in Names : CR!Fits(merged[f])}
                                 THEN "lower" ELSE "field"]
    BY DEF CR!Decode, Names
  <1>2. Names' = Names /\ \A f : CR!Fits(merged[f])' = CR!Fits(merged[f])
    BY <1>1 DEF Names, CR!Fits
  <1>3. CASE \A f \in Names : CR!Fits(merged[f])
    <2>1. {f \in Names : CR!Fits(merged[f])} = Names
      BY <1>3
    <2>2. /\ status' = "decoded"
          /\ Names # {} => result' = merged[IF "lower" \in Names THEN "lower" ELSE "field"]
      BY <1>1, <2>1
    <2>. QED
      BY <1>1, <1>2, <1>3, <2>2 DEF DecodedInv
  <1>4. CASE ~\A f \in Names : CR!Fits(merged[f])
    <2>1. {f \in Names : CR!Fits(merged[f])} # Names
      BY <1>4
    <2>2. status' = "error"
      BY <1>1, <2>1
    <2>. QED
      BY <1>1, <1>2, <1>4, <2>2 DEF DecodedInv
  <1>. QED
    BY <1>1, <1>3, <1>4

LEMMA ReadStep ==
    ASSUME ReadInv, [CR!Next]_readVars
    PROVE  ReadInv'
  <1>1. CASE CR!Read
    BY <1>1, ReadMerges DEF ReadInv, DecodedInv
  <1>2. CASE CR!Decode
    <2>1. MergedInv'
      BY <1>2, DecodeLooks DEF ReadInv, MergedInv, CR!Sources, CR!Consistent, CR!Coerced
    <2>. QED
      BY <1>2, <2>1, DecodeLooks DEF ReadInv
  <1>3. CASE CR!ReadFails
    <2>1. /\ UNCHANGED <<kind, sources, merged, result>> /\ status' = "error"
          /\ Len(sources) < Len(CR!Readers)
      BY <1>3 DEF CR!ReadFails
    <2>2. Len(sources) \in Nat /\ Len(CR!Readers) = 6
      BY DEF ReadInv, CR!Readers
    <2>3. MergedInv'
      BY <2>1 DEF ReadInv, MergedInv, CR!Sources, CR!Consistent, CR!Coerced
    <2>4. DecodedInv'
      BY <2>1, <2>2 DEF DecodedInv
    <2>. QED
      BY <2>1, <2>3, <2>4 DEF ReadInv
  <1>4. CASE CR!Done \/ UNCHANGED readVars
    <2>1. UNCHANGED readVars
      BY <1>4 DEF CR!Done, CR!vars, readVars
    <2>2. MergedInv'
      BY <2>1 DEF readVars, ReadInv, MergedInv, CR!Sources, CR!Consistent, CR!Coerced
    <2>3. DecodedInv'
      BY <2>1 DEF readVars, ReadInv, DecodedInv, Names, CR!Fits
    <2>. QED
      BY <2>1, <2>2, <2>3 DEF readVars, ReadInv
  <1>. QED
    BY <1>1, <1>2, <1>3, <1>4 DEF CR!Next

LEMMA LastOfLast ==
    ASSUME NEW S \in SUBSET Nat, NEW i, IsLast(i, S)
    PROVE  CR!LastOf(S) = i
  <1>1. IsLast(CR!LastOf(S), S)
    BY DEF CR!LastOf, IsLast
  <1>2. i \in Nat /\ CR!LastOf(S) \in Nat /\ i <= CR!LastOf(S) /\ CR!LastOf(S) <= i
    BY <1>1 DEF IsLast
  <1>. QED
    BY <1>2

\* What is merged says what the last source said; Decode finds it under one name, or under
\* two of which that in lower case comes second.
LEMMA LastIsMerged ==
    ASSUME ReadInv
    PROVE  CR!LastSourceWins /\ CR!LowerCaseSticks /\ CR!StringsAreCoerced
  <1>1. \A names : CR!Sources(names) \in SUBSET Nat
    BY DEF ReadInv, CR!Sources
  <1>2. ASSUME CR!Consistent, CR!Sources(CR!Forms) # {}
        PROVE  \E f \in DOMAIN sources[CR!LastOf(CR!Sources(CR!Forms))] :
                  merged["field"] = CR!Coerced(sources[CR!LastOf(CR!Sources(CR!Forms))][f])
    <2>1. PICK i : /\ IsLast(i, CR!Sources(CR!Forms))
                   /\ \E f \in DOMAIN sources[i] : merged["field"] = CR!Coerced(sources[i][f])
      BY <1>2 DEF ReadInv, MergedInv
    <2>. QED
      BY <1>1, <2>1, LastOfLast
  <1>3. CR!Consistent => Names = IF CR!Sources(CR!Forms) = {} THEN {} ELSE {"field"}
    BY DEF ReadInv, MergedInv, Names
  <1>4. CR!LastSourceWins
    BY <1>2, <1>3 DEF ReadInv, DecodedInv, CR!LastSourceWins
  <1>5. CR!LowerCaseSticks
    <2>1. SUFFICES ASSUME status = "decoded", ~CR!Consistent
                   PROVE  result = sources[CR!LastOf(CR!Sources({"lower"}))]["lower"]
      BY DEF CR!LowerCaseSticks
    <2>2. PICK i : /\ IsLast(i, CR!Sources({"lower"}))
                   /\ merged["lower"] = sources[i]["lower"]
      BY <2>1 DEF ReadInv, MergedInv
    <2>3. "lower" \in Names
      BY <2>1 DEF ReadInv, MergedInv, Names
    <2>. QED
      BY <1>1, <2>1, <2>2, <2>3, LastOfLast DEF ReadInv, DecodedInv
  <1>6. CR!StringsAreCoerced
    <2>1. SUFFICES ASSUME status = "error", Len(sources) = Len(CR!Readers), CR!Consistent
                   PROVE  \E f \in DOMAIN sources[CR!LastOf(CR!Sources(CR!Forms))] :
                             sources[CR!LastOf(CR!Sources(CR!Forms))][f].kind
                                 \notin {"string", kind}
      BY DEF CR!StringsAreCoerced
    <2>2. CR!Sources(CR!Forms) # {} /\ merged["field"].kind # kind
      BY <1>3, <2>1 DEF ReadInv, DecodedInv, CR!Fits
    <2>3. \A v : CR!Coerced(v).kind # kind => v.kind \notin {"string", kind}
      BY DEF CR!Coerced, CR!Value, ReadInv, CR!Kinds
    <2>. QED
      BY <1>2, <2>1, <2>2, <2>3
  <1>. QED
    BY <1>4, <1>5, <1>6

\* For any values, any number of sources that say something and of names in each: the last
\* source that names a field decides it.  The invariant behind it is about the merged map
\* (mergeMaps), which never forgets that it holds the last source's value; Decode then only
\* looks there.
THEOREM LastSourceDecides == ConfigSpec => []LastWins
  <1> DEFINE Inv == part = "read" => ReadInv
  <1>1. ConfigInit => Inv
    <2>1. SUFFICES ASSUME CR!Init PROVE ReadInv
      BY DEF ConfigInit
    <2>2. /\ kind \in CR!Kinds /\ sources = << >> /\ DOMAIN merged = {}
          /\ status = "reading"
      BY <2>1 DEF CR!Init, CR!Nothing
    <2>3. \A names : CR!Sources(names) = {}
      BY <2>2 DEF CR!Sources
    <2>. QED
      BY <2>2, <2>3 DEF ReadInv, MergedInv, DecodedInv, CR!Consistent
  <1>2. ASSUME Inv, [ConfigNext]_<<part, vars, readVars, writeVars>> PROVE Inv'
    BY <1>2, ReadStep DEF ConfigNext
  <1>3. Inv => LastWins
    BY LastIsMerged DEF LastWins
  <1>. QED
    BY <1>1, <1>2, <1>3, PTL DEF ConfigSpec

----------------------------------------------------------------------------
\* The keys that are written.

\* What fails for some number fails for a first one.
LEMMA LeastNat ==
    ASSUME NEW S \in SUBSET Nat, S # {}
    PROVE  \E n \in S : \A m \in S : n <= m
  <1> DEFINE R == {ss \in Nat \X Nat : ss[1] < ss[2]}
  <1>1. IsWellFoundedOn(R, Nat)
    BY NatLessThanWellFounded DEF OpToRel
  <1>2. PICK n \in S : \A m \in S : ~(<<m, n>> \in R)
    BY <1>1, WFMin
  <1>3. ASSUME NEW m \in S PROVE n <= m
    <2>1. m \in Nat /\ n \in Nat /\ (m < n => <<m, n>> \in R)
      OBVIOUS
    <2>2. ~(m < n)
      BY <1>2, <2>1
    <2>. QED
      BY <2>1, <2>2
  <1>. QED
    BY <1>3

\* What FlattenSeq computes, piece by piece.
Flattens(f, seqs, n) ==
    f = [i \in 1 .. n |-> IF i = 1 THEN seqs[i] ELSE f[i - 1] \o seqs[i]]

LEMMA CanFlatten ==
    ASSUME NEW seqs, NEW n \in Nat
    PROVE  \E f : Flattens(f, seqs, n)
  <1> DEFINE Stuck == {m \in Nat : ~\E f : Flattens(f, seqs, m)}
  <1>1. SUFFICES ASSUME Stuck # {} PROVE FALSE
    OBVIOUS
  <1>2. PICK m \in Stuck : \A k \in Stuck : m <= k
    BY <1>1, LeastNat
  <1>3. CASE m = 0
    <2> DEFINE g == [i \in 1 .. 0 |-> << >>]
    <2>1. Flattens(g, seqs, 0)
      BY DEF Flattens
    <2>. QED
      BY <1>3, <2>1
  <1>4. CASE m # 0
    <2>1. m - 1 \in Nat /\ ~(m <= m - 1)
      BY <1>4
    <2>2. PICK f : Flattens(f, seqs, m - 1)
      BY <1>2, <2>1
    <2> DEFINE g == [i \in 1 .. m |->
                        IF i = 1 THEN seqs[i] ELSE f[i - 1] \o seqs[i]]
    <2>3. \A i \in 1 .. m - 1 : g[i] = f[i]
      <3>1. \A i \in 1 .. m - 1 : f[i] = IF i = 1 THEN seqs[i] ELSE f[i - 1] \o seqs[i]
        BY <2>2 DEF Flattens
      <3>2. 1 .. m - 1 \subseteq 1 .. m
        BY <2>1
      <3>. QED
        BY <3>1, <3>2
    <2>4. \A i \in 1 .. m : g[i] = IF i = 1 THEN seqs[i] ELSE g[i - 1] \o seqs[i]
      <3>1. TAKE i \in 1 .. m
      <3>2. i # 1 => i - 1 \in 1 .. m - 1
        BY <2>1
      <3>. QED
        BY <2>3, <3>2
    <2>5. Flattens(g, seqs, m)
      BY <2>4 DEF Flattens
    <2>. QED
      BY <2>5
  <1>. QED
    BY <1>3, <1>4

LEMMA Flattened ==
    ASSUME NEW seqs, Len(seqs) \in Nat \ {0}
    PROVE  \E f : Flattens(f, seqs, Len(seqs)) /\ FlattenSeq(seqs) = f[Len(seqs)]
  <1>1. \E f : f = [i \in 1 .. Len(seqs) |-> IF i = 1 THEN seqs[i] ELSE f[i - 1] \o seqs[i]]
    BY CanFlatten DEF Flattens
  <1>. QED
    BY <1>1 DEF Flattens, FlattenSeq

\* What holds of the pieces holds of the whole.
LEMMA FlattenedType ==
    ASSUME NEW S, NEW seqs \in Seq(Seq(S))
    PROVE  FlattenSeq(seqs) \in Seq(S)
  <1>1. CASE Len(seqs) = 0
    <2>1. FlattenSeq(seqs) = << >>
      BY <1>1, EmptySeq DEF FlattenSeq
    <2>. QED
      BY <2>1
  <1>2. CASE Len(seqs) # 0
    <2>1. Len(seqs) \in Nat \ {0} /\ \A i \in 1 .. Len(seqs) : seqs[i] \in Seq(S)
      BY <1>2
    <2>2. PICK f : Flattens(f, seqs, Len(seqs)) /\ FlattenSeq(seqs) = f[Len(seqs)]
      BY <2>1, Flattened
    <2>3. \A i \in 1 .. Len(seqs) : f[i] = IF i = 1 THEN seqs[i] ELSE f[i - 1] \o seqs[i]
      BY <2>2 DEF Flattens
    <2> DEFINE Wrong == {i \in 1 .. Len(seqs) : f[i] \notin Seq(S)}
    <2>4. SUFFICES ASSUME Wrong # {} PROVE FALSE
      BY <2>1, <2>2
    <2>5. PICK i \in Wrong : \A k \in Wrong : i <= k
      <3>1. Wrong \in SUBSET Nat
        BY <2>1
      <3>. QED
        BY <2>4, <3>1, LeastNat
    <2>6. CASE i = 1
      BY <2>1, <2>3, <2>5, <2>6
    <2>7. CASE i # 1
      <3>1. i - 1 \in 1 .. Len(seqs) /\ ~(i <= i - 1)
        BY <2>1, <2>5, <2>7
      <3>2. f[i - 1] \in Seq(S) /\ seqs[i] \in Seq(S)
        BY <2>1, <2>5, <3>1
      <3>3. f[i] = f[i - 1] \o seqs[i]
        BY <2>3, <2>5, <2>7
      <3>. QED
        <4>1. f[i] \in Seq(S)
          BY <3>2, <3>3, ConcatProperties
        <4>. QED
          BY <2>5, <4>1
    <2>. QED
      BY <2>6, <2>7
  <1>. QED
    BY <1>1, <1>2

LEMMA FlattenedSingles ==
    ASSUME NEW S, NEW s \in Seq(S), NEW seqs, seqs = [i \in DOMAIN s |-> <<s[i]>>]
    PROVE  FlattenSeq(seqs) = s
  <1>0. /\ Len(s) \in Nat /\ DOMAIN s = 1 .. Len(s) /\ \A i \in 1 .. Len(s) : s[i] \in S
        /\ seqs \in Seq(Seq(S)) /\ Len(seqs) = Len(s)
        /\ \A i \in 1 .. Len(s) : seqs[i] = <<s[i]>>
    <2>1. Len(s) \in Nat /\ DOMAIN s = 1 .. Len(s) /\ \A i \in 1 .. Len(s) : s[i] \in S
      OBVIOUS
    <2>2. /\ seqs = [i \in 1 .. Len(s) |-> <<s[i]>>]
          /\ \A i \in 1 .. Len(s) : seqs[i] = <<s[i]>> /\ <<s[i]>> \in Seq(S)
      BY <2>1
    <2>3. seqs \in Seq(Seq(S)) /\ Len(seqs) = Len(s)
      BY <2>1, <2>2
    <2>. QED
      BY <2>1, <2>2, <2>3
  <1>1. CASE Len(s) = 0
    <2>1. FlattenSeq(seqs) = << >> /\ s = << >>
      BY <1>0, <1>1, EmptySeq DEF FlattenSeq
    <2>. QED
      BY <2>1
  <1>2. CASE Len(s) # 0
    <2>1. PICK f : Flattens(f, seqs, Len(s)) /\ FlattenSeq(seqs) = f[Len(s)]
      BY <1>0, <1>2, Flattened
    <2>2. \A i \in 1 .. Len(s) : f[i] = IF i = 1 THEN <<s[i]>> ELSE f[i - 1] \o <<s[i]>>
      BY <1>0, <2>1 DEF Flattens
    <2> DEFINE Starts(t, i) == t \in Seq(S) /\ Len(t) = i /\ \A k \in 1 .. i : t[k] = s[k]
               Wrong == {i \in 1 .. Len(s) : ~Starts(f[i], i)}
    <2>3. CASE Wrong = {}
      <3>1. Starts(f[Len(s)], Len(s))
        BY <1>0, <1>2, <2>3
      <3>. QED
        BY <1>0, <2>1, <3>1
    <2>4. CASE Wrong # {}
      <3>1. Wrong \in SUBSET Nat
        BY <1>0
      <3>2. PICK i \in Wrong : \A k \in Wrong : i <= k
        BY <2>4, <3>1, LeastNat
      <3>3. CASE i = 1
        <4>1. f[i] = <<s[1]>> /\ s[1] \in S
          BY <1>0, <1>2, <2>2, <3>3
        <4>2. Starts(f[i], i)
          BY <3>3, <4>1
        <4>. QED
          BY <3>2, <4>2
      <3>4. CASE i # 1
        <4>1. i - 1 \in 1 .. Len(s) /\ ~(i <= i - 1) /\ i \in 1 .. Len(s)
          BY <1>0, <3>2, <3>4
        <4>2. Starts(f[i - 1], i - 1)
          BY <3>2, <4>1
        <4>3. f[i] = Append(f[i - 1], s[i]) /\ s[i] \in S
          <5>1. f[i] = f[i - 1] \o <<s[i]>> /\ s[i] \in S /\ f[i - 1] \in Seq(S)
            BY <1>0, <2>2, <3>4, <4>1, <4>2
          <5>. QED
            BY <5>1, AppendIsConcat
        <4>4. Starts(f[i], i)
          BY <4>1, <4>2, <4>3, AppendProperties
        <4>. QED
          BY <3>2, <4>4
      <3>. QED
        BY <3>3, <3>4
    <2>. QED
      BY <2>3, <2>4
  <1>. QED
    BY <1>1, <1>2

\* A written key has small letters only; and one that has them already is its own.
Small == {"a", "b", "_"}

LEMMA KeySigns ==
    ASSUME NEW key
    PROVE  CW!ToYAMLKey(key) = FlattenSeq([i \in DOMAIN key |-> CW!Signs(key, i)])
  BY DEF CW!ToYAMLKey, CW!FlattenSeq, FlattenSeq

LEMMA KeyWritten ==
    ASSUME NEW key \in Seq(CW!Letters \cup Small)
    PROVE  /\ CW!ToYAMLKey(key) \in Seq(Small)
           /\ key \in Seq(Small) => CW!ToYAMLKey(key) = key
  <1> DEFINE signs == [i \in DOMAIN key |-> CW!Signs(key, i)]
  <1>1. /\ DOMAIN key = 1 .. Len(key) /\ Len(key) \in Nat
        /\ \A i \in DOMAIN key : key[i] \in CW!Letters \cup Small
    OBVIOUS
  <1>2. \A i \in DOMAIN key : CW!Signs(key, i) \in Seq(Small)
    <2>1. TAKE i \in DOMAIN key
    <2>2. CW!Lower(key[i]) \in Small
      BY <1>1 DEF CW!Lower, CW!Letters, Small
    <2>3. <<CW!Lower(key[i])>> \in Seq(Small)
      BY <2>2
    <2>4. <<"_", "b">> \in Seq(Small)
      <3>1. "_" \in Small /\ "b" \in Small
        BY DEF Small
      <3>2. \A r, t \in Small : <<r, t>> \in Seq(Small)
        OBVIOUS
      <3>. QED
        BY <3>1, <3>2
    <2>. QED
      BY <2>3, <2>4 DEF CW!Signs
  <1>3. signs \in Seq(Seq(Small))
    BY <1>1, <1>2
  <1>4. CW!ToYAMLKey(key) \in Seq(Small)
    BY <1>3, FlattenedType, KeySigns
  <1>5. ASSUME key \in Seq(Small) PROVE CW!ToYAMLKey(key) = key
    <2>1. \A i \in DOMAIN key : key[i] # "B"
      <3>1. \A i \in DOMAIN key : key[i] \in Small
        BY <1>1, <1>5
      <3>. QED
        BY <3>1 DEF Small
    <2>2. \A i \in DOMAIN key : CW!Signs(key, i) = <<key[i]>>
      BY <2>1 DEF CW!Signs, CW!Lower
    <2>3. signs = [i \in DOMAIN key |-> <<key[i]>>]
      BY <2>2
    <2>4. FlattenSeq(signs) = key
      BY <1>5, <2>3, FlattenedSingles
    <2>. QED
      BY <2>4, KeySigns
  <1>. QED
    BY <1>4, <1>5

LEMMA KeyFacts ==
    ASSUME NEW k \in CW!Keys
    PROVE  /\ k \in Seq(CW!Letters \cup Small) /\ CW!ToYAMLKey(k) \in Seq(Small)
           /\ CW!ToYAMLKey(CW!ToYAMLKey(k)) = CW!ToYAMLKey(k)
  <1>1. k \in Seq(CW!Letters \cup Small)
    BY DEF CW!Keys
  <1>2. CW!ToYAMLKey(k) \in Seq(Small)
    BY <1>1, KeyWritten
  <1>3. CW!ToYAMLKey(k) \in Seq(CW!Letters \cup Small)
    BY <1>2
  <1>. QED
    BY <1>1, <1>2, <1>3, KeyWritten

\* While the map is iterated over: what is still to be renamed has yet to be come to; what
\* is under a key is the value of that key or of one that is written like it, and nothing
\* is under two; and no value is gone but one whose key is written like another.
WriteInv ==
    /\ given \subseteq CW!Keys /\ todo \subseteq DOMAIN map
    /\ \A k \in DOMAIN map :
           /\ map[k] \in given /\ k \in {map[k], CW!ToYAMLKey(map[k])}
           /\ CW!IsNew(k) => k \in todo
    /\ \A k, other \in DOMAIN map : map[k] = map[other] => k = other
    /\ \A f \in given :
           \/ \E k \in DOMAIN map : map[k] = f
           \/ \E k \in given \ {f} : CW!ToYAMLKey(k) = CW!ToYAMLKey(f)

\* A renamed key was given, and the key that it becomes is in force from now on.
LEMMA RenameFacts ==
    ASSUME WriteInv, NEW k, CW!Rename(k), NEW y, y = CW!ToYAMLKey(k)
    PROVE  /\ k \in given /\ k \in DOMAIN map /\ map[k] = k /\ y # k /\ ~CW!IsNew(y)
           /\ UNCHANGED given
           /\ DOMAIN map' = (DOMAIN map \ {k}) \cup {y} /\ map'[y] = k
           /\ \A other \in DOMAIN map \ {k, y} : map'[other] = map[other]
           /\ todo \ {k} \subseteq todo' /\ todo' \subseteq (todo \ {k}) \cup {y}
  <1>1. /\ k \in DOMAIN map /\ y # k /\ UNCHANGED given
        /\ map' = CW!Put(CW!Without(k), y, map[k])
        /\ todo \ {k} \subseteq todo' /\ todo' \subseteq (todo \ {k}) \cup {y}
    BY DEF WriteInv, CW!Rename, CW!IsNew, CW!Taken
  <1>2. map[k] \in CW!Keys /\ map[k] \in given /\ k \in {map[k], CW!ToYAMLKey(map[k])}
    BY <1>1 DEF WriteInv
  <1>3. k = map[k]
    BY <1>1, <1>2, KeyFacts
  <1>4. ~CW!IsNew(y)
    BY <1>2, <1>3, KeyFacts DEF CW!IsNew
  <1>5. /\ DOMAIN map' = (DOMAIN map \ {k}) \cup {y} /\ map'[y] = map[k]
        /\ \A other \in DOMAIN map \ {k, y} : map'[other] = map[other]
    BY <1>1 DEF CW!Put, CW!Without
  <1>. QED
    BY <1>1, <1>2, <1>3, <1>4, <1>5

LEMMA RenameInv ==
    ASSUME WriteInv, NEW k, CW!Rename(k)
    PROVE  WriteInv'
  <1>1. PICK y : y = CW!ToYAMLKey(k)
    OBVIOUS
  <1>2. /\ k \in given /\ k \in DOMAIN map /\ map[k] = k /\ y # k /\ ~CW!IsNew(y)
        /\ UNCHANGED given
        /\ DOMAIN map' = (DOMAIN map \ {k}) \cup {y} /\ map'[y] = k
        /\ \A other \in DOMAIN map \ {k, y} : map'[other] = map[other]
        /\ todo \ {k} \subseteq todo' /\ todo' \subseteq (todo \ {k}) \cup {y}
    BY <1>1, RenameFacts
  <1>3. given' \subseteq CW!Keys /\ todo' \subseteq DOMAIN map'
    BY <1>2 DEF WriteInv
  <1>4. ASSUME NEW o \in DOMAIN map'
        PROVE  /\ map'[o] \in given' /\ o \in {map'[o], CW!ToYAMLKey(map'[o])}
               /\ CW!IsNew(o) => o \in todo'
    BY <1>1, <1>2 DEF WriteInv
  <1>5. ASSUME NEW o \in DOMAIN map', NEW other \in DOMAIN map', map'[o] = map'[other]
        PROVE  o = other
    BY <1>2, <1>5 DEF WriteInv
  <1>6. ASSUME NEW f \in given'
        PROVE  \/ \E o \in DOMAIN map' : map'[o] = f
               \/ \E o \in given' \ {f} : CW!ToYAMLKey(o) = CW!ToYAMLKey(f)
    <2>1. CASE \E o \in given \ {f} : CW!ToYAMLKey(o) = CW!ToYAMLKey(f)
      BY <1>2, <2>1
    <2>2. ASSUME NEW o \in DOMAIN map, map[o] = f
          PROVE  \/ \E other \in DOMAIN map' : map'[other] = f
                 \/ \E other \in given' \ {f} : CW!ToYAMLKey(other) = CW!ToYAMLKey(f)
      <3>1. CASE o = k
        BY <1>2, <2>2, <3>1
      <3>2. CASE o \notin {k, y}
        BY <1>2, <2>2, <3>2
      <3>3. CASE o = y
        <4>1. k # f
          BY <1>2, <2>2, <3>3 DEF WriteInv
        <4>2. y \in {f, CW!ToYAMLKey(f)} /\ CW!ToYAMLKey(y) = y
          BY <1>2, <2>2, <3>3 DEF WriteInv, CW!IsNew
        <4>. QED
          BY <1>1, <1>2, <4>1, <4>2
      <3>. QED
        BY <3>1, <3>2, <3>3
    <2>. QED
      BY <1>2, <2>1, <2>2 DEF WriteInv
  <1>. QED
    BY <1>3, <1>4, <1>5, <1>6 DEF WriteInv, CW!IsNew

\* The iteration is over: what is still to be renamed is nothing.
LEMMA WrittenReadsBack ==
    ASSUME WriteInv
    PROVE  CW!FieldsReadBack /\ CW!WrittenInLowerCase
  <1>1. CW!FieldsReadBack
    <2>1. SUFFICES ASSUME NEW f \in given
                   PROVE  \/ \E k \in DOMAIN map : CW!ReadAs(k, f) /\ map[k] = f
                          \/ \E k \in given \ {f} : CW!ToYAMLKey(k) = CW!ToYAMLKey(f)
      BY DEF CW!FieldsReadBack
    <2>2. \A k \in DOMAIN map : map[k] = f => CW!ReadAs(k, f)
      BY DEF WriteInv, CW!ReadAs
    <2>. QED
      BY <2>2 DEF WriteInv
  <1>2. CW!WrittenInLowerCase
    <2>1. SUFFICES ASSUME todo = {}, NEW k \in DOMAIN map, NEW i \in DOMAIN k
                   PROVE  k[i] # "B"
      BY DEF CW!WrittenInLowerCase, WriteInv
    <2>2. map[k] \in CW!Keys /\ k \in {map[k], CW!ToYAMLKey(map[k])}
      BY DEF WriteInv
    <2>3. CW!ToYAMLKey(k) = k
      BY <2>1 DEF WriteInv, CW!IsNew
    <2>4. k \in Seq(Small)
      BY <2>2, <2>3, KeyFacts
    <2>5. k[i] \in Small
      BY <2>4
    <2>. QED
      BY <2>5 DEF Small
  <1>. QED
    BY <1>1, <1>2

\* For any number of keys of any length: what is written is read back (toYAMLKeys), however
\* the iteration goes over the map that it changes, unless two keys are written alike.
THEOREM WrittenIsRead == ConfigSpec => []ReadsBack
  <1> DEFINE Inv == part = "write" => WriteInv
  <1>1. ConfigInit => Inv
    <2>1. SUFFICES ASSUME CW!Init PROVE WriteInv
      BY DEF ConfigInit
    <2>2. PICK ks \in [1 .. MaxKeys -> CW!Keys] : given = CW!Range(ks)
      BY <2>1 DEF CW!Init
    <2>3. given \subseteq CW!Keys
      BY <2>2 DEF CW!Range
    <2>. QED
      BY <2>1, <2>3 DEF CW!Init, WriteInv
  <1>2. ASSUME Inv, [ConfigNext]_<<part, vars, readVars, writeVars>> PROVE Inv'
    <2>1. CASE part = "write" /\ CW!Next /\ UNCHANGED <<part, vars, readVars>>
      <3>1. ASSUME NEW k, CW!Rename(k) PROVE WriteInv'
        BY <1>2, <2>1, <3>1, RenameInv
      <3>2. ASSUME NEW k, CW!Keep(k) PROVE WriteInv'
        BY <1>2, <2>1, <3>2 DEF CW!Keep, WriteInv, CW!IsNew
      <3>3. CASE CW!Done
        BY <1>2, <2>1, <3>3 DEF CW!Done, CW!vars, WriteInv, CW!IsNew
      <3>. QED
        BY <2>1, <3>1, <3>2, <3>3 DEF CW!Next
    <2>2. CASE part # "write" /\ UNCHANGED part
      BY <2>2
    <2>3. CASE UNCHANGED <<part, writeVars>>
      BY <1>2, <2>3 DEF writeVars, WriteInv, CW!IsNew
    <2>. QED
      BY <1>2, <2>1, <2>2, <2>3 DEF ConfigNext
  <1>3. Inv => ReadsBack
    BY WrittenReadsBack DEF ReadsBack
  <1>. QED
    BY <1>1, <1>2, <1>3, PTL DEF ConfigSpec
====
