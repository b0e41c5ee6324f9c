---- MODULE ConfigPhasesProofs ----
(***************************************************************************)
(* What TLAPS proves of the configuration phases, for any configurations   *)
(* of the image, the disk and the cloud, any modes and any number of       *)
(* failures, losses of power and reruns.                                   *)
(***************************************************************************)
EXTENDS ConfigPhases, SequenceTheorems, FiniteSetTheorems, TLAPS

\* How far the phase is: the place of the applier whose turn it is.
Many == Len(Appliers(at))
Place == Many - Len(doing) + 1

\* The appliers of fields but Modules, which looks at the kernel too, and their items.
Plain == Fields \ {"Modules"}
Given(c, a) == IF a = "DNS" /\ c["DNS"] = << >> THEN <<"8.8.8.8">> ELSE c[a]

\* The provers do not know of a string that it is in STRING.
Texts == STRING \cup {"8.8.8.8"}

TypeInv ==
    /\ mode \in Modes /\ local \in [Fields -> Seq(STRING)] /\ userdata \in [Fields -> Seq(STRING)]
    /\ at \in {"initrd", "boot", "runtime", "install"}
    /\ stage \in {"fetch", "read", "apply", "over"}
    /\ cfg \in [Fields -> Seq(STRING)]
    /\ tmp \in BOOLEAN /\ log \in Seq(ToSet(log))
    /\ DOMAIN done = Effects /\ DOMAIN disk = Effects
    /\ fails \in Nat /\ cuts \in Nat

\* The appliers that are left are the last of the phase, and between the phases nothing
\* is under way.
DoingInv ==
    /\ stage # "apply" => doing = << >>
    /\ Len(doing) \in 0 .. Many
    /\ stage = "apply" => doing = SubSeq(Appliers(at), Place, Many)
    /\ tmp => Applying /\ Current = "WriteFiles" /\ todo # << >>

\* Nobody has done anything before its turn.
LogInv ==
    /\ \A j \in DOMAIN log : log[j] = <<log[j][1], log[j][2]>>
    /\ stage = "apply" => \A j \in DOMAIN log :
           \E i \in 1 .. Many : i <= Place /\ log[j][1] = Appliers(at)[i]

\* Who has had its turn has done what it had to, and whose turn it is all but what is left.
Finished(a) ==
    /\ Did(a) \subseteq ToSet(Given(cfg, a))
    /\ \A item \in ToSet(Given(cfg, a)) : item \in Did(a) \/ Excused(a, item)
AtWork(a) ==
    /\ todo \in Seq(Texts)
    /\ Did(a) \cup ToSet(todo) \subseteq ToSet(Given(cfg, a))
    /\ \A item \in ToSet(Given(cfg, a)) : item \in Did(a) \cup ToSet(todo) \/ Excused(a, item)
TurnInv ==
    stage = "apply" => \A i \in 1 .. Many : Appliers(at)[i] \in Plain =>
        /\ i < Place => Finished(Appliers(at)[i])
        /\ i = Place => AtWork(Appliers(at)[i])

\* What is left of the commands follows those that have run.
OrderInv ==
    Applying /\ Current \in Commands =>
        LET n == Cardinality(Entries(Current, Len(log))) IN
        n <= Len(cfg[Current]) /\ todo = SubSeq(cfg[Current], n + 1, Len(cfg[Current]))

\* /etc holds nothing but what this phase has put into it.
Etc == {"Hostname", "DNS", "Password", "DataSource"}
EtcAt(a, i) ==
    /\ i < Place => a \in failed \/ done[a] = Given(cfg, a)
    /\ i = Place => done[a] \in Seq(Texts) /\ done[a] \o todo = Given(cfg, a)
    /\ i > Place => done[a] = << >>
EtcInv ==
    at = "boot" /\ mode = "local" =>
        /\ stage = "read" => \A a \in Etc : done[a] = << >>
        /\ stage = "apply" => \A i \in 1 .. Many :
              Appliers(at)[i] \in Etc => EtcAt(Appliers(at)[i], i)

\* k3s runs as configured once the applier of the phase has had its turn.
K3sAt(a, i) ==
    /\ i = Place => todo \in {<< >>, <<"k3s">>} /\ (mode = "install" => todo = << >>)
    /\ /\ at # "boot" /\ mode # "install" /\ a \notin failed
       /\ i < Place \/ (i = Place /\ todo = << >>)
       => running = <<K3SCommand(cfg)>>
K3sInv ==
    stage = "apply" => \A i \in 1 .. Many :
        Appliers(at)[i] \in K3S => K3sAt(Appliers(at)[i], i)

TempsInv ==
    /\ done["Temps"] \in Seq(Texts) /\ disk["Temps"] \in Seq(Texts)
    /\ Len(done["Temps"]) <= fails + cuts /\ Len(disk["Temps"]) <= fails + cuts

\* Only on the way to the runtime phase the node waits for a cloud.
FetchInv == stage = "fetch" => at = "runtime"

PhasesInv ==
    /\ TypeInv /\ FetchInv /\ DoingInv /\ LogInv /\ TurnInv /\ OrderInv
    /\ EtcInv /\ K3sInv /\ TempsInv
    /\ FilesBeforeCommands /\ CommandsInOrder /\ OthersGoOn /\ EtcIsFresh /\ K3SInTime

----------------------------------------------------------------------------
\* Sequences, the appliers and their items.

LEMMA FromPlace ==
    ASSUME NEW S, NEW s \in Seq(S), NEW k \in 1 .. Len(s)
    PROVE  LET t == SubSeq(s, k, Len(s)) IN
           /\ t \in Seq(S) /\ t # << >> /\ Len(t) = Len(s) - k + 1
           /\ Head(t) = s[k] /\ Tail(t) = SubSeq(s, k + 1, Len(s))
  <1> DEFINE t == SubSeq(s, k, Len(s))
  <1>0. Len(s) \in Nat /\ k \in Nat
    BY LenProperties
  <1>1. t \in Seq(S) /\ Len(t) = Len(s) - k + 1 /\ \A i \in 1 .. Len(s) - k + 1 : t[i] = s[k + i - 1]
    BY <1>0, SubSeqProperties
  <1>2. t # << >> /\ Head(t) = s[k]
    <2>1. Len(t) > 0 /\ t[1] = s[k]
      BY <1>0, <1>1
    <2>2. t # << >>
      <3>1. \A u \in Seq(S) : Len(u) > 0 => u # << >>
        BY EmptySeq
      <3>. QED
        BY <1>1, <2>1, <3>1
    <2>3. Head(t) = t[1]
      OBVIOUS
    <2>. QED
      BY <2>1, <2>2, <2>3
  <1>3. Tail(t) \in Seq(S) /\ Len(Tail(t)) = Len(s) - k
        /\ \A i \in 1 .. Len(s) - k : Tail(t)[i] = s[k + i]
    BY <1>0, <1>1, <1>2, HeadTailProperties
  <1>4. /\ SubSeq(s, k + 1, Len(s)) \in Seq(S) /\ Len(SubSeq(s, k + 1, Len(s))) = Len(s) - k
        /\ \A i \in 1 .. Len(s) - k : SubSeq(s, k + 1, Len(s))[i] = s[k + i]
    <2>1. CASE k = Len(s)
      BY <1>0, <2>1, SubSeqEmpty
    <2>2. CASE k < Len(s)
      BY <1>0, <2>2, SubSeqProperties
    <2>. QED
      BY <1>0, <2>1, <2>2
  <1>5. Tail(t) = SubSeq(s, k + 1, Len(s))
    BY <1>3, <1>4, SeqEqual
  <1>. QED
    BY <1>1, <1>2, <1>5

LEMMA Removed ==
    ASSUME NEW S, NEW s \in Seq(S), NEW i \in DOMAIN s
    PROVE  /\ s # << >> /\ RemoveAt(s, i) \in Seq(S)
           /\ ToSet(RemoveAt(s, i)) \cup {s[i]} = ToSet(s)
           /\ i = 1 => s[i] = Head(s) /\ RemoveAt(s, i) = Tail(s)
  <1>0. Len(s) \in Nat /\ i \in 1 .. Len(s) /\ DOMAIN s = 1 .. Len(s)
    BY LenProperties
  <1>1. s # << >>
    BY <1>0, EmptySeq
  <1> DEFINE l == SubSeq(s, 1, i - 1)
             r == SubSeq(s, i + 1, Len(s))
  <1>2. l \in Seq(S) /\ Len(l) = i - 1 /\ \A k \in 1 .. i - 1 : l[k] = s[k]
    <2>1. CASE i = 1
      BY <1>0, <2>1, SubSeqEmpty
    <2>2. CASE i > 1
      <3>1. 1 \in 1 .. Len(s) /\ i - 1 \in 0 .. Len(s)
        BY <1>0, <2>2
      <3>2. \A k \in 1 .. i - 1 : l[k] = s[1 + k - 1] /\ 1 + k - 1 = k
        BY <1>0, <3>1, SubSeqProperties
      <3>. QED
        BY <1>0, <2>2, <3>1, <3>2, SubSeqProperties
    <2>. QED
      BY <1>0, <2>1, <2>2
  <1>3. r \in Seq(S) /\ Len(r) = Len(s) - i /\ \A k \in 1 .. Len(s) - i : r[k] = s[i + k]
    <2>1. CASE i = Len(s)
      BY <1>0, <2>1, SubSeqEmpty
    <2>2. CASE i < Len(s)
      BY <1>0, <2>2, SubSeqProperties
    <2>. QED
      BY <1>0, <2>1, <2>2
  <1>4. RemoveAt(s, i) = l \o r /\ l \o r \in Seq(S) /\ ToSet(l \o r) = ToSet(l) \cup ToSet(r)
    <2>1. l \o r \in Seq(S) /\ Range(l \o r) = Range(l) \cup Range(r)
      <3>1. l \in Seq(S) /\ r \in Seq(S)
        BY <1>2, <1>3
      <3>2. l \o r \in Seq(S)
        BY <3>1, ConcatProperties
      <3>. QED
        BY <3>1, <3>2, RangeConcatenation
    <2>2. \A t : ToSet(t) = Range(t)
      BY DEF ToSet, Range
    <2>. QED
      BY <2>1, <2>2 DEF RemoveAt
  <1>5. ToSet(l) = {s[k] : k \in 1 .. i - 1}
    BY <1>0, <1>2, LenProperties DEF ToSet
  <1>6. ToSet(r) = {s[k] : k \in i + 1 .. Len(s)}
    <2>1. ToSet(r) = {s[i + k] : k \in 1 .. Len(s) - i}
      BY <1>3, LenProperties DEF ToSet
    <2>2. \A k \in i + 1 .. Len(s) : k - i \in 1 .. Len(s) - i /\ i + (k - i) = k
      BY <1>0
    <2>3. \A k \in 1 .. Len(s) - i : i + k \in i + 1 .. Len(s)
      BY <1>0
    <2>. QED
      BY <2>1, <2>2, <2>3
  <1>7. ToSet(s) = {s[k] : k \in 1 .. Len(s)}
    BY <1>0 DEF ToSet
  <1>8. 1 .. Len(s) = (1 .. i - 1) \cup (i + 1 .. Len(s)) \cup {i}
    BY <1>0
  <1>9. ToSet(RemoveAt(s, i)) \cup {s[i]} = ToSet(s)
    <2>1. ToSet(s) = {s[k] : k \in (1 .. i - 1) \cup (i + 1 .. Len(s)) \cup {i}}
      BY <1>7, <1>8
    <2>2. ToSet(s) = {s[k] : k \in 1 .. i - 1} \cup {s[k] : k \in i + 1 .. Len(s)} \cup {s[i]}
      BY <2>1
    <2>. QED
      BY <1>4, <1>5, <1>6, <2>2
  <1>10. i = 1 => s[i] = Head(s) /\ RemoveAt(s, i) = Tail(s)
    <2>1. ASSUME i = 1 PROVE RemoveAt(s, i) = r /\ r = Tail(s) /\ s[1] = Head(s)
      <3>1. l = << >>
        BY <1>2, <2>1, EmptySeq
      <3>2. r = Tail(s) /\ Head(s) = s[1]
        BY <1>0, <1>1, <1>3, <2>1, HeadTailProperties, SeqEqual
      <3>. QED
        BY <1>3, <1>4, <3>1, <3>2, ConcatEmptySeq
    <2>. QED
      BY <2>1
  <1>. QED
    BY <1>1, <1>4, <1>9, <1>10

LEMMA HeadAndTail ==
    ASSUME NEW S, NEW s \in Seq(S), s # << >>
    PROVE  /\ Head(s) \in S /\ Tail(s) \in Seq(S)
           /\ ToSet(Tail(s)) \cup {Head(s)} = ToSet(s)
  <1>1. 1 \in DOMAIN s
    BY LenProperties, EmptySeq
  <1>. QED
    BY <1>1, Removed, HeadTailProperties

LEMMA Shifted ==
    ASSUME NEW S, NEW s \in Seq(S), NEW t \in Seq(S), t # << >>
    PROVE  Append(s, Head(t)) \in Seq(S) /\ Append(s, Head(t)) \o Tail(t) = s \o t
  <1>0. Len(s) \in Nat /\ Len(t) \in Nat \ {0}
    BY LenProperties, EmptySeq
  <1>1. /\ Head(t) \in S /\ Head(t) = t[1] /\ Tail(t) \in Seq(S) /\ Len(Tail(t)) = Len(t) - 1
        /\ \A i \in 1 .. Len(t) - 1 : Tail(t)[i] = t[i + 1]
    <2>1. Head(t) = t[1]
      OBVIOUS
    <2>. QED
      BY <2>1, HeadTailProperties
  <1>2. /\ Append(s, Head(t)) \in Seq(S) /\ Len(Append(s, Head(t))) = Len(s) + 1
        /\ \A i \in 1 .. Len(s) : Append(s, Head(t))[i] = s[i]
        /\ Append(s, Head(t))[Len(s) + 1] = t[1]
    BY <1>1, AppendProperties
  <1>3. /\ s \o t \in Seq(S) /\ Len(s \o t) = Len(s) + Len(t)
        /\ \A i \in 1 .. Len(s) + Len(t) :
              (s \o t)[i] = IF i <= Len(s) THEN s[i] ELSE t[i - Len(s)]
    BY ConcatProperties
  <1> DEFINE u == Append(s, Head(t)) \o Tail(t)
  <1>4. /\ u \in Seq(S) /\ Len(u) = (Len(s) + 1) + (Len(t) - 1)
        /\ \A i \in 1 .. (Len(s) + 1) + (Len(t) - 1) :
              u[i] = IF i <= Len(s) + 1 THEN Append(s, Head(t))[i] ELSE Tail(t)[i - (Len(s) + 1)]
    BY <1>1, <1>2, ConcatProperties
  <1>5. ASSUME NEW i \in 1 .. Len(u) PROVE u[i] = (s \o t)[i]
    <2>1. CASE i <= Len(s)
      BY <1>0, <1>2, <1>3, <1>4, <2>1
    <2>2. CASE i = Len(s) + 1
      <3>1. i - Len(s) = 1 /\ ~(i <= Len(s)) /\ i \in 1 .. Len(s) + Len(t)
        BY <1>0, <2>2
      <3>. QED
        BY <1>0, <1>2, <1>3, <1>4, <2>2, <3>1
    <2>3. CASE i > Len(s) + 1
      <3>1. /\ i - (Len(s) + 1) \in 1 .. Len(t) - 1 /\ (i - (Len(s) + 1)) + 1 = i - Len(s)
            /\ i \in 1 .. Len(s) + Len(t) /\ ~(i <= Len(s)) /\ ~(i <= Len(s) + 1)
        BY <1>0, <1>4, <2>3
      <3>2. u[i] = t[i - Len(s)]
        BY <1>1, <1>4, <3>1
      <3>. QED
        BY <1>3, <3>1, <3>2
    <2>. QED
      BY <1>0, <1>4, <2>1, <2>2, <2>3
  <1>6. Len(u) = Len(s \o t)
    BY <1>0, <1>3, <1>4
  <1>. QED
    BY <1>2, <1>3, <1>4, <1>5, <1>6, SeqEqual

LEMMA Appended ==
    ASSUME NEW s, s \in Seq(ToSet(s)), NEW e
    PROVE  LET t == Append(s, e) IN
           /\ t \in Seq(ToSet(t)) /\ Len(s) \in Nat /\ Len(t) = Len(s) + 1
           /\ \A i \in 1 .. Len(s) : t[i] = s[i]
           /\ t[Len(s) + 1] = e /\ DOMAIN s = 1 .. Len(s) /\ DOMAIN t = 1 .. Len(s) + 1
  <1> DEFINE S == ToSet(s) \cup {e}
             t == Append(s, e)
  <1>1. s \in Seq(S) /\ e \in S
    <2>1. ToSet(s) \subseteq S
      OBVIOUS
    <2>2. Seq(ToSet(s)) \subseteq Seq(S)
      BY <2>1, SeqMonotonic
    <2>. QED
      BY <2>2
  <1>2. /\ t \in Seq(S) /\ Len(t) = Len(s) + 1 /\ t[Len(s) + 1] = e
        /\ \A i \in 1 .. Len(s) : t[i] = s[i]
    BY <1>1, AppendProperties
  <1>3. Len(s) \in Nat /\ DOMAIN s = 1 .. Len(s) /\ DOMAIN t = 1 .. Len(s) + 1
    BY <1>1, <1>2, LenProperties
  <1>4. t \in Seq(ToSet(t))
    BY <1>2 DEF ToSet
  <1>. QED
    BY <1>2, <1>3, <1>4

\* In a phase an applier has one turn, files are written before commands run, and k3s is
\* set up without a start in the boot phase and with one after it.
LEMMA Phases ==
    ASSUME NEW p \in {"initrd", "boot", "runtime", "install"}
    PROVE  LET s == Appliers(p) IN
           /\ s \in Seq((Fields \ K3sFields) \cup {"Install"} \cup K3S)
           /\ \A i, j \in 1 .. Len(s) : s[i] = s[j] => i = j
           /\ \A i \in 1 .. Len(s) : s[i] \in Commands =>
                 \E j \in 1 .. i - 1 : s[j] = "WriteFiles"
           /\ p \in {"initrd", "boot"} =>
                 \A i \in 1 .. Len(s) : s[i] \in K3S => s[i] = "K3SNoRestart"
           /\ p \in {"runtime", "install"} =>
                 /\ \A i \in 1 .. Len(s) : s[i] # "K3SNoRestart"
                 /\ \E i \in 1 .. Len(s) : s[i] \in K3S
           /\ p = "boot" => \A a \in Etc : \E i \in 1 .. Len(s) : s[i] = a
           /\ Len(s) \in Nat \ {0}
  <1>1. CASE p = "initrd"
    BY <1>1 DEF Appliers, Fields, K3sFields, K3S, Commands, Etc
  <1>2. CASE p = "boot"
    BY <1>2 DEF Appliers, Fields, K3sFields, K3S, Commands, Etc
  <1>3. CASE p = "runtime"
    BY <1>3 DEF Appliers, Fields, K3sFields, K3S, Commands, Etc
  <1>4. CASE p = "install"
    BY <1>4 DEF Appliers, Fields, K3sFields, K3S, Commands, Etc
  <1>. QED
    BY <1>1, <1>2, <1>3, <1>4

\* A phase sets k3s up once, and not in the initrd.
LEMMA OneK3S ==
    ASSUME NEW p \in {"initrd", "boot", "runtime", "install"}
    PROVE  LET s == Appliers(p) IN
           /\ \A i, j \in 1 .. Len(s) : s[i] \in K3S /\ s[j] \in K3S => i = j
           /\ p = "initrd" => \A i \in 1 .. Len(s) : s[i] \notin K3S
  <1>1. CASE p = "initrd"
    BY <1>1 DEF Appliers, K3S
  <1>2. CASE p = "boot"
    BY <1>2 DEF Appliers, K3S
  <1>3. CASE p = "runtime"
    BY <1>3 DEF Appliers, K3S
  <1>4. CASE p = "install"
    BY <1>4 DEF Appliers, K3S
  <1>. QED
    BY <1>1, <1>2, <1>3, <1>4

LEMMA ConfigTypes ==
    /\ Nothing \in [Fields -> Seq(STRING)] /\ Image \in [Fields -> Seq(STRING)]
    /\ \A c \in Locals \cup Userdatas \cup {Nothing} : c \in [Fields -> Seq(STRING)]
  <1>1. Nothing \in [Fields -> Seq(STRING)]
    BY DEF Nothing
  <1>2. {Image} \cup Locals \cup Userdatas \subseteq [Fields -> Seq(STRING)]
    BY ConfigPhasesAssumption
  <1>. QED
    BY <1>1, <1>2

LEMMA ItemsOf ==
    ASSUME NEW c
    PROVE  /\ \A a \in Plain : Items(c, a) = Given(c, a)
           /\ \A a \in K3S : Items(c, a) = IF mode # "install" THEN <<"k3s">> ELSE << >>
  BY DEF Items, Given, Plain, Fields, K3sFields, K3S, K3SApplies

LEMMA GivenType ==
    ASSUME NEW c \in [Fields -> Seq(STRING)], NEW a \in Plain
    PROVE  Given(c, a) \in Seq(Texts)
  <1>1. c[a] \in Seq(STRING)
    BY DEF Plain
  <1>2. c[a] \in Seq(Texts)
    BY <1>1, SeqMonotonic DEF Texts
  <1>3. <<"8.8.8.8">> \in Seq(Texts)
    BY DEF Texts
  <1>. QED
    BY <1>2, <1>3 DEF Given

----------------------------------------------------------------------------
\* The turn passes to the next applier.

\* Whose turn it is, and whose it is next.
LEMMA AtPlace ==
    ASSUME PhasesInv, stage = "apply"
    PROVE  /\ Many \in Nat \ {0} /\ Len(doing) \in Nat /\ Place \in 1 .. Many + 1
           /\ Appliers(at) \in Seq((Fields \ K3sFields) \cup {"Install"} \cup K3S)
           /\ doing = << >> <=> Place = Many + 1
           /\ doing # << >> =>
                 /\ Place \in 1 .. Many /\ Current = Appliers(at)[Place]
                 /\ Tail(doing) = SubSeq(Appliers(at), Place + 1, Many)
                 /\ Len(Tail(doing)) = Many - Place
                 /\ Many - Len(Tail(doing)) + 1 = Place + 1
           /\ Tail(doing) # << >> /\ doing # << >> =>
                 Place < Many /\ Head(Tail(doing)) = Appliers(at)[Place + 1]
  <1> DEFINE S == (Fields \ K3sFields) \cup {"Install"} \cup K3S
  <1>1. Appliers(at) \in Seq(S) /\ Many \in Nat \ {0} /\ at \in {"initrd", "boot", "runtime", "install"}
    BY Phases DEF PhasesInv, TypeInv, Many
  <1>2. /\ Len(doing) \in 0 .. Many /\ doing = SubSeq(Appliers(at), Place, Many)
        /\ Len(doing) \in Nat /\ Place \in 1 .. Many + 1
    BY <1>1 DEF PhasesInv, DoingInv, Place
  <1>3. Len(doing) = 0 => doing = << >>
    <2>1. SUFFICES ASSUME Len(doing) = 0 PROVE doing = << >>
      OBVIOUS
    <2>2. Place = Many + 1
      BY <1>1, <2>1 DEF Place
    <2>. QED
      BY <1>1, <1>2, <2>2, SubSeqEmpty
  <1>4. doing = << >> => Len(doing) = 0
    OBVIOUS
  <1>5. doing = << >> <=> Place = Many + 1
    BY <1>1, <1>2, <1>3, <1>4 DEF Place
  <1>6. ASSUME doing # << >>
        PROVE  /\ Place \in 1 .. Many /\ Current = Appliers(at)[Place]
               /\ Tail(doing) = SubSeq(Appliers(at), Place + 1, Many)
    <2>1. Place \in 1 .. Many
      BY <1>1, <1>2, <1>5, <1>6
    <2>. QED
      BY <1>1, <1>2, <2>1, FromPlace DEF Current, Many
  <1>7. ASSUME doing # << >>
        PROVE  /\ Len(Tail(doing)) = Many - Place /\ Many - Len(Tail(doing)) + 1 = Place + 1
               /\ Tail(doing) # << >> => Place < Many /\ Head(Tail(doing)) = Appliers(at)[Place + 1]
    <2>1. Place \in 1 .. Many /\ Tail(doing) = SubSeq(Appliers(at), Place + 1, Many)
      BY <1>6, <1>7
    <2>2. CASE Place = Many
      <3>1. Tail(doing) = << >>
        BY <1>1, <2>1, <2>2, SubSeqEmpty
      <3>2. Len(<< >>) = 0
        OBVIOUS
      <3>3. Len(Tail(doing)) = 0
        BY Zenon, <3>1, <3>2
      <3>4. 0 = Many - Place /\ Many - 0 + 1 = Place + 1
        BY <1>1, <2>2
      <3>. QED
        BY Zenon, <3>1, <3>3, <3>4
    <2>3. CASE Place < Many
      <3>1. Place + 1 \in 1 .. Many
        BY <1>1, <2>1, <2>3
      <3>2. Place + 1 \in 1 .. Len(Appliers(at)) /\ Many = Len(Appliers(at))
        BY <3>1 DEF Many
      <3>3. /\ Len(Tail(doing)) = Many - (Place + 1) + 1
            /\ Head(Tail(doing)) = Appliers(at)[Place + 1]
        BY <1>1, <2>1, <3>2, FromPlace
      <3>4. Many - (Place + 1) + 1 = Many - Place /\ Many - (Many - Place) + 1 = Place + 1
        BY <1>1, <2>1
      <3>. QED
        BY <2>3, <3>3, <3>4
    <2>4. Place = Many \/ Place < Many
      BY <1>1, <2>1
    <2>. QED
      BY <2>2, <2>3, <2>4
  <1>. QED
    BY <1>1, <1>2, <1>5, <1>6, <1>7

\* It passes when the applier is done with its items, or fails.
PassesOn ==
    /\ Applying /\ Turn(cfg, Tail(doing))
    /\ \/ todo = << >> /\ failed' = failed /\ fails' = fails
       \/ /\ todo # << >> /\ Current # "WriteFiles"
          /\ failed' = failed \cup {Current} /\ fails' = fails + 1
    /\ UNCHANGED <<mode, local, userdata, at, stage, cfg, tmp, log, done, disk, service,
                   running, cuts>>

LEMMA PassesOnPlace ==
    ASSUME PhasesInv, PassesOn
    PROVE  /\ stage = "apply" /\ doing # << >> /\ Place \in 1 .. Many /\ Many \in Nat
           /\ Current = Appliers(at)[Place]
           /\ Many' = Many /\ Place' = Place + 1 /\ Appliers(at)' = Appliers(at)
           /\ doing' = Tail(doing) /\ Len(Tail(doing)) \in 0 .. Many
           /\ Tail(doing) = SubSeq(Appliers(at), Place + 1, Many)
           /\ failed \subseteq failed' /\ (todo = << >> \/ Current \in failed')
           /\ Current = "WriteFiles" => todo = << >>
           /\ Place + 1 \in 1 .. Many =>
                 todo' = Items(cfg, Appliers(at)[Place + 1]) /\ doing' # << >>
                 /\ Current' = Appliers(at)[Place + 1]
           /\ doing' # << >> => Place + 1 \in 1 .. Many
  <1>1. stage = "apply" /\ doing # << >>
    BY DEF PassesOn, Applying
  <1>2. /\ Place \in 1 .. Many /\ Many \in Nat /\ Current = Appliers(at)[Place]
        /\ Tail(doing) = SubSeq(Appliers(at), Place + 1, Many)
        /\ Len(Tail(doing)) = Many - Place /\ Many - Len(Tail(doing)) + 1 = Place + 1
        /\ Tail(doing) # << >> =>
                 Place < Many /\ Head(Tail(doing)) = Appliers(at)[Place + 1]
    BY <1>1, AtPlace
  <1>3. /\ doing' = Tail(doing) /\ Appliers(at)' = Appliers(at)
        /\ todo' = IF Tail(doing) = << >> THEN << >> ELSE Items(cfg, Head(Tail(doing)))
    BY DEF PassesOn, Turn, Appliers
  <1>4. Many' = Many /\ Place' = Place + 1
    BY <1>2, <1>3 DEF Many, Place
  <1>5. failed \subseteq failed' /\ (todo = << >> \/ Current \in failed')
        /\ (Current = "WriteFiles" => todo = << >>)
    BY DEF PassesOn
  <1>6. Place + 1 \in 1 .. Many => Tail(doing) # << >>
    BY <1>2
  <1>7. Tail(doing) # << >> => Place + 1 \in 1 .. Many
    BY <1>2
  <1>8. Current' = Head(Tail(doing))
    BY <1>3 DEF Current
  <1>. QED
    BY <1>1, <1>2, <1>3, <1>4, <1>5, <1>6, <1>7, <1>8, SMTT(20)

LEMMA SameLog ==
    ASSUME log' = log
    PROVE  \A a : Did(a)' = Did(a) /\ \A n : Entries(a, n)' = Entries(a, n)
  BY DEF Did, Entries

LEMMA SameOrder ==
    ASSUME PhasesInv, log' = log, cfg' = cfg, failed \subseteq failed'
    PROVE  FilesBeforeCommands' /\ CommandsInOrder'
  <1>1. FilesBeforeCommands'
    BY DEF PhasesInv, FilesBeforeCommands
  <1>2. CommandsInOrder'
    BY DEF PhasesInv, CommandsInOrder, Entries
  <1>. QED
    BY <1>1, <1>2

LEMMA NotYet ==
    ASSUME PhasesInv, stage = "apply", NEW i \in 1 .. Many, i > Place
    PROVE  Entries(Appliers(at)[i], Len(log)) = {} /\ Did(Appliers(at)[i]) = {}
  <1>1. log \in Seq(ToSet(log)) /\ DOMAIN log = 1 .. Len(log)
    BY LenProperties DEF PhasesInv, TypeInv
  <1>2. ASSUME NEW j \in 1 .. Len(log) PROVE log[j][1] # Appliers(at)[i]
    <2>1. PICK k \in 1 .. Many : k <= Place /\ log[j][1] = Appliers(at)[k]
      BY <1>1 DEF PhasesInv, LogInv, Place, Applying, Current, Appliers, Entries
    <2>2. \A l, k2 \in 1 .. Many : Appliers(at)[l] = Appliers(at)[k2] => l = k2
      BY Phases DEF PhasesInv, TypeInv, Many
    <2>3. k # i
      BY <2>1, AtPlace
    <2>. QED
      BY <2>1, <2>2, <2>3
  <1>. QED
    BY <1>2 DEF Entries, Did

LEMMA PassesOnPlain ==
    ASSUME PhasesInv, PassesOn
    PROVE  /\ TypeInv' /\ DoingInv' /\ LogInv' /\ TempsInv' /\ FilesBeforeCommands'
           /\ CommandsInOrder' /\ OthersGoOn' /\ EtcIsFresh' /\ K3SInTime' /\ FetchInv'
  <1>1. /\ stage' = "apply" /\ at' = at /\ cfg' = cfg /\ log' = log /\ failed \subseteq failed'
        /\ tmp' = tmp /\ ~tmp /\ doing # << >> /\ fails \in Nat /\ cuts \in Nat
        /\ fails' \in {fails, fails + 1} /\ cuts' = cuts /\ done' = done /\ disk' = disk
        /\ running' = running /\ service' = service /\ mode' = mode
        /\ local' = local /\ userdata' = userdata
    BY PassesOnPlace DEF PassesOn, Applying, PhasesInv, TypeInv, DoingInv
  <1>2. TypeInv'
    BY <1>1 DEF PhasesInv, TypeInv
  <1>3. DoingInv'
    <2>1. Len(doing') \in 0 .. Many' /\ doing' = SubSeq(Appliers(at)', Place', Many')
      BY PassesOnPlace
    <2>. QED
      BY <1>1, <2>1 DEF DoingInv
  <1>4. LogInv'
    <2>1. Many' = Many /\ Place' = Place + 1 /\ Appliers(at)' = Appliers(at) /\ Place \in 1 .. Many
          /\ Many \in Nat /\ stage = "apply"
      BY PassesOnPlace
    <2>2. \A j \in DOMAIN log : \E i \in 1 .. Many : i <= Place + 1 /\ log[j][1] = Appliers(at)[i]
      BY <2>1 DEF PhasesInv, LogInv
    <2>. QED
      BY <1>1, <2>1, <2>2 DEF PhasesInv, LogInv
  <1>5. TempsInv'
    <2>1. fails + cuts <= fails' + cuts' /\ fails + cuts \in Nat /\ fails' + cuts' \in Nat
      <3>1. fails' = fails \/ fails' = fails + 1
        BY <1>1
      <3>2. cuts' = cuts /\ fails \in Nat /\ cuts \in Nat
        BY <1>1
      <3>. QED
        BY <3>1, <3>2
    <2>2. Len(done["Temps"]) \in Nat /\ Len(disk["Temps"]) \in Nat
      BY LenProperties DEF PhasesInv, TempsInv
    <2>. QED
      BY <1>1, <2>1, <2>2 DEF PhasesInv, TempsInv
  <1>6. FilesBeforeCommands' /\ CommandsInOrder'
    BY <1>1, SameOrder
  <1>7. FetchInv' /\ OthersGoOn' /\ EtcIsFresh' /\ K3SInTime'
    BY <1>1
    DEF FetchInv, PhasesInv, OthersGoOn, EtcIsFresh, K3SInTime,
        K3SAsConfigured, NotBeforeRuntime, Up
  <1>. QED
    BY <1>2, <1>3, <1>4, <1>5, <1>6, <1>7

LEMMA PassesOnTurn ==
    ASSUME PhasesInv, PassesOn
    PROVE  TurnInv' /\ OrderInv'
  <1>1. /\ stage' = "apply" /\ cfg' = cfg /\ log' = log /\ failed \subseteq failed'
        /\ stage = "apply" /\ \A a : Did(a)' = Did(a)
    BY PassesOnPlace, SameLog DEF PassesOn
  <1>2. /\ Many' = Many /\ Place' = Place + 1 /\ Appliers(at)' = Appliers(at)
        /\ Place \in 1 .. Many /\ Many \in Nat
    BY PassesOnPlace
  <1>3. ASSUME NEW i \in 1 .. Many, Appliers(at)[i] \in Plain, i < Place + 1
        PROVE  Finished(Appliers(at)[i])'
    <2> DEFINE a == Appliers(at)[i]
    <2>1. PICK b \in Plain : b = a
      BY <1>3
    <2>2. CASE i < Place
      <3>1. Finished(b)
        BY <1>1, <1>3, <2>1, <2>2 DEF PhasesInv, TurnInv
      <3>2. Finished(b)'
        BY <1>1, <3>1 DEF Finished, Excused
      <3>. QED
        BY <1>2, <2>1, <3>2
    <2>3. CASE i = Place
      <3>1. AtWork(b) /\ b = Current
        BY <1>1, <1>3, <2>1, <2>3, PassesOnPlace DEF PhasesInv, TurnInv
      <3>2. Finished(b)'
        <4>1. CASE todo = << >>
          <5>1. ToSet(todo) = {}
            BY <4>1 DEF ToSet
          <5>. QED
            BY <1>1, <3>1, <5>1 DEF AtWork, Finished, Excused
        <4>2. CASE todo # << >>
          <5>1. b \in failed' /\ b # "WriteFiles"
            BY <3>1, <4>2, PassesOnPlace
          <5>. QED
            BY <1>1, <3>1, <5>1 DEF AtWork, Finished, Excused
        <4>. QED
          BY <4>1, <4>2
      <3>. QED
        BY <1>2, <2>1, <3>2
    <2>. QED
      BY <1>2, <1>3, <2>2, <2>3
  <1>4. ASSUME NEW i \in 1 .. Many, Appliers(at)[i] \in Plain, i = Place + 1
        PROVE  AtWork(Appliers(at)[i])'
    <2>1. PICK b \in Plain : b = Appliers(at)[i]
      BY <1>4
    <2>2. Did(b) = {}
      BY <1>1, <1>2, <1>4, <2>1, NotYet
    <2>3. todo' = Given(cfg, b)
      BY <1>4, <2>1, PassesOnPlace, ItemsOf
    <2>4. Given(cfg, b) \in Seq(Texts)
      BY GivenType DEF PhasesInv, TypeInv
    <2>5. AtWork(b)'
      BY <1>1, <2>2, <2>3, <2>4 DEF AtWork, Given
    <2>. QED
      BY <1>2, <2>1, <2>5
  <1>5. TurnInv'
    <2>1. \A i \in 1 .. Many : (Appliers(at)[i])' = Appliers(at)[i]
      BY <1>2
    <2>. QED
      BY <1>1, <1>2, <1>3, <1>4, <2>1 DEF TurnInv
  <1>6. OrderInv'
    <2>1. SUFFICES ASSUME doing' # << >>, Current' \in Commands PROVE OrderInv'
      BY DEF OrderInv, Applying
    <2>2. PICK b \in Commands : b = Current'
      BY <2>1
    <2>3. /\ Place + 1 \in 1 .. Many /\ b = Appliers(at)[Place + 1] /\ todo' = Items(cfg, b)
      BY <2>1, <2>2, PassesOnPlace
    <2>4. Entries(b, Len(log)) = {} /\ Place + 1 > Place
      BY <1>1, <1>2, <2>3, NotYet
    <2>5. todo' = cfg[b] /\ b \in Fields
      <3>1. b \in Plain /\ b # "DNS" /\ b \in Fields
        BY <2>2 DEF Commands, Plain, Fields
      <3>. QED
        BY <2>3, <3>1, ItemsOf DEF Given
    <2>6. cfg[b] \in Seq(STRING)
      BY <2>5 DEF PhasesInv, TypeInv
    <2>7. 0 <= Len(cfg[b]) /\ cfg[b] = SubSeq(cfg[b], 0 + 1, Len(cfg[b]))
      BY <2>6, SubSeqFull, LenProperties
    <2>8. Cardinality(Entries(b, Len(log))') = 0
      BY <1>1, <2>4, SameLog, FS_EmptySet
    <2>. QED
      BY <1>1, <2>2, <2>5, <2>7, <2>8 DEF OrderInv, Entries
  <1>. QED
    BY <1>5, <1>6

LEMMA PassesOnEffects ==
    ASSUME PhasesInv, PassesOn
    PROVE  EtcInv' /\ K3sInv'
  <1>1. /\ stage' = "apply" /\ cfg' = cfg /\ failed \subseteq failed' /\ at' = at /\ mode' = mode
        /\ stage = "apply" /\ done' = done /\ running' = running
    BY PassesOnPlace DEF PassesOn
  <1>2. /\ Many' = Many /\ Place' = Place + 1 /\ Appliers(at)' = Appliers(at)
        /\ Place \in 1 .. Many /\ Many \in Nat
    BY PassesOnPlace
  <1>3. ASSUME at = "boot", mode = "local", NEW i \in 1 .. Many, Appliers(at)[i] \in Etc
        PROVE  EtcAt(Appliers(at)[i], i)'
    <2>1. PICK b \in Etc : b = Appliers(at)[i]
      BY <1>3
    <2>2. EtcAt(b, i)
      BY <1>1, <1>3, <2>1 DEF PhasesInv, EtcInv
    <2>3. b \in Plain
      BY DEF Etc, Plain, Fields
    <2>4. ASSUME i < Place PROVE EtcAt(b, i)'
      BY <1>1, <1>2, <2>2, <2>4 DEF EtcAt
    <2>5. ASSUME i = Place PROVE EtcAt(b, i)'
      <3>1. b = Current /\ done[b] \in Seq(Texts) /\ done[b] \o todo = Given(cfg, b)
        BY <2>1, <2>2, <2>5, PassesOnPlace DEF EtcAt
      <3>2. todo = << >> => done[b] = Given(cfg, b)
        BY <3>1, ConcatEmptySeq
      <3>3. b \in failed' \/ done[b] = Given(cfg, b)
        BY <3>1, <3>2, PassesOnPlace
      <3>. QED
        BY <1>1, <1>2, <2>5, <3>3 DEF EtcAt
    <2>6. ASSUME i > Place PROVE EtcAt(b, i)'
      <3>1. done[b] = << >>
        BY <2>2, <2>6 DEF EtcAt
      <3>2. i = Place + 1 => todo' = Given(cfg, b)
        BY <2>1, <2>3, PassesOnPlace, ItemsOf
      <3>3. Given(cfg, b) \in Seq(Texts)
        BY <2>3, GivenType DEF PhasesInv, TypeInv
      <3>4. << >> \in Seq(Texts) /\ << >> \o Given(cfg, b) = Given(cfg, b)
        BY <3>3, ConcatEmptySeq
      <3>. QED
        BY <1>1, <1>2, <2>6, <3>1, <3>2, <3>4 DEF EtcAt, Given
    <2>7. EtcAt(b, i)'
      BY <1>2, <1>3, <2>4, <2>5, <2>6
    <2>. QED
      BY <1>2, <2>1, <2>7
  <1>4. EtcInv'
    BY <1>1, <1>2, <1>3 DEF EtcInv
  <1>5. ASSUME NEW i \in 1 .. Many, Appliers(at)[i] \in K3S
        PROVE  K3sAt(Appliers(at)[i], i)'
    <2>1. PICK b \in K3S : b = Appliers(at)[i]
      BY <1>5
    <2>2. K3sAt(b, i)
      BY <1>1, <1>5, <2>1 DEF PhasesInv, K3sInv
    <2>3. ASSUME i < Place PROVE K3sAt(b, i)'
      BY <1>1, <1>2, <2>2, <2>3 DEF K3sAt, K3SCommand
    <2>4. ASSUME i = Place PROVE K3sAt(b, i)'
      <3>1. b = Current /\ (todo = << >> \/ b \in failed')
        BY <2>1, <2>4, PassesOnPlace
      <3>. QED
        BY <1>1, <1>2, <2>2, <2>4, <3>1 DEF K3sAt, K3SCommand
    <2>5. ASSUME i > Place PROVE K3sAt(b, i)'
      <3>1. i = Place + 1 => todo' = IF mode # "install" THEN <<"k3s">> ELSE << >>
        BY <2>1, PassesOnPlace, ItemsOf
      <3>. QED
        BY <1>1, <1>2, <2>5, <3>1 DEF K3sAt
    <2>6. K3sAt(b, i)'
      BY <1>2, <1>5, <2>3, <2>4, <2>5
    <2>. QED
      BY <1>2, <2>1, <2>6
  <1>6. K3sInv'
    BY <1>1, <1>2, <1>5 DEF K3sInv
  <1>. QED
    BY <1>4, <1>6

LEMMA PassesOnKeeps ==
    ASSUME PhasesInv, PassesOn
    PROVE  PhasesInv'
  BY PassesOnPlain, PassesOnTurn, PassesOnEffects DEF PhasesInv

LEMMA FailKeeps ==
    ASSUME PhasesInv, Fail
    PROVE  PhasesInv'
  <1>1. PassesOn
    BY DEF Fail, After, PassesOn, node, phase, effects
  <1>. QED
    BY <1>1, PassesOnKeeps

LEMMA AdvanceKeeps ==
    ASSUME PhasesInv, Advance
    PROVE  PhasesInv'
  <1>1. PassesOn
    BY DEF Advance, After, PassesOn, node, phase, effects, budget
  <1>. QED
    BY <1>1, PassesOnKeeps

----------------------------------------------------------------------------
\* An item takes effect.

\* What is left of the list is the rest of it; of the sysctls, anything but the item.
ItemDone(item) ==
    /\ Applying /\ Current \notin K3S
    /\ TookEffect(item)
    /\ Current \in Plain =>
          /\ todo # << >> /\ todo' \in Seq(Texts) /\ ToSet(todo') \cup {item} = ToSet(todo)
          /\ Current # "Sysctls" => item = Head(todo) /\ todo' = Tail(todo)
    /\ tmp' \in BOOLEAN /\ ~tmp'
    /\ UNCHANGED <<mode, local, userdata, at, stage, cfg, doing, failed, disk, service,
                   running, fails, cuts>>

LEMMA ItemDonePlace ==
    ASSUME PhasesInv, NEW item, ItemDone(item)
    PROVE  /\ stage = "apply" /\ stage' = "apply" /\ doing # << >> /\ Place \in 1 .. Many
           /\ Many \in Nat /\ Current = Appliers(at)[Place]
           /\ Many' = Many /\ Place' = Place /\ Appliers(at)' = Appliers(at)
           /\ Current' = Current /\ cfg' = cfg /\ failed' = failed /\ doing' = doing
           /\ log' = Append(log, <<Current, item>>) /\ log' \in Seq(ToSet(log'))
           /\ Len(log) \in Nat /\ Len(log') = Len(log) + 1 /\ DOMAIN log = 1 .. Len(log)
           /\ DOMAIN log' = 1 .. Len(log) + 1 /\ log'[Len(log) + 1] = <<Current, item>>
           /\ \A j \in 1 .. Len(log) : log'[j] = log[j]
           /\ \A i \in 1 .. Many : i # Place => Appliers(at)[i] # Current
  <1>1. stage = "apply" /\ doing # << >>
    BY DEF ItemDone, Applying
  <1>2. Place \in 1 .. Many /\ Many \in Nat /\ Current = Appliers(at)[Place]
    BY <1>1, AtPlace
  <1>3. /\ stage' = stage /\ at' = at /\ cfg' = cfg /\ failed' = failed /\ doing' = doing
        /\ log' = Append(log, <<Current, item>>)
    BY DEF ItemDone, TookEffect
  <1>4. Many' = Many /\ Place' = Place /\ Appliers(at)' = Appliers(at) /\ Current' = Current
    BY <1>3 DEF Many, Place, Appliers, Current
  <1>5. \A i, j \in 1 .. Many : Appliers(at)[i] = Appliers(at)[j] => i = j
    BY Phases DEF PhasesInv, TypeInv, Many
  <1>6. log \in Seq(ToSet(log))
    BY DEF PhasesInv, TypeInv
  <1>. QED
    BY <1>1, <1>2, <1>3, <1>4, <1>5, <1>6, Appended

\* It is one more entry of its applier in the log.
LEMMA ItemDoneLog ==
    ASSUME PhasesInv, NEW item, ItemDone(item)
    PROVE  /\ \A a, n : n \in 0 .. Len(log) => Entries(a, n)' = Entries(a, n)
           /\ Entries(Current, Len(log))' = Entries(Current, Len(log)) \cup {Len(log) + 1}
           /\ \A a : a # Current => Entries(a, Len(log))' = Entries(a, Len(log))
           /\ Did(Current)' = Did(Current) \cup {item}
           /\ \A a : a # Current => Did(a)' = Did(a)
  <1>1. /\ Len(log) \in Nat /\ Len(log') = Len(log) + 1 /\ log'[Len(log) + 1] = <<Current, item>>
        /\ \A j \in 1 .. Len(log) : log'[j] = log[j]
        /\ 1 .. Len(log) + 1 = (1 .. Len(log)) \cup {Len(log) + 1}
    BY ItemDonePlace
  <1>2. <<Current, item>>[1] = Current /\ <<Current, item>>[2] = item
    OBVIOUS
  <1>3. ASSUME NEW a, NEW n \in 0 .. Len(log) PROVE Entries(a, n)' = Entries(a, n)
    <2>1. \A i \in 1 .. n : log'[i] = log[i]
      BY <1>1
    <2>. QED
      BY <2>1 DEF Entries
  <1>4. \A a : /\ a = Current => {i \in 1 .. Len(log) + 1 : log'[i][1] = a}
                                   = {i \in 1 .. Len(log) : log[i][1] = a} \cup {Len(log) + 1}
               /\ a # Current => {i \in 1 .. Len(log) + 1 : log'[i][1] = a}
                                   = {i \in 1 .. Len(log) : log[i][1] = a}
    BY <1>1, <1>2
  <1>5. \A a : /\ a = Current => {log'[i][2] : i \in {k \in 1 .. Len(log) + 1 : log'[k][1] = a}}
                                   = Did(a) \cup {item}
               /\ a # Current => {log'[i][2] : i \in {k \in 1 .. Len(log) + 1 : log'[k][1] = a}}
                                   = Did(a)
    BY <1>1, <1>2, <1>4 DEF Did, Entries
  <1>6. Current' = Current
    BY ItemDonePlace
  <1>7. \A a : /\ Entries(a, Len(log))' = {i \in 1 .. Len(log) + 1 : log'[i][1] = a}
               /\ Did(a)' = {log'[i][2] : i \in {k \in 1 .. Len(log) + 1 : log'[k][1] = a}}
    BY <1>1 DEF Entries, Did
  <1>8. \A a : /\ a = Current => Entries(a, Len(log))' = Entries(a, Len(log)) \cup {Len(log) + 1}
               /\ a # Current => Entries(a, Len(log))' = Entries(a, Len(log))
    BY <1>4, <1>7 DEF Entries
  <1>9. \A a : /\ a = Current => Did(a)' = Did(a) \cup {item}
               /\ a # Current => Did(a)' = Did(a)
    BY <1>5, <1>7
  <1>10. PICK c : c = Current
    OBVIOUS
  <1>11. /\ Entries(c, Len(log))' = Entries(c, Len(log)) \cup {Len(log) + 1}
         /\ Did(c)' = Did(c) \cup {item}
    BY <1>8, <1>9, <1>10
  <1>. QED
    BY <1>3, <1>6, <1>8, <1>9, <1>10, <1>11 DEF Did, Entries

LEMMA EntriesFinite ==
    ASSUME NEW a, NEW n \in Nat
    PROVE  IsFiniteSet(Entries(a, n)) /\ Cardinality(Entries(a, n)) \in Nat
  <1>1. IsFiniteSet(1 .. n)
    BY FS_Interval
  <1>2. Entries(a, n) \subseteq 1 .. n
    BY DEF Entries
  <1>. QED
    BY <1>1, <1>2, FS_Subset, FS_CardinalityType

LEMMA ItemDonePlain ==
    ASSUME PhasesInv, NEW item, ItemDone(item)
    PROVE  /\ TypeInv' /\ DoingInv' /\ LogInv' /\ TempsInv' /\ K3sInv'
           /\ OthersGoOn' /\ EtcIsFresh' /\ K3SInTime' /\ FetchInv'
  <1>1. /\ stage = "apply" /\ stage' = "apply" /\ doing # << >> /\ doing' = doing
        /\ Place \in 1 .. Many /\ Many' = Many /\ Place' = Place /\ Appliers(at)' = Appliers(at)
        /\ Current = Appliers(at)[Place] /\ Many \in Nat
    BY ItemDonePlace
  <1>2. /\ done' = [done EXCEPT ![Current] = Append(@, item)]
        /\ ~tmp' /\ tmp' \in BOOLEAN /\ Current \notin K3S
        /\ UNCHANGED <<mode, local, userdata, at, stage, cfg, doing, failed, disk, service,
                       running, fails, cuts>>
    BY DEF ItemDone, TookEffect, InEffect
  <1>3. TypeInv'
    <2>1. log' \in Seq(ToSet(log'))
      BY ItemDonePlace
    <2>2. DOMAIN done' = Effects
      BY <1>2 DEF PhasesInv, TypeInv
    <2>. QED
      BY <1>2, <2>1, <2>2 DEF PhasesInv, TypeInv
  <1>4. DoingInv'
    BY <1>1, <1>2 DEF PhasesInv, DoingInv
  <1>5. LogInv'
    <2>1. /\ DOMAIN log = 1 .. Len(log) /\ DOMAIN log' = 1 .. Len(log) + 1 /\ Len(log) \in Nat
          /\ log'[Len(log) + 1] = <<Current, item>>
          /\ \A j \in 1 .. Len(log) : log'[j] = log[j]
      BY ItemDonePlace
    <2>2. \A j \in 1 .. Len(log) : /\ log[j] = <<log[j][1], log[j][2]>>
                                   /\ \E i \in 1 .. Many : i <= Place /\ log[j][1] = Appliers(at)[i]
      BY <1>1, <2>1 DEF PhasesInv, LogInv
    <2>3. <<Current, item>>[1] = Current /\ <<Current, item>>[2] = item /\ Place <= Place
      BY <1>1
    <2>4. ASSUME NEW j \in 1 .. Len(log) + 1
          PROVE  /\ log'[j] = <<log'[j][1], log'[j][2]>>
                 /\ \E i \in 1 .. Many : i <= Place /\ log'[j][1] = Appliers(at)[i]
      <3>1. CASE j \in 1 .. Len(log)
        BY <2>1, <2>2, <3>1
      <3>2. CASE j = Len(log) + 1
        BY <1>1, <2>1, <2>3, <3>2
      <3>. QED
        BY <2>1, <3>1, <3>2
    <2>. QED
      BY <1>1, <2>1, <2>4 DEF LogInv
  <1>6. TempsInv'
    <2>1. Current # "Temps"
      <3>1. Current \in (Fields \ K3sFields) \cup {"Install"} \cup K3S
        BY <1>1, AtPlace, ElementOfSeq DEF Many
      <3>. QED
        BY <3>1 DEF Fields, K3sFields, K3S
    <2>2. "Temps" \in DOMAIN done
      BY DEF PhasesInv, TypeInv, Effects
    <2>. QED
      BY <1>2, <2>1, <2>2 DEF PhasesInv, TempsInv
  <1>7. K3sInv'
    <2>1. ASSUME NEW i \in 1 .. Many, Appliers(at)[i] \in K3S
          PROVE  K3sAt(Appliers(at)[i], i)'
      <3>1. i # Place
        BY <1>1, <1>2, <2>1
      <3>2. PICK b \in K3S : b = Appliers(at)[i]
        BY <2>1
      <3>3. K3sAt(b, i)
        BY <1>1, <2>1, <3>2 DEF PhasesInv, K3sInv
      <3>4. K3sAt(b, i)'
        BY <1>1, <1>2, <3>1, <3>3 DEF K3sAt, K3SCommand
      <3>. QED
        BY <1>1, <3>2, <3>4
    <2>. QED
      BY <1>1, <2>1 DEF K3sInv
  <1>8. FetchInv' /\ OthersGoOn' /\ EtcIsFresh' /\ K3SInTime'
    BY <1>1, <1>2
    DEF FetchInv, PhasesInv, OthersGoOn, EtcIsFresh, K3SInTime,
        K3SAsConfigured, NotBeforeRuntime, Up
  <1>. QED
    BY <1>3, <1>4, <1>5, <1>6, <1>7, <1>8

LEMMA ItemDoneTurn ==
    ASSUME PhasesInv, NEW item, ItemDone(item)
    PROVE  TurnInv' /\ EtcInv'
  <1>1. /\ stage = "apply" /\ stage' = "apply" /\ cfg' = cfg /\ failed' = failed
        /\ Place \in 1 .. Many /\ Many' = Many /\ Place' = Place /\ Appliers(at)' = Appliers(at)
        /\ Current = Appliers(at)[Place] /\ Many \in Nat
        /\ \A i \in 1 .. Many : i # Place => Appliers(at)[i] # Current
    BY ItemDonePlace
  <1>2. /\ done' = [done EXCEPT ![Current] = Append(@, item)]
        /\ at' = at /\ mode' = mode /\ stage' = stage
        /\ Current \in Plain =>
             /\ todo # << >> /\ todo' \in Seq(Texts) /\ ToSet(todo') \cup {item} = ToSet(todo)
             /\ Current # "Sysctls" => item = Head(todo) /\ todo' = Tail(todo)
    BY DEF ItemDone, TookEffect, InEffect
  <1>3. ASSUME NEW i \in 1 .. Many, Appliers(at)[i] \in Plain, i < Place
        PROVE  Finished(Appliers(at)[i])'
    <2>1. PICK b \in Plain : b = Appliers(at)[i]
      BY <1>3
    <2>2. Finished(b) /\ b # Current
      BY <1>1, <1>3, <2>1 DEF PhasesInv, TurnInv
    <2>3. Did(b)' = Did(b)
      BY <2>2, ItemDoneLog
    <2>4. Finished(b)'
      BY <1>1, <2>2, <2>3 DEF Finished, Excused
    <2>. QED
      BY <1>1, <2>1, <2>4
  <1>4. ASSUME NEW i \in 1 .. Many, Appliers(at)[i] \in Plain, i = Place
        PROVE  AtWork(Appliers(at)[i])'
    <2>1. PICK b \in Plain : b = Appliers(at)[i]
      BY <1>4
    <2>2. AtWork(b) /\ b = Current
      BY <1>1, <1>4, <2>1 DEF PhasesInv, TurnInv
    <2>3. Did(b)' = Did(b) \cup {item}
      <3>1. Current' = Current
        BY ItemDonePlace
      <3>. QED
        BY <2>2, <3>1, ItemDoneLog DEF Did
    <2>4. todo' \in Seq(Texts) /\ ToSet(todo)' \cup {item} = ToSet(todo)
      BY <1>2, <2>2 DEF ToSet
    <2>5. AtWork(b)'
      BY <1>1, <2>2, <2>3, <2>4 DEF AtWork, Excused
    <2>. QED
      BY <1>1, <2>1, <2>5
  <1>5. TurnInv'
    BY <1>1, <1>3, <1>4 DEF TurnInv
  <1>6. ASSUME at = "boot", mode = "local", NEW i \in 1 .. Many, Appliers(at)[i] \in Etc
        PROVE  EtcAt(Appliers(at)[i], i)'
    <2>1. PICK b \in Etc : b = Appliers(at)[i]
      BY <1>6
    <2>2. EtcAt(b, i) /\ b \in DOMAIN done /\ b \in Plain /\ b # "Sysctls"
      BY <1>1, <1>6, <2>1 DEF PhasesInv, EtcInv, TypeInv, Effects, Fields, K3sFields, Etc, Plain
    <2>3. CASE i = Place
      <3>1. b = Current /\ done[b] \in Seq(Texts) /\ done[b] \o todo = Given(cfg, b)
        BY <1>1, <2>1, <2>2, <2>3 DEF EtcAt
      <3>2. todo # << >> /\ todo \in Seq(Texts) /\ item = Head(todo) /\ todo' = Tail(todo)
        BY <1>1, <1>2, <2>1, <2>2, <2>3, <3>1 DEF PhasesInv, TurnInv, AtWork
      <3>3. done'[b] = Append(done[b], Head(todo))
        BY <1>2, <2>2, <3>1, <3>2
      <3>4. /\ Append(done[b], Head(todo)) \in Seq(Texts)
            /\ Append(done[b], Head(todo)) \o Tail(todo) = done[b] \o todo
        BY <3>1, <3>2, Shifted
      <3>5. EtcAt(b, i)'
        BY <1>1, <2>3, <3>1, <3>2, <3>3, <3>4, SMTT(20) DEF EtcAt, Given
      <3>. QED
        BY <1>1, <2>1, <3>5
    <2>4. CASE i # Place
      <3>1. done'[b] = done[b]
        BY <1>1, <1>2, <2>1, <2>2, <2>4
      <3>2. EtcAt(b, i)'
        BY <1>1, <2>2, <2>4, <3>1 DEF EtcAt, Given
      <3>. QED
        BY <1>1, <2>1, <3>2
    <2>. QED
      BY <2>3, <2>4
  <1>7. EtcInv'
    BY <1>1, <1>2, <1>6 DEF EtcInv
  <1>. QED
    BY <1>5, <1>7

LEMMA ItemDoneOrder ==
    ASSUME PhasesInv, NEW item, ItemDone(item)
    PROVE  OrderInv' /\ CommandsInOrder' /\ FilesBeforeCommands'
  <1>1. /\ stage = "apply" /\ stage' = "apply" /\ cfg' = cfg /\ failed' = failed
        /\ doing' = doing /\ doing # << >> /\ Place \in 1 .. Many /\ Many \in Nat
        /\ Current = Appliers(at)[Place] /\ Current' = Current
        /\ Len(log) \in Nat /\ Len(log') = Len(log) + 1
        /\ DOMAIN log = 1 .. Len(log) /\ DOMAIN log' = 1 .. Len(log) + 1
        /\ log'[Len(log) + 1] = <<Current, item>>
        /\ \A j \in 1 .. Len(log) : log'[j] = log[j]
    BY ItemDonePlace
  <1>2. <<Current, item>>[1] = Current /\ <<Current, item>>[2] = item
    OBVIOUS
  <1>3. PICK c : c = Current
    OBVIOUS
  <1>4. Entries(c, Len(log))' = Entries(c, Len(log)) \cup {Len(log) + 1}
    BY <1>1, <1>3, ItemDoneLog DEF Entries
  <1> DEFINE n == Cardinality(Entries(c, Len(log)))
  <1>5. n \in Nat /\ Cardinality(Entries(c, Len(log))') = n + 1
    <2>1. Len(log) + 1 \notin Entries(c, Len(log))
      BY <1>1 DEF Entries
    <2>. QED
      BY <1>1, <1>4, <2>1, EntriesFinite, FS_AddElement
  <1>6. ASSUME c \in Commands
        PROVE  /\ n + 1 <= Len(cfg[c]) /\ item = cfg[c][n + 1]
               /\ todo' = SubSeq(cfg[c], n + 2, Len(cfg[c]))
    <2>1. c \in Plain /\ c # "Sysctls" /\ c \in Fields
      BY <1>6 DEF Commands, Plain, Fields
    <2>2. cfg[c] \in Seq(STRING) /\ Len(cfg[c]) \in Nat
      BY <2>1, LenProperties DEF PhasesInv, TypeInv
    <2>3. n <= Len(cfg[c]) /\ todo = SubSeq(cfg[c], n + 1, Len(cfg[c]))
      BY <1>1, <1>3, <1>6 DEF PhasesInv, OrderInv, Applying
    <2>4. todo # << >> /\ item = Head(todo) /\ todo' = Tail(todo)
      BY <1>3, <2>1 DEF ItemDone
    <2>5. n + 1 <= Len(cfg[c])
      <3>1. n = Len(cfg[c]) => todo = << >>
        BY <1>5, <2>2, <2>3, SubSeqEmpty
      <3>. QED
        BY <1>5, <2>2, <2>3, <2>4, <3>1
    <2>6. n + 1 \in 1 .. Len(cfg[c]) /\ (n + 1) + 1 = n + 2
      BY <1>5, <2>2, <2>5
    <2>7. Head(todo) = cfg[c][n + 1] /\ Tail(todo) = SubSeq(cfg[c], (n + 1) + 1, Len(cfg[c]))
      BY <2>2, <2>3, <2>6, FromPlace
    <2>. QED
      BY <2>4, <2>5, <2>6, <2>7
  <1>7. OrderInv'
    <2>1. ASSUME c \in Commands
          PROVE  /\ n + 1 <= Len(cfg[c]) /\ todo' = SubSeq(cfg[c], (n + 1) + 1, Len(cfg[c]))
      BY <1>5, <1>6, <2>1
    <2>. QED
      BY <1>1, <1>3, <1>5, <2>1 DEF OrderInv, Entries
  <1>8. CommandsInOrder'
    <2>1. ASSUME NEW a \in Commands, NEW i \in Entries(a, Len(log))'
          PROVE  Cardinality(Entries(a, i)') <= Len(cfg[a])
                 /\ log'[i][2] = cfg[a][Cardinality(Entries(a, i)')]
      <3>1. CASE i \in 1 .. Len(log)
        <4>1. log'[i] = log[i] /\ i \in Entries(a, Len(log)) /\ Entries(a, i)' = Entries(a, i)
          BY <1>1, <2>1, <3>1, ItemDoneLog DEF Entries
        <4>. QED
          BY <4>1 DEF PhasesInv, CommandsInOrder
      <3>2. CASE i = Len(log) + 1
        <4>1. a = c
          BY <1>1, <1>2, <1>3, <2>1, <3>2 DEF Entries
        <4>2. Entries(a, i)' = Entries(c, Len(log))'
          BY <1>1, <3>2, <4>1 DEF Entries
        <4>. QED
          BY <1>1, <1>2, <1>5, <1>6, <2>1, <3>2, <4>1, <4>2
      <3>3. i \in 1 .. Len(log) + 1
        BY <1>1, <2>1 DEF Entries
      <3>. QED
        BY <1>1, <3>1, <3>2, <3>3
    <2>. QED
      BY <1>1, <2>1 DEF CommandsInOrder
  <1>9. FilesBeforeCommands'
    <2>1. ASSUME NEW i \in 1 .. Len(log) + 1, log'[i][1] \in Commands,
                 NEW f \in ToSet(cfg["WriteFiles"])
          PROVE  f \in failed \/ \E j \in 1 .. i - 1 : log'[j] = <<"WriteFiles", f>>
      <3>1. CASE i \in 1 .. Len(log)
        <4>1. f \in failed \/ \E j \in 1 .. i - 1 : log[j] = <<"WriteFiles", f>>
          BY <1>1, <2>1, <3>1 DEF PhasesInv, FilesBeforeCommands
        <4>. QED
          BY <1>1, <3>1, <4>1
      <3>2. CASE i = Len(log) + 1
        <4>1. Current \in Commands /\ Place \in 1 .. Len(Appliers(at))
          BY <1>1, <1>2, <2>1, <3>2 DEF Many
        <4>2. PICK k \in 1 .. Place - 1 : Appliers(at)[k] = "WriteFiles"
          <5>1. \A l \in 1 .. Len(Appliers(at)) : Appliers(at)[l] \in Commands =>
                   \E m \in 1 .. l - 1 : Appliers(at)[m] = "WriteFiles"
            BY Phases DEF PhasesInv, TypeInv
          <5>. QED
            BY <1>1, <4>1, <5>1
        <4>3. Finished("WriteFiles")
          BY <1>1, <4>2 DEF PhasesInv, TurnInv, Plain, Fields
        <4>4. Given(cfg, "WriteFiles") = cfg["WriteFiles"]
          BY DEF Given
        <4>5. f \in failed \/ f \in Did("WriteFiles")
          BY <4>3, <4>4 DEF Finished, Excused
        <4>6. ASSUME f \in Did("WriteFiles")
              PROVE  \E j \in 1 .. Len(log) : log[j] = <<"WriteFiles", f>>
          BY <1>1, <4>6 DEF Did, Entries, PhasesInv, LogInv
        <4>. QED
          BY <1>1, <3>2, <4>5, <4>6
      <3>. QED
        BY <1>1, <3>1, <3>2
    <2>. QED
      BY <1>1, <2>1 DEF FilesBeforeCommands
  <1>. QED
    BY <1>7, <1>8, <1>9

LEMMA ItemDoneKeeps ==
    ASSUME PhasesInv, NEW item, ItemDone(item)
    PROVE  PhasesInv'
  BY ItemDonePlain, ItemDoneTurn, ItemDoneOrder DEF PhasesInv

\* The items of an applier at work that looks at the configuration only.
LEMMA Left ==
    ASSUME PhasesInv, Applying, Current \in Plain
    PROVE  AtWork(Current) /\ todo \in Seq(Texts)
  <1>1. Place \in 1 .. Many /\ Current = Appliers(at)[Place] /\ stage = "apply"
    BY AtPlace DEF Applying
  <1>. QED
    BY <1>1 DEF PhasesInv, TurnInv, AtWork

LEMMA ApplyKeeps ==
    ASSUME PhasesInv, Apply
    PROVE  PhasesInv'
  <1>1. PICK i \in DOMAIN todo :
            /\ MayBeNext(i) /\ TookEffect(todo[i]) /\ todo' = RemoveAt(todo, i)
    BY DEF Apply
  <1>2. Applying /\ Current \notin K3S \cup {"WriteFiles"}
        /\ UNCHANGED <<doing, tmp, failed, disk, service, running, node, phase, budget>>
    BY DEF Apply
  <1>3. ASSUME Current \in Plain
        PROVE  /\ todo # << >> /\ todo' \in Seq(Texts) /\ ToSet(todo') \cup {todo[i]} = ToSet(todo)
               /\ Current # "Sysctls" => todo[i] = Head(todo) /\ todo' = Tail(todo)
    <2>1. todo \in Seq(Texts)
      BY <1>2, <1>3, Left
    <2>. QED
      BY <1>1, <2>1, Removed DEF MayBeNext
  <1>4. ~tmp /\ tmp \in BOOLEAN
    BY <1>2 DEF PhasesInv, DoingInv, TypeInv
  <1>5. ItemDone(todo[i])
    BY <1>1, <1>2, <1>3, <1>4 DEF ItemDone, node, phase, budget
  <1>. QED
    BY <1>5, ItemDoneKeeps

LEMMA RenameKeeps ==
    ASSUME PhasesInv, Rename
    PROVE  PhasesInv'
  <1>1. /\ tmp /\ TookEffect(Head(todo)) /\ tmp' = FALSE /\ todo' = Tail(todo)
        /\ UNCHANGED <<doing, failed, disk, service, running, node, phase, budget>>
    BY DEF Rename
  <1>2. Applying /\ Current = "WriteFiles" /\ todo # << >>
    BY <1>1 DEF PhasesInv, DoingInv
  <1>3. Current \in Plain /\ Current \notin K3S
    BY <1>2 DEF Plain, Fields, K3S
  <1>4. todo \in Seq(Texts)
    BY <1>2, <1>3, Left
  <1>5. todo' \in Seq(Texts) /\ ToSet(todo') \cup {Head(todo)} = ToSet(todo)
    BY <1>1, <1>2, <1>4, HeadAndTail
  <1>6. ItemDone(Head(todo))
    BY <1>1, <1>2, <1>3, <1>5 DEF ItemDone, node, phase, budget
  <1>. QED
    BY <1>6, ItemDoneKeeps

----------------------------------------------------------------------------
\* The other steps of a phase.

\* Of what the invariant is about only the items of files, or of k3s, that are left and the
\* temporary files change.
LEMMA FileFailsKeeps ==
    ASSUME PhasesInv, FileFails
    PROVE  PhasesInv'
  <1>1. /\ Applying /\ Current = "WriteFiles" /\ todo # << >> /\ fails' = fails + 1
        /\ failed' = failed \cup {Head(todo)} /\ tmp' = FALSE /\ todo' = Tail(todo)
        /\ done' = IF tmp THEN [done EXCEPT !["Temps"] = Append(@, Head(todo))] ELSE done
        /\ UNCHANGED <<doing, log, disk, service, running, cuts, node, phase>>
    BY DEF FileFails, FilesAfter
  <1>2. /\ stage = "apply" /\ doing # << >> /\ stage' = "apply" /\ at' = at /\ cfg' = cfg
        /\ mode' = mode /\ local' = local /\ userdata' = userdata /\ log' = log
        /\ failed \subseteq failed' /\ running' = running /\ service' = service
    BY <1>1 DEF Applying, node, phase
  <1>3. /\ Many' = Many /\ Place' = Place /\ Appliers(at)' = Appliers(at) /\ Current' = Current
        /\ Place \in 1 .. Many /\ Current = Appliers(at)[Place] /\ Many \in Nat
        /\ \A i \in 1 .. Many : Appliers(at)[i] = "WriteFiles" <=> i = Place
    <2>1. \A i, j \in 1 .. Many : Appliers(at)[i] = Appliers(at)[j] => i = j
      BY Phases DEF PhasesInv, TypeInv, Many
    <2>. QED
      BY <1>1, <1>2, <2>1, AtPlace DEF Many, Place, Current
  <1>4. Current \in Plain /\ Current \notin K3S /\ Current \notin Etc /\ Current \notin Commands
    BY <1>1 DEF Plain, Fields, K3S, Etc, Commands
  <1>5. /\ AtWork(Current) /\ todo \in Seq(Texts) /\ Head(todo) \in Texts /\ todo' \in Seq(Texts)
        /\ ToSet(todo') \cup {Head(todo)} = ToSet(todo)
    BY <1>1, <1>4, Left, HeadAndTail
  <1>6. TypeInv'
    <2>1. fails' \in Nat /\ DOMAIN done' = Effects
      BY <1>1 DEF PhasesInv, TypeInv
    <2>. QED
      BY <1>1, <1>2, <2>1 DEF PhasesInv, TypeInv
  <1>7. DoingInv' /\ LogInv'
    <2>1. doing' = doing /\ ~tmp'
      BY <1>1
    <2>2. DoingInv'
      BY <1>2, <1>3, <2>1 DEF PhasesInv, DoingInv
    <2>3. LogInv'
      BY <1>2, <1>3 DEF PhasesInv, LogInv
    <2>. QED
      BY <2>2, <2>3
  <1>8. TurnInv'
    <2>1. ASSUME NEW i \in 1 .. Many, Appliers(at)[i] \in Plain, i < Place
          PROVE  Finished(Appliers(at)[i])'
      <3>1. PICK b \in Plain : b = Appliers(at)[i]
        BY <2>1
      <3>2. Finished(b)
        BY <1>2, <2>1, <3>1 DEF PhasesInv, TurnInv
      <3>3. Finished(b)'
        BY <1>2, <3>2, SameLog DEF Finished, Excused
      <3>. QED
        BY <1>3, <3>1, <3>3
    <2>2. AtWork("WriteFiles")'
      <3>1. Did("WriteFiles")' = Did("WriteFiles")
        BY <1>2, SameLog
      <3>2. ToSet(todo)' \cup {Head(todo)} = ToSet(todo) /\ Head(todo) \in failed'
        BY <1>1, <1>5 DEF ToSet
      <3>. QED
        BY <1>1, <1>2, <1>5, <3>1, <3>2 DEF AtWork, Excused
    <2>. QED
      BY <1>1, <1>2, <1>3, <2>1, <2>2 DEF TurnInv
  <1>9. OrderInv'
    BY <1>3, <1>4 DEF OrderInv
  <1>10. \A a \in Effects \ {"Temps"} : done'[a] = done[a]
    BY <1>1 DEF PhasesInv, TypeInv
  <1>11. EtcInv'
    <2>1. ASSUME at = "boot", mode = "local", NEW i \in 1 .. Many, Appliers(at)[i] \in Etc
          PROVE  EtcAt(Appliers(at)[i], i)'
      <3>1. PICK b \in Etc : b = Appliers(at)[i]
        BY <2>1
      <3>2. EtcAt(b, i) /\ i # Place /\ done'[b] = done[b]
        BY <1>2, <1>3, <1>4, <1>10, <2>1, <3>1
        DEF PhasesInv, EtcInv, Effects, Fields, K3sFields, Etc
      <3>3. EtcAt(b, i)'
        BY <1>2, <1>3, <3>2 DEF EtcAt, Given
      <3>. QED
        BY <1>3, <3>1, <3>3
    <2>. QED
      BY <1>2, <1>3, <2>1 DEF EtcInv
  <1>12. K3sInv'
    <2>1. ASSUME NEW i \in 1 .. Many, Appliers(at)[i] \in K3S
          PROVE  K3sAt(Appliers(at)[i], i)'
      <3>1. PICK b \in K3S : b = Appliers(at)[i]
        BY <2>1
      <3>2. K3sAt(b, i) /\ i # Place
        BY <1>2, <1>3, <1>4, <2>1, <3>1 DEF PhasesInv, K3sInv
      <3>3. K3sAt(b, i)'
        BY <1>2, <1>3, <3>2 DEF K3sAt, K3SCommand
      <3>. QED
        BY <1>3, <3>1, <3>3
    <2>. QED
      BY <1>2, <1>3, <2>1 DEF K3sInv
  <1>13. TempsInv'
    <2>1. "Temps" \in DOMAIN done /\ fails \in Nat /\ cuts \in Nat
      BY DEF PhasesInv, TypeInv, Effects
    <2>2. done["Temps"] \in Seq(Texts) /\ disk["Temps"] \in Seq(Texts)
          /\ Len(done["Temps"]) \in Nat /\ Len(disk["Temps"]) \in Nat
          /\ Len(done["Temps"]) <= fails + cuts /\ Len(disk["Temps"]) <= fails + cuts
      BY LenProperties DEF PhasesInv, TempsInv
    <2>3. done'["Temps"] = IF tmp THEN Append(done["Temps"], Head(todo)) ELSE done["Temps"]
      BY <1>1, <2>1
    <2>4. /\ Append(done["Temps"], Head(todo)) \in Seq(Texts)
          /\ Len(Append(done["Temps"], Head(todo))) = Len(done["Temps"]) + 1
      BY <1>5, <2>2, AppendProperties
    <2>5. fails' + cuts' = (fails + cuts) + 1 /\ disk' = disk
      BY <1>1, <2>1
    <2>6. done'["Temps"] \in Seq(Texts) /\ Len(done'["Temps"]) <= (fails + cuts) + 1
      BY <2>1, <2>2, <2>3, <2>4
    <2>7. Len(disk["Temps"]) <= (fails + cuts) + 1
      BY <2>1, <2>2
    <2>. QED
      BY <2>2, <2>5, <2>6, <2>7 DEF TempsInv
  <1>14. FilesBeforeCommands' /\ CommandsInOrder'
    BY <1>2, SameOrder
  <1>15. FetchInv' /\ OthersGoOn' /\ EtcIsFresh' /\ K3SInTime'
    BY <1>2
    DEF FetchInv, PhasesInv, OthersGoOn, EtcIsFresh, K3SInTime,
        K3SAsConfigured, NotBeforeRuntime, Up
  <1>. QED
    BY <1>6, <1>7, <1>8, <1>9, <1>11, <1>12, <1>13, <1>14, <1>15 DEF PhasesInv

LEMMA WriteTempKeeps ==
    ASSUME PhasesInv, WriteTemp
    PROVE  PhasesInv'
  <1>1. /\ Applying /\ Current = "WriteFiles" /\ todo # << >> /\ tmp' = TRUE
        /\ UNCHANGED <<mode, local, userdata, at, stage, cfg, doing, todo, log, failed,
                       done, disk, service, running, fails, cuts>>
    BY DEF WriteTemp, node, phase, effects, budget
  <1>2. TypeInv' /\ DoingInv' /\ LogInv' /\ OrderInv' /\ TempsInv'
    <2>1. TypeInv' /\ TempsInv'
      BY <1>1 DEF PhasesInv, TypeInv, TempsInv
    <2>2. DoingInv'
      BY <1>1 DEF PhasesInv, DoingInv, Many, Place, Applying, Current, Appliers
    <2>3. LogInv'
      <3>1. Many' = Many /\ Place' = Place /\ Appliers(at)' = Appliers(at)
        BY <1>1 DEF Many, Place, Appliers
      <3>. QED
        BY <1>1, <3>1 DEF PhasesInv, LogInv
    <2>4. OrderInv'
      BY <1>1 DEF PhasesInv, OrderInv, Many, Place, Applying, Current, Appliers, Entries
    <2>. QED
      BY <2>1, <2>2, <2>3, <2>4
  <1>3. TurnInv' /\ EtcInv' /\ K3sInv'
    <2>1. /\ Many' = Many /\ Place' = Place /\ Appliers(at)' = Appliers(at)
          /\ K3SCommand(cfg)' = K3SCommand(cfg)
          /\ \A a : /\ Finished(a)' <=> Finished(a)
                    /\ AtWork(a)' <=> AtWork(a)
                    /\ Given(cfg, a)' = Given(cfg, a)
      BY <1>1
      DEF Many, Place, Appliers, Finished, AtWork, Did, Entries, Given, Excused, K3SCommand
    <2>2. TurnInv'
      BY <1>1, <2>1 DEF PhasesInv, TurnInv
    <2>3. EtcInv'
      BY <1>1, <2>1 DEF PhasesInv, EtcInv, EtcAt
    <2>4. K3sInv'
      BY <1>1, <2>1 DEF PhasesInv, K3sInv, K3sAt
    <2>. QED
      BY <2>2, <2>3, <2>4
  <1>4. FilesBeforeCommands' /\ CommandsInOrder'
    BY <1>1, SameOrder
  <1>5. FetchInv' /\ OthersGoOn' /\ EtcIsFresh' /\ K3SInTime'
    BY <1>1
    DEF FetchInv, PhasesInv, OthersGoOn, EtcIsFresh, K3SInTime,
        K3SAsConfigured, NotBeforeRuntime, Up, Applying
  <1>. QED
    BY <1>2, <1>3, <1>4, <1>5 DEF PhasesInv

\* k3s is set up, and outside the boot phase runs.
LEMMA K3SInstallerKeeps ==
    ASSUME PhasesInv, K3SInstaller
    PROVE  PhasesInv'
  <1>1. /\ Applying /\ Current \in K3S /\ todo # << >> /\ service' = <<K3SCommand(cfg)>>
        /\ running' = IF Starts THEN service' ELSE running
        /\ todo' = Tail(todo)
        /\ UNCHANGED <<mode, local, userdata, at, stage, cfg, doing, tmp, log, failed,
                       done, disk, fails, cuts>>
    BY DEF K3SInstaller, node, phase, budget
  <1>2. /\ stage = "apply" /\ stage' = "apply" /\ Many' = Many /\ Place' = Place
        /\ Appliers(at)' = Appliers(at) /\ Current' = Current
        /\ Place \in 1 .. Many /\ Many \in Nat /\ Current = Appliers(at)[Place]
    BY <1>1, AtPlace DEF Applying, Many, Place, Current, Appliers
  <1>3. \A i \in 1 .. Many : Appliers(at)[i] \in K3S => i = Place /\ Appliers(at)[i] = Current
    <2>1. at \in {"initrd", "boot", "runtime", "install"}
      BY DEF PhasesInv, TypeInv
    <2>. QED
      BY <1>1, <1>2, <2>1, Phases, OneK3S DEF Many
  <1>4. Current \notin Plain /\ Current \notin Etc /\ Current \notin Commands
    BY <1>1 DEF K3S, Plain, Fields, K3sFields, Etc, Commands
  <1>5. /\ at = "boot" => ~Starts
        /\ at # "boot" => Starts /\ at \in {"runtime", "install"}
    <2>1. at \in {"initrd", "boot", "runtime", "install"} /\ Place \in 1 .. Len(Appliers(at))
      BY <1>2 DEF PhasesInv, TypeInv, Many
    <2>2. at \in {"initrd", "boot"} => Current = "K3SNoRestart"
      BY <1>1, <1>2, <2>1, Phases
    <2>3. at \in {"runtime", "install"} => Current # "K3SNoRestart"
      BY <1>1, <1>2, <2>1, Phases
    <2>4. at # "initrd"
      BY <1>1, <1>2, <2>1, OneK3S
    <2>. QED
      BY <2>1, <2>2, <2>3, <2>4 DEF Starts
  <1>6. todo = <<"k3s">> /\ mode # "install" /\ todo' = << >>
    <2>1. K3sAt(Current, Place)
      BY <1>1, <1>2 DEF PhasesInv, K3sInv
    <2>2. Tail(<<"k3s">>) = << >>
      OBVIOUS
    <2>. QED
      BY <1>1, <2>1, <2>2 DEF K3sAt
  <1>7. TypeInv' /\ DoingInv' /\ LogInv' /\ OrderInv' /\ TempsInv'
    <2>1. TypeInv' /\ TempsInv'
      BY <1>1 DEF PhasesInv, TypeInv, TempsInv
    <2>2. DoingInv'
      <3>1. ~tmp
        BY <1>1 DEF PhasesInv, DoingInv, K3S
      <3>. QED
        BY <1>1, <1>2, <3>1 DEF PhasesInv, DoingInv
    <2>3. LogInv' /\ OrderInv'
      BY <1>1, <1>2, <1>4 DEF PhasesInv, LogInv, OrderInv
    <2>. QED
      BY <2>1, <2>2, <2>3
  <1>8. TurnInv' /\ EtcInv'
    <2>1. \A a : /\ Finished(a)' <=> Finished(a)
                 /\ Given(cfg, a)' = Given(cfg, a)
      BY <1>1 DEF Finished, Did, Entries, Given, Excused
    <2>2. TurnInv'
      BY <1>1, <1>2, <1>4, <2>1 DEF PhasesInv, TurnInv
    <2>3. EtcInv'
      BY <1>1, <1>2, <1>4, <2>1 DEF PhasesInv, EtcInv, EtcAt
    <2>. QED
      BY <2>2, <2>3
  <1>9. K3sInv'
    <2>1. at # "boot" => running' = <<K3SCommand(cfg)>>
      BY <1>1, <1>5
    <2>. QED
      BY <1>1, <1>2, <1>3, <1>6, <2>1 DEF K3sInv, K3sAt, K3SCommand
  <1>10. FilesBeforeCommands' /\ CommandsInOrder'
    BY <1>1, SameOrder
  <1>11. FetchInv' /\ OthersGoOn' /\ EtcIsFresh' /\ K3SInTime'
    BY <1>1, <1>2, <1>5, <1>6
    DEF FetchInv, PhasesInv, OthersGoOn, EtcIsFresh, K3SInTime,
        K3SAsConfigured, NotBeforeRuntime, Up
  <1>. QED
    BY <1>7, <1>8, <1>9, <1>10, <1>11 DEF PhasesInv

----------------------------------------------------------------------------
\* Between the phases.

\* Nothing has been done in a phase that begins, and the first applier has all its items.
LEMMA ReadKeeps ==
    ASSUME PhasesInv, Read
    PROVE  PhasesInv'
  <1>1. /\ stage = "read" /\ stage' = "apply" /\ cfg' = Visible /\ doing' = Appliers(at)
        /\ todo' = IF Appliers(at) = << >> THEN << >> ELSE Items(cfg', Head(Appliers(at)))
        /\ log' = << >> /\ failed' = {}
        /\ UNCHANGED <<mode, local, userdata, at, tmp, done, disk, service, running, fails, cuts>>
    BY DEF Read, Turn, InOrder, node, effects, budget
  <1>2. /\ Appliers(at) \in Seq((Fields \ K3sFields) \cup {"Install"} \cup K3S)
        /\ Many \in Nat \ {0} /\ Appliers(at)' = Appliers(at) /\ Many' = Many /\ Place' = 1
        /\ at \in {"initrd", "boot", "runtime", "install"}
    <2>1. at \in {"initrd", "boot", "runtime", "install"} /\ Appliers(at)' = Appliers(at)
      BY <1>1 DEF PhasesInv, TypeInv, Appliers
    <2>2. /\ Appliers(at) \in Seq((Fields \ K3sFields) \cup {"Install"} \cup K3S)
          /\ Many \in Nat \ {0}
      BY <2>1, Phases DEF Many
    <2>3. Many' = Many /\ Len(doing') = Many
      BY <1>1, <2>1 DEF Many
    <2>. QED
      BY <2>1, <2>2, <2>3 DEF Place
  <1>3. Appliers(at) # << >> /\ Head(Appliers(at)) = Appliers(at)[1]
    <2>1. Appliers(at) # << >>
      BY <1>2, EmptySeq DEF Many
    <2>2. Head(Appliers(at)) = Appliers(at)[1]
      BY <1>2, <2>1
    <2>. QED
      BY <2>1, <2>2
  <1>4. PICK c \in [Fields -> Seq(STRING)] : c = cfg'
    <2>1. Image \in [Fields -> Seq(STRING)]
      BY ConfigTypes
    <2>2. \A l, e \in [Fields -> Seq(STRING)] : Over(l, e) \in [Fields -> Seq(STRING)]
      BY DEF Over
    <2>3. local \in [Fields -> Seq(STRING)] /\ userdata \in [Fields -> Seq(STRING)]
      BY DEF PhasesInv, TypeInv
    <2>4. Over(local, Image) \in [Fields -> Seq(STRING)]
      BY <2>1, <2>2, <2>3
    <2>. QED
      BY <1>1, <2>1, <2>2, <2>3, <2>4 DEF Visible
  <1>5. PICK a : a = Appliers(at)[1]
    OBVIOUS
  <1>6. todo' = Items(c, a)
    BY <1>1, <1>3, <1>4, <1>5
  <1>7. \A b : Entries(b, Len(log))' = {} /\ Did(b)' = {}
    <2>1. Len(log') = 0 /\ 1 .. 0 = {}
      BY <1>1
    <2>2. \A b : Entries(b, Len(log))' = {}
      BY <2>1 DEF Entries
    <2>. QED
      BY <2>2 DEF Did
  <1>8. TypeInv'
    BY <1>1, <1>4 DEF PhasesInv, TypeInv
  <1>9. DoingInv'
    <2>1. ~tmp
      BY <1>1 DEF PhasesInv, DoingInv, Applying
    <2>2. doing' = SubSeq(Appliers(at), 1, Many) /\ Len(doing') \in 0 .. Many
      BY <1>1, <1>2, SubSeqFull DEF Many
    <2>. QED
      BY <1>1, <1>2, <2>1, <2>2 DEF DoingInv
  <1>10. LogInv' /\ TempsInv' /\ FilesBeforeCommands'
    BY <1>1 DEF PhasesInv, LogInv, TempsInv, FilesBeforeCommands
  <1>11. CommandsInOrder'
    BY <1>7 DEF CommandsInOrder
  <1>12. a \in Plain => todo' = Given(c, a) /\ Given(c, a) \in Seq(Texts)
    BY <1>6, ItemsOf, GivenType
  <1>13. TurnInv'
    <2>1. a \in Plain => AtWork(a)'
      BY <1>4, <1>7, <1>12 DEF AtWork, Given
    <2>. QED
      BY <1>2, <1>5, <2>1 DEF TurnInv
  <1>14. OrderInv'
    <2>1. Current' = a
      BY <1>1, <1>3, <1>5 DEF Current
    <2>2. ASSUME a \in Commands
          PROVE  0 <= Len(c[a]) /\ todo' = SubSeq(c[a], 0 + 1, Len(c[a]))
      <3>1. a \in Plain /\ a # "DNS" /\ a \in Fields
        BY <2>2 DEF Commands, Plain, Fields
      <3>2. todo' = c[a] /\ c[a] \in Seq(STRING)
        BY <1>12, <3>1 DEF Given
      <3>. QED
        BY <3>2, SubSeqFull, LenProperties
    <2>3. Cardinality(Entries(a, Len(log))') = 0
      BY <1>7, FS_EmptySet
    <2>. QED
      BY <1>4, <2>1, <2>2, <2>3 DEF OrderInv, Entries
  <1>15. EtcInv'
    <2>1. ASSUME at = "boot", mode = "local", NEW i \in 1 .. Many, Appliers(at)[i] \in Etc
          PROVE  EtcAt(Appliers(at)[i], i)'
      <3>1. PICK b \in Etc : b = Appliers(at)[i]
        BY <2>1
      <3>2. done'[b] = << >>
        BY <1>1, <2>1 DEF PhasesInv, EtcInv
      <3>3. i = 1 => b = a /\ b \in Plain
        BY <1>5, <3>1 DEF Etc, Plain, Fields
      <3>4. i = 1 => << >> \in Seq(Texts) /\ << >> \o todo' = Given(c, b)
        BY <1>12, <3>3, ConcatEmptySeq
      <3>5. EtcAt(b, i)'
        BY <1>2, <1>4, <3>2, <3>4 DEF EtcAt, Given
      <3>. QED
        BY <1>2, <3>1, <3>5
    <2>. QED
      BY <1>1, <1>2, <2>1 DEF EtcInv
  <1>16. K3sInv'
    <2>1. a \in K3S => todo' = IF mode # "install" THEN <<"k3s">> ELSE << >>
      BY <1>6, ItemsOf
    <2>2. a \in K3S => K3sAt(a, 1)'
      <3>1. Place' = 1 /\ ~(1 < 1) /\ mode' = mode
        BY <1>1, <1>2
      <3>2. <<"k3s">> # << >>
        OBVIOUS
      <3>3. a \in K3S => \/ mode = "install" /\ todo' = << >>
                         \/ mode # "install" /\ todo' = <<"k3s">>
        BY <2>1
      <3>. QED
        BY <3>1, <3>2, <3>3 DEF K3sAt
    <2>3. ASSUME NEW i \in 1 .. Many, i # 1
          PROVE  K3sAt(Appliers(at)[i], i)'
      BY <1>2, <2>3 DEF K3sAt
    <2>. QED
      BY <1>2, <1>5, <2>2, <2>3 DEF K3sInv
  <1>17. FetchInv' /\ OthersGoOn' /\ EtcIsFresh' /\ K3SInTime'
    BY <1>1
    DEF FetchInv, PhasesInv, OthersGoOn, EtcIsFresh, K3SInTime,
        K3SAsConfigured, NotBeforeRuntime, Up
  <1>. QED
    BY <1>8, <1>9, <1>10, <1>11, <1>13, <1>14, <1>15, <1>16, <1>17 DEF PhasesInv

\* Steps into a stage in which nothing is applied.
Rests ==
    /\ stage' # "apply" /\ doing' = << >> /\ ~tmp' /\ tmp' \in BOOLEAN
    /\ \/ log' = log /\ cfg' = cfg /\ failed' = failed
       \/ log' = << >>
    /\ at' \in {"initrd", "boot", "runtime", "install"}

LEMMA RestsPlain ==
    ASSUME PhasesInv, Rests
    PROVE  /\ DoingInv' /\ LogInv' /\ TurnInv' /\ OrderInv' /\ K3sInv'
           /\ FilesBeforeCommands' /\ CommandsInOrder' /\ log' \in Seq(ToSet(log'))
  <1>1. stage' # "apply" /\ doing' = << >> /\ ~tmp'
    BY DEF Rests
  <1>2. DoingInv'
    <2>1. Many' \in Nat /\ Len(doing') = 0
      BY <1>1, Phases DEF Rests, Many
    <2>. QED
      BY <1>1, <2>1 DEF DoingInv
  <1>3. TurnInv' /\ OrderInv' /\ K3sInv'
    BY <1>1 DEF TurnInv, OrderInv, K3sInv, Applying
  <1>4. CASE log' = log /\ cfg' = cfg /\ failed' = failed
    <2>0. LogInv'
      BY <1>1, <1>4 DEF PhasesInv, LogInv
    <2>1. FilesBeforeCommands'
      BY <1>1, <1>4 DEF PhasesInv, FilesBeforeCommands
    <2>2. CommandsInOrder'
      BY <1>4 DEF PhasesInv, CommandsInOrder, Entries
    <2>3. log' \in Seq(ToSet(log'))
      BY <1>4 DEF PhasesInv, TypeInv
    <2>. QED
      BY <1>2, <1>3, <2>0, <2>1, <2>2, <2>3
  <1>5. CASE log' = << >>
    <2>1. LogInv' /\ FilesBeforeCommands'
      BY <1>1, <1>5 DEF LogInv, FilesBeforeCommands
    <2>2. Len(log') = 0 /\ 1 .. 0 = {}
      BY <1>5
    <2>3. \A a : Entries(a, Len(log))' = {}
      BY <2>2 DEF Entries
    <2>4. CommandsInOrder'
      BY <2>3 DEF CommandsInOrder
    <2>5. log' \in Seq(ToSet(log'))
      BY <1>5
    <2>. QED
      BY <1>2, <1>3, <2>1, <2>4, <2>5
  <1>. QED
    BY <1>4, <1>5 DEF Rests

\* Between the phases nothing is under way.
LEMMA Resting ==
    ASSUME PhasesInv, stage # "apply"
    PROVE  doing = << >> /\ tmp = FALSE
  BY DEF PhasesInv, DoingInv, TypeInv, Applying

LEMMA ReadFailsKeeps ==
    ASSUME PhasesInv, ReadFails
    PROVE  PhasesInv'
  <1>1. /\ stage = "read" /\ fails' = fails + 1 /\ stage' = "over" /\ cfg' = Nothing
        /\ log' = << >> /\ failed' = {"ReadConfig"}
        /\ UNCHANGED <<mode, local, userdata, at, doing, tmp, done, disk, service, running, cuts>>
    BY DEF ReadFails, node, effects
  <1>2. doing = << >> /\ tmp = FALSE
    BY <1>1, Resting
  <1>3. Rests
    BY <1>1, <1>2 DEF Rests, PhasesInv, TypeInv
  <1>4. TypeInv'
    <2>1. cfg' \in [Fields -> Seq(STRING)]
      BY <1>1 DEF Nothing
    <2>. QED
      BY <1>1, <1>3, <2>1, RestsPlain DEF PhasesInv, TypeInv
  <1>5. TempsInv'
    <2>1. /\ Len(done["Temps"]) \in Nat /\ Len(disk["Temps"]) \in Nat /\ fails \in Nat
          /\ cuts \in Nat
      BY LenProperties DEF PhasesInv, TempsInv, TypeInv
    <2>. QED
      BY <1>1, <2>1 DEF PhasesInv, TempsInv
  <1>6. FetchInv' /\ EtcInv' /\ OthersGoOn' /\ EtcIsFresh' /\ K3SInTime'
    BY <1>1
    DEF FetchInv, PhasesInv, EtcInv, OthersGoOn, EtcIsFresh, K3SInTime,
        K3SAsConfigured, NotBeforeRuntime, Up
  <1>. QED
    BY <1>3, <1>4, <1>5, <1>6, RestsPlain DEF PhasesInv

\* Everybody has had a turn.
LEMMA FinishKeeps ==
    ASSUME PhasesInv, Finish
    PROVE  PhasesInv'
  <1>1. /\ stage = "apply" /\ doing = << >> /\ stage' = "over"
        /\ UNCHANGED <<mode, local, userdata, at, cfg, doing, todo, tmp, log, failed,
                       done, disk, service, running, fails, cuts>>
    BY DEF Finish, node, work, effects, budget
  <1>2. /\ Many \in Nat /\ Place = Many + 1 /\ ~tmp /\ tmp \in BOOLEAN
        /\ at \in {"initrd", "boot", "runtime", "install"}
        /\ Appliers(at) \in Seq((Fields \ K3sFields) \cup {"Install"} \cup K3S)
    BY <1>1, AtPlace DEF PhasesInv, DoingInv, TypeInv, Applying
  <1>3. Rests
    BY <1>1, <1>2 DEF Rests
  <1>4. TypeInv' /\ TempsInv' /\ EtcInv' /\ FetchInv'
    BY <1>1 DEF PhasesInv, TypeInv, TempsInv, EtcInv, FetchInv
  <1>5. OthersGoOn'
    <2>1. ASSUME NEW a \in (ToSet(Appliers(at)) \cap Fields) \ {"Modules"}
          PROVE  /\ Did(a) \subseteq ToSet(Given(cfg, a))
                 /\ \A item \in ToSet(Given(cfg, a)) : item \in Did(a) \/ Excused(a, item)
      <3>1. PICK i \in 1 .. Many : a = Appliers(at)[i]
        BY <1>2, LenProperties DEF ToSet, Many
      <3>2. i < Place /\ a \in Plain
        BY <1>2 DEF Plain
      <3>3. Finished(a)
        BY <1>1, <3>1, <3>2 DEF PhasesInv, TurnInv
      <3>. QED
        BY <3>3 DEF Finished
    <2>2. /\ Appliers(at)' = Appliers(at)
          /\ \A a : /\ Did(a)' = Did(a) /\ Items(cfg, a)' = Items(cfg, a)
                    /\ \A item : Excused(a, item)' = Excused(a, item)
      BY <1>1 DEF Appliers, Did, Entries, Items, K3SApplies, Excused
    <2>3. \A a \in (ToSet(Appliers(at)) \cap Fields) \ {"Modules"} : Items(cfg, a) = Given(cfg, a)
      BY ItemsOf DEF Plain
    <2>. QED
      BY <2>1, <2>2, <2>3 DEF OthersGoOn
  <1>6. EtcIsFresh'
    <2>1. ASSUME at = "boot", mode = "local", NEW a \in Etc \ failed
          PROVE  done[a] = Given(cfg, a)
      <3>1. PICK i \in 1 .. Many : Appliers(at)[i] = a
        BY <1>2, <2>1, Phases DEF Many
      <3>2. EtcAt(a, i) /\ i < Place
        BY <1>1, <1>2, <2>1, <3>1 DEF PhasesInv, EtcInv
      <3>. QED
        BY <3>2 DEF EtcAt
    <2>2. \A a \in Etc : Items(cfg, a)' = Given(cfg, a)
      BY <1>1 DEF Items, Given, Etc, K3S
    <2>. QED
      BY <1>1, <2>1, <2>2 DEF EtcIsFresh, Etc
  <1>7. K3SInTime'
    <2>1. ASSUME at \in {"runtime", "install"}, failed = {}, mode # "install"
          PROVE  running = <<K3SCommand(cfg)>>
      <3>1. PICK i \in 1 .. Many : Appliers(at)[i] \in K3S
        BY <2>1, Phases DEF Many
      <3>2. K3sAt(Appliers(at)[i], i) /\ i < Place
        BY <1>1, <1>2, <3>1 DEF PhasesInv, K3sInv
      <3>. QED
        BY <2>1, <3>2 DEF K3sAt
    <2>. QED
      BY <1>1, <2>1
      DEF PhasesInv, K3SInTime,
          K3SAsConfigured, NotBeforeRuntime, Up, K3SCommand
  <1>. QED
    BY <1>3, <1>4, <1>5, <1>6, <1>7, RestsPlain DEF PhasesInv

LEMMA EnterRootKeeps ==
    ASSUME PhasesInv, EnterRoot
    PROVE  PhasesInv'
  <1>1. /\ at = "initrd" /\ stage = "over" /\ at' = "boot" /\ stage' = "read"
        /\ done' = IF mode = "local" THEN NewRoot(done) ELSE done
        /\ UNCHANGED <<mode, local, userdata, cfg, doing, todo, tmp, log, failed, disk,
                       service, running, fails, cuts>>
    BY DEF EnterRoot, node, work, budget
  <1>2. doing = << >> /\ tmp = FALSE
    BY <1>1, Resting
  <1>3. Rests
    BY <1>1, <1>2 DEF Rests
  <1>4. TypeInv'
    <2>1. DOMAIN done' = Effects
      BY <1>1 DEF PhasesInv, TypeInv, NewRoot
    <2>. QED
      BY <1>1, <2>1 DEF PhasesInv, TypeInv
  <1>5. TempsInv'
    <2>1. done'["Temps"] \in {done["Temps"], disk["Temps"]}
      BY <1>1 DEF NewRoot, OfKernel, Kept, Effects
    <2>. QED
      BY <1>1, <2>1 DEF PhasesInv, TempsInv
  <1>6. EtcInv'
    <2>1. mode = "local" => \A a \in Etc : done'[a] = << >>
      BY <1>1 DEF NewRoot, OfKernel, Kept, Effects, Fields, K3sFields, Etc
    <2>. QED
      BY <1>1, <2>1 DEF EtcInv
  <1>7. FetchInv' /\ OthersGoOn' /\ EtcIsFresh' /\ K3SInTime'
    BY <1>1
    DEF FetchInv, PhasesInv, OthersGoOn, EtcIsFresh, K3SInTime,
        K3SAsConfigured, NotBeforeRuntime, Up
  <1>. QED
    BY <1>3, <1>4, <1>5, <1>6, <1>7, RestsPlain DEF PhasesInv

LEMMA ServicesKeeps ==
    ASSUME PhasesInv, Services
    PROVE  PhasesInv'
  <1>1. /\ at = "boot" /\ stage = "over" /\ at' = "runtime" /\ stage' \in {"read", "fetch"}
        /\ UNCHANGED <<mode, local, userdata, cfg, doing, todo, tmp, log, failed, done, disk,
                       service, running, fails, cuts>>
    BY DEF Services, node, work, effects, budget
  <1>2. doing = << >> /\ tmp = FALSE
    BY <1>1, Resting
  <1>3. Rests
    BY <1>1, <1>2 DEF Rests
  <1>4. TypeInv' /\ TempsInv' /\ EtcInv'
    BY <1>1 DEF PhasesInv, TypeInv, TempsInv, EtcInv
  <1>5. FetchInv' /\ OthersGoOn' /\ EtcIsFresh' /\ K3SInTime'
    BY <1>1
    DEF FetchInv, PhasesInv, OthersGoOn, EtcIsFresh, K3SInTime,
        K3SAsConfigured, NotBeforeRuntime, Up
  <1>. QED
    BY <1>3, <1>4, <1>5, RestsPlain DEF PhasesInv

LEMMA CloudConfigKeeps ==
    ASSUME PhasesInv, CloudConfig
    PROVE  PhasesInv'
  <1>1. /\ stage = "fetch" /\ stage' = "read" /\ userdata' \in Userdatas \cup {Nothing}
        /\ UNCHANGED <<mode, local, at, cfg, doing, todo, tmp, log, failed, done, disk,
                       service, running, fails, cuts>>
    BY DEF CloudConfig, work, effects, budget
  <1>2. doing = << >> /\ tmp = FALSE
    BY <1>1, Resting
  <1>3. Rests
    BY <1>1, <1>2 DEF Rests, PhasesInv, TypeInv
  <1>4. TypeInv'
    <2>1. userdata' \in [Fields -> Seq(STRING)]
      BY <1>1, ConfigTypes
    <2>. QED
      BY <1>1, <2>1 DEF PhasesInv, TypeInv
  <1>5. EtcInv'
    <2>1. at # "boot"
      BY <1>1 DEF PhasesInv, FetchInv
    <2>. QED
      BY <1>1, <2>1 DEF EtcInv
  <1>6. FetchInv' /\ TempsInv' /\ OthersGoOn' /\ EtcIsFresh' /\ K3SInTime'
    BY <1>1
    DEF FetchInv, PhasesInv, TempsInv, OthersGoOn, EtcIsFresh, K3SInTime,
        K3SAsConfigured, NotBeforeRuntime, Up
  <1>. QED
    BY <1>3, <1>4, <1>5, <1>6, RestsPlain DEF PhasesInv

LEMMA StartK3SKeeps ==
    ASSUME PhasesInv, StartK3S
    PROVE  PhasesInv'
  <1>1. /\ Up /\ service # << >> /\ running = << >> /\ running' = service
        /\ UNCHANGED <<mode, local, userdata, at, stage, cfg, doing, todo, tmp, log, failed,
                       done, disk, service, fails, cuts>>
    BY DEF StartK3S, node, phase, work, budget
  <1>2. at \in {"runtime", "install"} /\ stage = "over" /\ mode # "install" /\ failed # {}
    <2>1. K3SAsConfigured
      BY DEF PhasesInv, K3SInTime
    <2>2. <<K3SCommand(cfg)>> # << >>
      OBVIOUS
    <2>. QED
      BY <1>1, <2>1, <2>2 DEF K3SAsConfigured, Up
  <1>3. doing = << >> /\ tmp = FALSE
    BY <1>2, Resting
  <1>4. Rests
    BY <1>1, <1>2, <1>3 DEF Rests
  <1>5. TypeInv' /\ TempsInv' /\ EtcInv'
    BY <1>1, <1>2 DEF PhasesInv, TypeInv, TempsInv, EtcInv
  <1>6. OthersGoOn'
    <2>1. /\ Appliers(at)' = Appliers(at)
          /\ \A a : /\ Did(a)' = Did(a) /\ Items(cfg, a)' = Items(cfg, a)
                    /\ \A item : Excused(a, item)' = Excused(a, item)
      BY <1>1 DEF Appliers, Did, Entries, Items, K3SApplies, Excused
    <2>. QED
      BY <1>1, <2>1 DEF PhasesInv, OthersGoOn
  <1>7. FetchInv' /\ EtcIsFresh' /\ K3SInTime'
    BY <1>1, <1>2
    DEF FetchInv, EtcIsFresh, K3SInTime,
        K3SAsConfigured, NotBeforeRuntime, Up
  <1>. QED
    BY <1>4, <1>5, <1>6, <1>7, RestsPlain DEF PhasesInv

LEMMA AgainKeeps ==
    ASSUME PhasesInv, Again
    PROVE  PhasesInv'
  <1>1. /\ Up /\ local' \in Locals /\ at' \in {"runtime", "install"} /\ stage' = "read"
        /\ UNCHANGED <<mode, userdata, cfg, doing, todo, tmp, log, failed, done, disk,
                       service, running, fails, cuts>>
    BY DEF Again, work, effects
  <1>2. doing = << >> /\ tmp = FALSE
    BY <1>1, Resting DEF Up
  <1>3. Rests
    BY <1>1, <1>2 DEF Rests
  <1>4. TypeInv'
    <2>1. local' \in [Fields -> Seq(STRING)]
      BY <1>1, ConfigTypes
    <2>. QED
      BY <1>1, <2>1 DEF PhasesInv, TypeInv
  <1>5. FetchInv' /\ TempsInv' /\ EtcInv' /\ OthersGoOn' /\ EtcIsFresh' /\ K3SInTime'
    BY <1>1
    DEF FetchInv, PhasesInv, TempsInv, EtcInv, OthersGoOn, EtcIsFresh, K3SInTime,
        K3SAsConfigured, NotBeforeRuntime, Up
  <1>6. FetchInv'
    BY <1>1 DEF FetchInv
  <1>. QED
    BY <1>3, <1>4, <1>5, <1>6, RestsPlain DEF PhasesInv

\* The disk keeps what was in effect, with at most one more temporary file.
LEMMA PowerCutKeeps ==
    ASSUME PhasesInv, PowerCut
    PROVE  PhasesInv'
  <1>1. /\ cuts' = cuts + 1 /\ local' \in {local, Nothing} /\ userdata' = Nothing
        /\ disk' = IF mode = "local" /\ at # "initrd"
                   THEN [done EXCEPT !["Temps"] = IF tmp THEN Append(@, Head(todo)) ELSE @]
                   ELSE disk
        /\ at' = "initrd" /\ stage' = "read" /\ cfg' = Nothing
        /\ doing' = << >> /\ todo' = << >> /\ tmp' = FALSE /\ log' = << >> /\ failed' = {}
        /\ done' = Fresh /\ service' = << >> /\ running' = << >>
        /\ mode' = mode /\ fails' = fails
    BY DEF PowerCut
  <1>2. Rests
    BY <1>1 DEF Rests
  <1>3. TypeInv'
    <2>1. /\ local' \in [Fields -> Seq(STRING)] /\ userdata' \in [Fields -> Seq(STRING)]
          /\ cfg' \in [Fields -> Seq(STRING)]
      BY <1>1, ConfigTypes DEF PhasesInv, TypeInv
    <2>2. DOMAIN disk' = Effects
      BY <1>1 DEF PhasesInv, TypeInv
    <2>3. DOMAIN done' = Effects
      BY <1>1 DEF Fresh
    <2>4. log' \in Seq(ToSet(log'))
      BY <1>1
    <2>5. fails' \in Nat /\ cuts' \in Nat /\ mode' \in Modes
      BY <1>1 DEF PhasesInv, TypeInv
    <2>. QED
      BY <1>1, <2>1, <2>2, <2>3, <2>4, <2>5 DEF TypeInv
  <1>4. TempsInv'
    <2>1. "Temps" \in Effects /\ DOMAIN done = Effects /\ fails \in Nat /\ cuts \in Nat
      BY DEF PhasesInv, TypeInv, Effects
    <2>2. /\ done["Temps"] \in Seq(Texts) /\ disk["Temps"] \in Seq(Texts)
          /\ Len(done["Temps"]) \in Nat /\ Len(disk["Temps"]) \in Nat
          /\ Len(done["Temps"]) <= fails + cuts /\ Len(disk["Temps"]) <= fails + cuts
      BY LenProperties DEF PhasesInv, TempsInv
    <2>3. done'["Temps"] = << >> /\ << >> \in Seq(Texts) /\ Len(<< >>) = 0
      BY <1>1, <2>1 DEF Fresh
    <2>4. \/ disk'["Temps"] \in {disk["Temps"], done["Temps"]}
          \/ tmp /\ disk'["Temps"] = Append(done["Temps"], Head(todo))
      <3>1. CASE mode = "local" /\ at # "initrd"
        <4>1. CASE tmp
          <5>1. disk' = [done EXCEPT !["Temps"] = Append(done["Temps"], Head(todo))]
            BY <1>1, <3>1, <4>1
          <5>. QED
            BY <2>1, <4>1, <5>1
        <4>2. CASE ~tmp
          <5>1. disk' = [done EXCEPT !["Temps"] = done["Temps"]]
            BY <1>1, <3>1, <4>2
          <5>. QED
            BY <2>1, <5>1
        <4>. QED
          BY <4>1, <4>2
      <3>2. CASE ~(mode = "local" /\ at # "initrd")
        BY <1>1, <3>2
      <3>. QED
        BY <3>1, <3>2
    <2>5. tmp => Head(todo) \in Texts
      <3>1. tmp => Applying /\ Current \in Plain /\ todo # << >>
        BY DEF PhasesInv, DoingInv, Plain, Fields
      <3>. QED
        BY <3>1, Left, HeadAndTail
    <2>6. tmp => /\ Append(done["Temps"], Head(todo)) \in Seq(Texts)
                 /\ Len(Append(done["Temps"], Head(todo))) = Len(done["Temps"]) + 1
      BY <2>2, <2>5, AppendProperties
    <2>7. disk'["Temps"] \in Seq(Texts) /\ Len(disk'["Temps"]) <= (fails + cuts) + 1
      <3>1. CASE disk'["Temps"] \in {disk["Temps"], done["Temps"]}
        BY <2>1, <2>2, <3>1
      <3>2. CASE tmp /\ disk'["Temps"] = Append(done["Temps"], Head(todo))
        BY <2>1, <2>2, <2>6, <3>2
      <3>. QED
        BY <2>4, <3>1, <3>2
    <2>8. fails' + cuts' = (fails + cuts) + 1 /\ 0 <= (fails + cuts) + 1
      BY <1>1, <2>1
    <2>. QED
      BY <2>3, <2>7, <2>8 DEF TempsInv
  <1>5. FetchInv' /\ EtcInv' /\ OthersGoOn' /\ EtcIsFresh' /\ K3SInTime'
    BY <1>1
    DEF FetchInv, EtcInv, OthersGoOn, EtcIsFresh, K3SInTime,
        K3SAsConfigured, NotBeforeRuntime, Up
  <1>. QED
    BY <1>2, <1>3, <1>4, <1>5, RestsPlain DEF PhasesInv

LEMMA StutterKeeps ==
    ASSUME PhasesInv, UNCHANGED vars
    PROVE  PhasesInv'
  <1>1. UNCHANGED <<mode, local, userdata, at, stage, cfg, doing, todo, tmp, log, failed,
                    done, disk, service, running, fails, cuts>>
    BY DEF vars, node, phase, work, effects, budget
  <1>2. TypeInv' /\ TempsInv' /\ FetchInv'
    BY <1>1 DEF PhasesInv, TypeInv, TempsInv, FetchInv
  <1>3. DoingInv' /\ LogInv' /\ OrderInv'
    <2>1. DoingInv'
      BY <1>1 DEF PhasesInv, DoingInv, Many, Place, Applying, Current, Appliers
    <2>2. LogInv'
      <3>1. Many' = Many /\ Place' = Place /\ Appliers(at)' = Appliers(at)
        BY <1>1 DEF Many, Place, Appliers
      <3>. QED
        BY <1>1, <3>1 DEF PhasesInv, LogInv
    <2>3. OrderInv'
      BY <1>1 DEF PhasesInv, OrderInv, Many, Place, Applying, Current, Appliers, Entries
    <2>. QED
      BY <2>1, <2>2, <2>3
  <1>4. TurnInv' /\ EtcInv' /\ K3sInv'
    <2>1. /\ Many' = Many /\ Place' = Place /\ Appliers(at)' = Appliers(at)
          /\ K3SCommand(cfg)' = K3SCommand(cfg)
          /\ \A a : /\ Finished(a)' <=> Finished(a)
                    /\ AtWork(a)' <=> AtWork(a)
                    /\ Given(cfg, a)' = Given(cfg, a)
      BY <1>1
      DEF Many, Place, Appliers, Finished, AtWork, Did, Entries, Given, Excused, K3SCommand
    <2>2. TurnInv'
      BY <1>1, <2>1 DEF PhasesInv, TurnInv
    <2>3. EtcInv'
      BY <1>1, <2>1 DEF PhasesInv, EtcInv, EtcAt
    <2>4. K3sInv'
      BY <1>1, <2>1 DEF PhasesInv, K3sInv, K3sAt
    <2>. QED
      BY <2>2, <2>3, <2>4
  <1>5. FilesBeforeCommands' /\ CommandsInOrder'
    BY <1>1, SameOrder
  <1>6. OthersGoOn' /\ EtcIsFresh' /\ K3SInTime'
    <2>1. /\ Appliers(at)' = Appliers(at) /\ K3SCommand(cfg)' = K3SCommand(cfg)
          /\ \A a : /\ Did(a)' = Did(a) /\ Items(cfg, a)' = Items(cfg, a)
                    /\ \A item : Excused(a, item)' = Excused(a, item)
      BY <1>1 DEF Appliers, Did, Entries, Items, K3SApplies, Excused, K3SCommand
    <2>2. OthersGoOn' /\ EtcIsFresh'
      BY <1>1, <2>1 DEF PhasesInv, OthersGoOn, EtcIsFresh
    <2>3. K3SInTime'
      BY <1>1, <2>1
      DEF PhasesInv, K3SInTime,
          K3SAsConfigured, NotBeforeRuntime, Up
    <2>. QED
      BY <2>2, <2>3
  <1>. QED
    BY <1>2, <1>3, <1>4, <1>5, <1>6 DEF PhasesInv

----------------------------------------------------------------------------
\* The theorems.

LEMMA InitInv == Init => PhasesInv
  <1> SUFFICES ASSUME Init PROVE PhasesInv
    OBVIOUS
  <1>1. /\ mode \in Modes /\ local \in Locals \cup {Nothing} /\ userdata = Nothing
        /\ at = "initrd" /\ stage = "read" /\ cfg = Nothing /\ doing = << >> /\ todo = << >>
        /\ tmp = FALSE /\ log = << >> /\ failed = {} /\ done = Fresh /\ disk = Fresh
        /\ service = << >> /\ running = << >> /\ fails = 0 /\ cuts = 0
    BY DEF Init
  <1>2. TypeInv
    <2>1. /\ local \in [Fields -> Seq(STRING)] /\ userdata \in [Fields -> Seq(STRING)]
          /\ cfg \in [Fields -> Seq(STRING)]
      BY <1>1, ConfigTypes
    <2>2. DOMAIN Fresh = Effects /\ log \in Seq(ToSet(log))
      BY <1>1 DEF Fresh
    <2>. QED
      BY <1>1, <2>1, <2>2 DEF TypeInv
  <1>3. DoingInv
    <2>1. Many \in Nat /\ Len(doing) = 0
      BY <1>1, Phases DEF Many
    <2>. QED
      BY <1>1, <2>1 DEF DoingInv
  <1>4. LogInv /\ TurnInv /\ OrderInv /\ EtcInv /\ K3sInv /\ FetchInv /\ FilesBeforeCommands
    BY <1>1 DEF LogInv, TurnInv, OrderInv, EtcInv, K3sInv, FetchInv, Applying,
                FilesBeforeCommands
  <1>5. TempsInv
    <2>1. Fresh["Temps"] = << >> /\ << >> \in Seq(Texts) /\ Len(<< >>) = 0
      BY DEF Fresh, Effects
    <2>. QED
      BY <1>1, <2>1 DEF TempsInv
  <1>6. CommandsInOrder
    <2>1. Len(log) = 0 /\ 1 .. 0 = {}
      BY <1>1
    <2>. QED
      BY <2>1 DEF CommandsInOrder, Entries
  <1>7. OthersGoOn /\ EtcIsFresh /\ K3SInTime
    BY <1>1
    DEF OthersGoOn, EtcIsFresh, K3SInTime,
        K3SAsConfigured, NotBeforeRuntime, Up
  <1>. QED
    BY <1>2, <1>3, <1>4, <1>5, <1>6, <1>7 DEF PhasesInv

LEMMA NextInv == PhasesInv /\ [Next]_vars => PhasesInv'
  BY ReadKeeps, ApplyKeeps, K3SInstallerKeeps, WriteTempKeeps, RenameKeeps, AdvanceKeeps,
     FinishKeeps, EnterRootKeeps, ServicesKeeps, CloudConfigKeeps, StartK3SKeeps,
     ReadFailsKeeps, FailKeeps, FileFailsKeeps, AgainKeeps, PowerCutKeeps, StutterKeeps
  DEF Next, Step

\* The inductive invariant of the phases, over any number of boots.
THEOREM PhasesInvariant == Spec => []PhasesInv
  BY InitInv, NextInv, PTL DEF Spec

\* A command finds every file of its phase that could be written, and commands run in the
\* order of the configuration with none after one that failed.
THEOREM CommandsComeLast == Spec => []CommandsLast
  <1>1. PhasesInv => CommandsLast
    BY DEF PhasesInv, CommandsLast
  <1>. QED
    BY <1>1, PhasesInvariant, PTL

\* What fails keeps no other applier, and no other file, from its work, and temporary files
\* stay behind only for a failure or a loss of power each.
THEOREM FailuresStayConfined == Spec => []FailuresConfined
  <1>1. PhasesInv => FailuresConfined
    BY DEF PhasesInv, TempsInv, FailuresConfined, TempsFromFailures
  <1>. QED
    BY <1>1, PhasesInvariant, PTL

\* After the boot phase of a node with a disk /etc is what the configuration says.
THEOREM EtcStartsFresh == Spec => []EtcIsFresh
  <1>1. PhasesInv => EtcIsFresh
    BY DEF PhasesInv
  <1>. QED
    BY <1>1, PhasesInvariant, PTL

\* k3s runs as configured after a phase that did not fail, and never before the network.
THEOREM K3SComesInTime == Spec => []K3SInTime
  <1>1. PhasesInv => K3SInTime
    BY DEF PhasesInv
  <1>. QED
    BY <1>1, PhasesInvariant, PTL
====
