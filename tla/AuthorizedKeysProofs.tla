---- MODULE AuthorizedKeysProofs ----
(***************************************************************************)
(* What TLAPS proves of authorized_keys, for any configuration, answers of *)
(* servers, lines of the user, number of attempts, losses of power and     *)
(* failing calls.                                                          *)
(***************************************************************************)
EXTENDS AuthorizedKeys, Integers, SequenceTheorems, FiniteSetTheorems, WellFoundedInduction,
        TLAPS

\* What a run does not know of the file came since it looked at it: when it found no file,
\* or when it read it.
Race(p) ==
    /\ pc[p] = "create" => Range(file.lines) \subseteq run[p].came
    /\ pc[p] \in {"temp", "rename"} =>
           Range(file.lines) \subseteq Range(run[p].seen) \cup run[p].came
RaceInv == (file.here \/ file.lines = << >>) /\ \A p \in Procs : Race(p)

\* The boot phase is over before anything else runs.
StageInv ==
    /\ stage = "boot" => \A p \in Procs \ {"boot"} : pc[p] = "idle"
    /\ stage = "runlevel" => pc["boot"] = "done"

\* As long as the operator runs nothing, what was authorized is in the file, and in what
\* the run at work has read of it.
Alone == "operator" \in Procs => pc["operator"] = "idle"
AllAdded == UNION {run[p].added : p \in Procs}
Kept(p) ==
    /\ pc[p] = "create" => AllAdded = {}
    /\ pc[p] \in {"temp", "rename"} => \A t \in AllAdded : t \in SubSeqs(run[p].seen)
    /\ pc[p] = "chown" => run[p].text \in SubSeqs(file.lines)
    /\ \A t \in run[p].added : t \in SubSeqs(file.lines)
KeptInv ==
    /\ \A p \in Procs : run[p].added # {} \/ pc[p] = "chown" => file.here
    /\ Alone => \A p \in Procs : Kept(p)

\* A file that is not rancher's is in the hands of a run.
Holding == Writing \ {"create"}
UsableInv ==
    file.here /\ cuts = 0 /\ faults = 0 => file.owned \/ \E p \in Procs : pc[p] \in Holding

KeysInv == TypeOK /\ RaceInv /\ StageInv /\ KeptInv /\ TempsFromCutsOnly /\ UsableInv

----------------------------------------------------------------------------
\* Sequences of lines.

\* What is a part of a text is a part of any longer text, and so is what makes it longer.
LEMMA PartsOfConcat ==
    ASSUME NEW s \in Seq(Lines), NEW t \in Seq(Lines)
    PROVE  SubSeqs(s) \subseteq SubSeqs(s \o t) /\ t \in SubSeqs(s \o t)
  <1>1. s \o t \in Seq(Lines) /\ Len(s \o t) = Len(s) + Len(t) /\ Len(s) \in Nat /\ Len(t) \in Nat
    BY ConcatProperties, LenProperties
  <1>2. ASSUME NEW i \in 0 .. Len(s), NEW j \in 0 .. Len(s)
        PROVE  SubSeq(s, i + 1, j) \in SubSeqs(s \o t)
    <2>1. i \in 0 .. Len(s \o t) /\ j \in 0 .. Len(s \o t)
      BY <1>1
    <2>2. SubSeq(s \o t, i + 1, j) = SubSeq(s, i + 1, j)
      <3>1. CASE j < i + 1
        BY <3>1, <1>1, SubSeqEmpty
      <3>2. CASE i + 1 <= j
        <4>1. i + 1 \in 1 .. Len(s) /\ j \in 1 .. Len(s)
          BY <1>1, <3>2
        <4>. QED
          BY <4>1, SubSeqOfConcat1
      <3>. QED
        BY <1>1, <3>1, <3>2
    <2>. QED
      BY <2>1, <2>2 DEF SubSeqs
  <1>3. t = SubSeq(s \o t, Len(s) + 1, Len(s \o t))
    <2>1. CASE Len(t) = 0
      BY <1>1, <2>1, SubSeqEmpty, EmptySeq
    <2>2. CASE Len(t) # 0
      <3>1. /\ Len(s) + 1 \in Len(s) + 1 .. Len(s) + Len(t)
            /\ Len(s) + Len(t) \in Len(s) + 1 .. Len(s) + Len(t)
        BY <1>1, <2>2
      <3>2. SubSeq(s \o t, Len(s) + 1, Len(s) + Len(t)) = SubSeq(t, Len(s) + 1 - Len(s), Len(s) + Len(t) - Len(s))
        BY <3>1, SubSeqOfConcat2
      <3>3. Len(s) + 1 - Len(s) = 1 /\ Len(s) + Len(t) - Len(s) = Len(t)
        BY <1>1
      <3>. QED
        BY <1>1, <3>2, <3>3, SubSeqFull
    <2>. QED
      BY <2>1, <2>2
  <1>4. Len(s) \in 0 .. Len(s \o t) /\ Len(s \o t) \in 0 .. Len(s \o t)
    BY <1>1
  <1>5. t \in SubSeqs(s \o t)
    BY <1>3, <1>4, SMTT(20) DEF SubSeqs
  <1>6. ASSUME NEW u \in SubSeqs(s) PROVE u \in SubSeqs(s \o t)
    <2>1. PICK i \in 0 .. Len(s), j \in 0 .. Len(s) : u = SubSeq(s, i + 1, j)
      BY DEF SubSeqs
    <2>. QED
      BY <1>2, <2>1
  <1>. QED
    BY <1>5, <1>6

LEMMA PartsOfAppend ==
    ASSUME NEW s \in Seq(Lines), NEW e \in Lines
    PROVE  /\ Append(s, e) \in Seq(Lines) /\ SubSeqs(s) \subseteq SubSeqs(Append(s, e))
           /\ Range(Append(s, e)) = Range(s) \cup {e}
  <1>1. <<e>> \in Seq(Lines) /\ Range(<<e>>) = {e}
    <2>1. <<e>> \in Seq(Lines) /\ Len(<<e>>) = 1 /\ <<e>>[1] = e
      OBVIOUS
    <2>2. Range(<<e>>) = {<<e>>[i] : i \in 1 .. Len(<<e>>)}
      BY <2>1, RangeEquality
    <2>. QED
      BY <2>1, <2>2
  <1>2. Append(s, e) = s \o <<e>>
    BY AppendIsConcat
  <1>3. \A t \in Seq(Lines) : /\ s \o t \in Seq(Lines) /\ SubSeqs(s) \subseteq SubSeqs(s \o t)
                              /\ Range(s \o t) = Range(s) \cup Range(t)
    BY PartsOfConcat, ConcatProperties, RangeConcatenation
  <1>4. /\ s \o <<e>> \in Seq(Lines) /\ SubSeqs(s) \subseteq SubSeqs(s \o <<e>>)
        /\ Range(s \o <<e>>) = Range(s) \cup {e}
    BY <1>1, <1>3
  <1>. QED
    BY <1>2, <1>4

\* What a run writes: what it has read and, in it or behind it, its text.
LEMMA ExtendedKeeps ==
    ASSUME NEW r \in RunType
    PROVE  /\ Extended(r) \in Seq(Lines)
           /\ Range(r.seen) \subseteq Range(Extended(r))
           /\ SubSeqs(r.seen) \subseteq SubSeqs(Extended(r))
           /\ r.text \in SubSeqs(Extended(r))
  <1>1. r.seen \in Seq(Lines) /\ r.text \in Seq(Lines)
    BY DEF RunType
  <1>2. CASE r.text \in SubSeqs(r.seen)
    BY <1>1, <1>2 DEF Extended
  <1>3. CASE r.text \notin SubSeqs(r.seen)
    <2>1. Extended(r) = r.seen \o r.text
      BY <1>3 DEF Extended
    <2>2. r.seen \o r.text \in Seq(Lines)
      BY <1>1, ConcatProperties
    <2>3. Range(r.seen \o r.text) = Range(r.seen) \cup Range(r.text)
      BY <1>1, RangeConcatenation
    <2>. QED
      BY <1>1, <2>1, <2>2, <2>3, PartsOfConcat
  <1>. QED
    BY <1>2, <1>3

----------------------------------------------------------------------------
\* What the steps have in common.

\* The runs and the file, from the types.
LEMMA Types ==
    ASSUME KeysInv, NEW p \in Procs
    PROVE  /\ run \in [Procs -> RunType] /\ run[p] \in RunType /\ pc \in [Procs -> Labels]
           /\ file \in FileType /\ file.lines \in Seq(Lines) /\ file.here \in BOOLEAN
           /\ file.owned \in BOOLEAN /\ run = [run EXCEPT ![p] = run[p]]
           /\ cuts \in Nat /\ faults \in Nat /\ temps \in Nat /\ temps + 0 = temps
  BY AuthorizedKeysAssumption DEF KeysInv, TypeOK, FileType

\* Without the operator only one run is at work.
LEMMA OneAtWork ==
    ASSUME KeysInv, Alone, NEW p \in Procs, pc[p] \notin {"idle", "done"},
           NEW q \in Procs \ {p}
    PROVE  pc[q] \in {"idle", "done"}
  BY AuthorizedKeysAssumption DEF KeysInv, TypeOK, StageInv, Alone

\* A step of a run at work, or the start of one, keeps the phases apart.
LEMMA StageKept ==
    ASSUME KeysInv, NEW p \in Procs, NEW from \in Labels \ {"done"}, NEW to \in Labels,
           Goto(p, from, to), UNCHANGED stage,
           from = "idle" => stage = IF p = "boot" THEN "boot" ELSE "runlevel"
    PROVE  StageInv'
  BY AuthorizedKeysAssumption DEF KeysInv, TypeOK, StageInv, Goto

\* The operator, once at work, is not idle again before the power goes.
LEMMA AloneBefore ==
    ASSUME KeysInv, NEW p \in Procs, NEW from, NEW to \in Labels \ {"idle"}, Goto(p, from, to),
           Alone'
    PROVE  Alone /\ pc[p] = from /\ pc'[p] = to /\ \A q \in Procs \ {p} : pc'[q] = pc[q]
  BY DEF KeysInv, TypeOK, Goto, Alone

\* A step that writes no lines and authorizes nothing.
PlainStepOf(p, from, to, r) ==
    /\ from \in Labels \ {"done"} /\ to \in Labels \ {"idle", "chown"} /\ Goto(p, from, to)
    /\ from = "idle" => stage = IF p = "boot" THEN "boot" ELSE "runlevel"
    /\ stage' = stage /\ temps' = temps /\ cuts' = cuts
    /\ dir' \in {"none", "root", "rancher"}
    /\ faults' \in 0 .. MaxFaults /\ (faults' = faults \/ faults' # 0)
    /\ file' \in FileType /\ file'.here = file.here /\ file'.lines = file.lines
    /\ file.owned => file'.owned
    /\ r \in RunType /\ run' = [run EXCEPT ![p] = r] /\ r.added = run[p].added
    /\ to = "create" => ~file.here
    /\ to = "temp" => r.seen = file.lines
    /\ to = "rename" => from = "temp" /\ r.seen = run[p].seen /\ r.came = run[p].came
    /\ from \in Holding => to \in Holding \/ faults' # 0

LEMMA PlainStep ==
    ASSUME KeysInv, NEW p \in Procs, NEW from, NEW to, NEW r, PlainStepOf(p, from, to, r)
    PROVE  KeysInv'
  <1> USE DEF PlainStepOf
  <1>1. /\ pc[p] = from /\ pc'[p] = to /\ pc' \in [Procs -> Labels]
        /\ \A q \in Procs \ {p} : pc'[q] = pc[q]
    BY Types DEF Goto
  <1>2. /\ run' \in [Procs -> RunType] /\ run'[p] = r
        /\ \A q \in Procs \ {p} : run'[q] = run[q]
    BY Types
  <1>3. TypeOK'
    BY <1>1, <1>2 DEF KeysInv, TypeOK
  <1>4. StageInv'
    BY StageKept
  <1>5. RaceInv'
    <2>1. \A q \in Procs \ {p} : Race(q)'
      BY <1>1, <1>2 DEF KeysInv, RaceInv, Race
    <2>2. Race(p)'
      <3>1. to = "create" => Range(file.lines) = {}
        BY RangeEquality, Types DEF KeysInv, RaceInv, Range
      <3>2. Race(p)
        BY DEF KeysInv, RaceInv
      <3>. QED
        BY <1>1, <1>2, <3>1, <3>2 DEF Race
    <2>. QED
      BY <2>1, <2>2 DEF KeysInv, RaceInv
  <1>6. KeptInv'
    <2>1. \A q \in Procs : run'[q].added = run[q].added
      BY <1>2
    <2>2. AllAdded' = AllAdded
      BY <2>1 DEF AllAdded
    <2>3. \A q \in Procs : run'[q].added # {} \/ pc'[q] = "chown" => file'.here
      BY <1>1, <2>1 DEF KeysInv, KeptInv
    <2>4. ASSUME Alone' PROVE \A q \in Procs : Kept(q)'
      <3>1. Alone
        BY <1>1, <2>4, AloneBefore
      <3>2. \A q \in Procs : Kept(q)
        BY <3>1 DEF KeysInv, KeptInv
      <3>3. \A q \in Procs \ {p} : Kept(q)'
        BY <1>1, <1>2, <2>2, <3>2 DEF Kept
      <3>4. to = "create" => AllAdded = {}
        <4>1. ~file.here => \A q \in Procs : run[q].added = {}
          BY DEF KeysInv, KeptInv
        <4>. QED
          BY <4>1 DEF AllAdded
      <3>5. \A t \in AllAdded : t \in SubSeqs(file.lines)
        BY <3>2 DEF Kept, AllAdded
      <3>6. Kept(p)'
        BY <1>1, <1>2, <2>2, <3>2, <3>4, <3>5 DEF Kept
      <3>. QED
        BY <3>3, <3>6
    <2>. QED
      BY <2>3, <2>4 DEF KeptInv
  <1>7. UsableInv'
    <2> SUFFICES ASSUME file'.here, cuts' = 0, faults' = 0, ~file'.owned
                 PROVE  \E q \in Procs : pc'[q] \in Holding
      BY DEF UsableInv
    <2>1. PICK q \in Procs : pc[q] \in Holding
      BY DEF KeysInv, UsableInv
    <2>. QED
      BY <1>1, <2>1
  <1>8. TempsFromCutsOnly'
    BY DEF KeysInv, TempsFromCutsOnly
  <1>. QED
    BY <1>3, <1>4, <1>5, <1>6, <1>7, <1>8 DEF KeysInv

\* Among them one that changes but the variables of its run.
LEMMA SilentStep ==
    ASSUME KeysInv, NEW p \in Procs,
           NEW from \in {"key", "fetch", "stat", "read", "temp"},
           NEW to \in {"done", "key", "fetch", "stat", "create", "read", "temp", "rename"},
           Goto(p, from, to), UNCHANGED <<stage, dir, file, temps, cuts, faults>>,
           NEW r \in RunType, run' = [run EXCEPT ![p] = r], r.added = run[p].added,
           to = "create" => ~file.here,
           to = "temp" => r.seen = file.lines,
           to = "rename" => from = "temp" /\ r.seen = run[p].seen /\ r.came = run[p].came,
           from \in {"read", "temp"} => to \in {"temp", "rename"}
    PROVE  KeysInv'
  <1>1. from \in Labels \ {"idle", "done"} /\ to \in Labels \ {"idle", "chown"}
    BY DEF Labels
  <1>2. from \in Holding => to \in Holding
    BY DEF Holding, Writing
  <1>3. /\ dir' \in {"none", "root", "rancher"} /\ faults' \in 0 .. MaxFaults
        /\ file' \in FileType
    BY DEF KeysInv, TypeOK
  <1>4. PlainStepOf(p, from, to, r)
    BY <1>1, <1>2, <1>3 DEF PlainStepOf
  <1>. QED
    BY <1>4, PlainStep

\* The variables of a run that skips an entry, and of one that has a text.
LEMMA IdleRunType == IdleRun \in RunType
  BY AuthorizedKeysAssumption DEF IdleRun, RunType

LEMMA SkipType ==
    ASSUME KeysInv, NEW p \in Procs, NEW a \in SUBSET Seq(Lines)
    PROVE  Skip(p, a) \in RunType /\ Skip(p, a).added = run[p].added \cup a
  <1>1. run[p].i + 1 \in Nat \ {0} /\ run[p].added \cup a \in SUBSET Seq(Lines)
    BY Types DEF RunType
  <1>. QED
    BY <1>1, IdleRunType DEF Skip, RunType

LEMMA SkipsNothing ==
    ASSUME KeysInv, NEW p \in Procs
    PROVE  Skip(p, {}) \in RunType /\ Skip(p, {}).added = run[p].added
  <1>1. {} \in SUBSET Seq(Lines) /\ run[p].added \cup {} = run[p].added
    OBVIOUS
  <1>. QED
    BY <1>1, SkipType

LEMMA GiveType ==
    ASSUME KeysInv, NEW p \in Procs, NEW text \in Seq(Lines)
    PROVE  Give(p, text) \in RunType /\ Give(p, text).added = run[p].added
  BY Types DEF Give, RunType

----------------------------------------------------------------------------
\* The steps of a run before it looks at the file.

LEMMA StartKeys ==
    ASSUME KeysInv, NEW p \in Procs, Start(p)
    PROVE  KeysInv'
  <1>1. \E from, to \in Labels : PlainStepOf(p, from, to, run[p])
    BY Types DEF PlainStepOf, Start, KeysInv, TypeOK, Labels, Holding, Writing
  <1>. QED
    BY <1>1, PlainStep

LEMMA MakeDirKeys ==
    ASSUME KeysInv, NEW p \in Procs, MakeDir(p)
    PROVE  KeysInv'
  <1>1. \E from, to \in Labels : PlainStepOf(p, from, to, run[p])
    BY Types DEF PlainStepOf, MakeDir, KeysInv, TypeOK, Labels, Holding, Writing
  <1>. QED
    BY <1>1, PlainStep

LEMMA ChownDirKeys ==
    ASSUME KeysInv, NEW p \in Procs, ChownDir(p)
    PROVE  KeysInv'
  <1>1. \E from, to \in Labels : PlainStepOf(p, from, to, run[p])
    BY Types DEF PlainStepOf, ChownDir, KeysInv, TypeOK, Labels, Holding, Writing
  <1>. QED
    BY <1>1, PlainStep

LEMMA KeyKeys ==
    ASSUME KeysInv, NEW p \in Procs, Key(p)
    PROVE  KeysInv'
  <1>1. PICK to \in {"done", "stat", "key", "fetch"} :
            /\ Goto(p, "key", to)
            /\ \/ run' = run
               \/ Known(p, Skip(p, {}))
               \/ \E text \in Seq(Lines) : Known(p, Give(p, text))
    <2>1. CASE run[p].i > Len(Config)
      BY <2>1 DEF Key
    <2>2. CASE ~(run[p].i > Len(Config))
      <3>1. Config[run[p].i].text \in Seq(Lines)
        <4>1. Config \in Seq([url : BOOLEAN, text : Texts]) /\ Texts \subseteq Seq(Lines)
          BY AuthorizedKeysAssumption
        <4>2. run[p].i \in 1 .. Len(Config)
          BY <2>2, <4>1, Types, LenProperties DEF RunType
        <4>3. Config[run[p].i] \in [url : BOOLEAN, text : Texts]
          BY <4>1, <4>2, ElementOfSeq
        <4>. QED
          BY <4>1, <4>3
      <3>. QED
        BY <2>2, <3>1 DEF Key
    <2>. QED
      BY <2>1, <2>2
  <1>2. PICK r \in RunType : run' = [run EXCEPT ![p] = r] /\ r.added = run[p].added
    BY <1>1, Types, SkipsNothing, GiveType DEF Known
  <1>3. UNCHANGED <<stage, dir, file, temps, cuts, faults>>
    BY DEF Key
  <1>. QED
    BY <1>1, <1>2, <1>3, SilentStep

LEMMA FetchKeys ==
    ASSUME KeysInv, NEW p \in Procs, Fetched(p) \/ NotFetched(p)
    PROVE  KeysInv'
  <1>1. PICK to \in {"stat", "key", "fetch"}, r \in RunType :
            Goto(p, "fetch", to) /\ run' = [run EXCEPT ![p] = r] /\ r.added = run[p].added
    <2>1. CASE Fetched(p)
      <3>1. PICK body \in Bodies :
                IF body = << >> THEN Goto(p, "fetch", "key") /\ Known(p, Skip(p, {}))
                ELSE Goto(p, "fetch", "stat") /\ Known(p, Give(p, body))
        BY <2>1 DEF Fetched
      <3>2. body \in Seq(Lines)
        BY AuthorizedKeysAssumption DEF Texts
      <3>. QED
        BY <3>1, <3>2, SkipsNothing, GiveType DEF Known
    <2>2. CASE NotFetched(p)
      <3>1. CASE Goto(p, "fetch", "key") /\ Known(p, Skip(p, {}))
        BY <3>1, SkipsNothing DEF Known
      <3>2. CASE /\ TryAgain(p) /\ Goto(p, "fetch", "fetch")
                 /\ Known(p, [run[p] EXCEPT !.tries = @ + 1])
        <4> DEFINE r == [run[p] EXCEPT !.tries = @ + 1]
        <4>0. run[p].tries \in 0 .. Tries - 1
          BY Types DEF RunType
        <4>1. run[p].tries + 1 \in 0 .. Tries - 1
          BY <3>2, <4>0, AuthorizedKeysAssumption DEF TryAgain
        <4>2. r \in RunType /\ r.added = run[p].added
          BY <4>1, Types DEF RunType
        <4>. QED
          BY <3>2, <4>2 DEF Known
      <3>. QED
        BY <2>2, <3>1, <3>2 DEF NotFetched
    <2>. QED
      BY <2>1, <2>2
  <1>2. UNCHANGED <<stage, dir, file, temps, cuts, faults>>
    BY DEF Fetched, NotFetched
  <1>. QED
    BY <1>1, <1>2, SilentStep

----------------------------------------------------------------------------
\* authorizeSSHKey.

LEMMA StatKeys ==
    ASSUME KeysInv, NEW p \in Procs, Stat(p)
    PROVE  KeysInv'
  <1>1. UNCHANGED <<stage, dir, file, temps, cuts, faults>>
    BY DEF Stat
  <1>2. CASE file.here
    <2> DEFINE r == [run[p] EXCEPT !.private = file.private]
    <2>1. r \in RunType /\ r.added = run[p].added
      BY Types DEF RunType, FileType
    <2>2. Goto(p, "stat", "read") /\ run' = [run EXCEPT ![p] = r]
      BY <1>2 DEF Stat, Known
    <2>. QED
      BY <1>1, <2>1, <2>2, SilentStep
  <1>3. CASE ~file.here
    <2>1. Goto(p, "stat", "create") /\ run' = [run EXCEPT ![p] = run[p]]
      BY <1>3, Types DEF Stat
    <2>. QED
      BY <1>1, <1>3, <2>1, Types, SilentStep
  <1>. QED
    BY <1>2, <1>3

LEMMA ChmodKeys ==
    ASSUME KeysInv, NEW p \in Procs, Chmod(p)
    PROVE  KeysInv'
  <1> DEFINE f == [file EXCEPT !.private = @ \/ run[p].mine]
             r == [run[p] EXCEPT !.private = f.private]
  <1>1. /\ f \in FileType /\ f.here = file.here /\ f.lines = file.lines
        /\ f.owned = file.owned
    BY Types DEF FileType, RunType
  <1>2. r \in RunType /\ r.added = run[p].added
    BY <1>1, Types DEF RunType, FileType
  <1>3. /\ file' = f /\ run' = [run EXCEPT ![p] = r] /\ Goto(p, "chmod", "read")
        /\ UNCHANGED <<stage, dir, temps, cuts, faults>>
    BY DEF Chmod, Known
  <1>4. "chmod" \in Labels \ {"done"} /\ "read" \in Labels \ {"idle"} /\ "read" \in Holding
    BY DEF Labels, Holding, Writing
  <1>5. dir' \in {"none", "root", "rancher"} /\ faults' \in 0 .. MaxFaults
    BY <1>3 DEF KeysInv, TypeOK
  <1>6. PlainStepOf(p, "chmod", "read", r)
    BY <1>1, <1>2, <1>3, <1>4, <1>5 DEF PlainStepOf
  <1>. QED
    BY <1>6, PlainStep

LEMMA ReadKeys ==
    ASSUME KeysInv, NEW p \in Procs, Read(p)
    PROVE  KeysInv'
  <1> DEFINE r == [run[p] EXCEPT !.seen = file.lines]
  <1>1. r \in RunType /\ r.added = run[p].added /\ r.seen = file.lines
    BY Types DEF RunType
  <1>2. /\ Goto(p, "read", "temp") /\ run' = [run EXCEPT ![p] = r]
        /\ UNCHANGED <<stage, dir, file, temps, cuts, faults>>
    BY DEF Read, Known
  <1>. QED
    BY <1>1, <1>2, SilentStep

LEMMA TempKeys ==
    ASSUME KeysInv, NEW p \in Procs, Temp(p)
    PROVE  KeysInv'
  BY SilentStep, Types DEF Temp

LEMMA FailKeys ==
    ASSUME KeysInv, NEW p \in Procs, Fail(p)
    PROVE  KeysInv'
  <1>1. /\ faults' = faults + 1 /\ faults' \in 0 .. MaxFaults /\ faults' # 0
        /\ UNCHANGED <<stage, dir, file, cuts, temps>>
    BY Types, AuthorizedKeysAssumption DEF Fail, LeftBehind, KeysInv, TypeOK
  <1>2. PICK from \in Labels \ {"idle", "done"}, to \in {"key", "done"}, r \in RunType :
            Goto(p, from, to) /\ run' = [run EXCEPT ![p] = r] /\ r.added = run[p].added
    BY Types, SkipsNothing DEF Fail, Known, Labels
  <1>3. PlainStepOf(p, from, to, r)
    BY <1>1, <1>2, Types DEF PlainStepOf, KeysInv, TypeOK, Labels
  <1>. QED
    BY <1>3, PlainStep

\* The text is authorized: it is in the file, and no other run has read it without.
LEMMA ChownKeys ==
    ASSUME KeysInv, NEW p \in Procs, Chown(p)
    PROVE  KeysInv'
  <1> DEFINE r == Skip(p, {run[p].text})
  <1>1. /\ file' = [file EXCEPT !.owned = TRUE] /\ run' = [run EXCEPT ![p] = r]
        /\ Goto(p, "chown", "key") /\ UNCHANGED <<stage, dir, temps, cuts, faults>>
    BY DEF Chown, Chowned, Known
  <1>2. /\ file' \in FileType /\ file'.owned
        /\ file'.here = file.here /\ file'.lines = file.lines
    BY <1>1, Types DEF FileType
  <1>3. r \in RunType /\ r.added = run[p].added \cup {run[p].text}
    <2>1. {run[p].text} \in SUBSET Seq(Lines)
      BY Types DEF RunType
    <2>. QED
      BY <2>1, SkipType
  <1>4. /\ pc[p] = "chown" /\ pc'[p] = "key" /\ pc' \in [Procs -> Labels]
        /\ \A q \in Procs \ {p} : pc'[q] = pc[q]
    BY <1>1, Types DEF Goto, Labels
  <1>5. /\ run' \in [Procs -> RunType] /\ run'[p] = r
        /\ \A q \in Procs \ {p} : run'[q] = run[q]
    BY <1>1, <1>3, Types
  <1>6. TypeOK'
    BY <1>1, <1>2, <1>4, <1>5 DEF KeysInv, TypeOK
  <1>7. StageInv'
    <2>1. "chown" \in Labels \ {"idle", "done"} /\ "key" \in Labels
      BY DEF Labels
    <2>. QED
      BY <1>1, <2>1, StageKept
  <1>8. RaceInv'
    BY <1>2, <1>4, <1>5 DEF KeysInv, RaceInv, Race
  <1>9. KeptInv'
    <2>1. \A q \in Procs : run'[q].added # {} \/ pc'[q] = "chown" => file'.here
      BY <1>2, <1>4, <1>5 DEF KeysInv, KeptInv
    <2>2. ASSUME Alone' PROVE \A q \in Procs : Kept(q)'
      <3>1. Alone
        BY <1>1, <2>2, AloneBefore DEF Labels
      <3>2. \A q \in Procs : Kept(q)
        BY <3>1 DEF KeysInv, KeptInv
      <3>3. Kept(p)'
        <4>1. \A t \in r.added : t \in SubSeqs(file.lines)
          BY <1>3, <1>4, <3>2 DEF Kept
        <4>. QED
          BY <1>2, <1>4, <1>5, <4>1 DEF Kept
      <3>4. ASSUME NEW q \in Procs \ {p} PROVE Kept(q)'
        <4>1. pc'[q] \in {"idle", "done"}
          BY <1>4, <3>1, <3>4, OneAtWork
        <4>. QED
          BY <1>2, <1>5, <3>2, <4>1 DEF Kept
      <3>. QED
        BY <3>3, <3>4
    <2>. QED
      BY <2>1, <2>2 DEF KeptInv
  <1>10. UsableInv' /\ TempsFromCutsOnly'
    BY <1>1, <1>2 DEF UsableInv, KeysInv, TempsFromCutsOnly
  <1>. QED
    BY <1>6, <1>7, <1>8, <1>9, <1>10 DEF KeysInv

----------------------------------------------------------------------------
\* The steps that write lines.

\* What they leave of the other runs: these do not know the lines that came.
LEMMA OthersAfter ==
    ASSUME KeysInv, NEW p, NEW f \in FileType, NEW another \in BOOLEAN, NEW r,
           Becomes(p, f, another, r), NEW q \in Procs, q # p, pc'[q] = pc[q]
    PROVE  /\ run'[q] \in RunType /\ run'[q].text = run[q].text
           /\ run'[q].seen = run[q].seen /\ run'[q].added = run[q].added
           /\ Race(q)'
  <1> DEFINE new == Range(f.lines) \ Range(file.lines)
  <1>1. /\ file' = f
        /\ run'[q] = [run[q] EXCEPT !.came = run[q].came \cup new,
                                    !.mine = run[q].mine /\ ~another]
    BY DEF Becomes
  <1>2. new \subseteq Lines
    BY RangeOfSeq DEF FileType
  <1>3. run[q] \in RunType
    BY Types
  <1>4. run[q].came \cup new \in SUBSET Lines /\ (run[q].mine /\ ~another) \in BOOLEAN
    BY <1>2, <1>3 DEF RunType
  <1>5. /\ run'[q] \in RunType /\ run'[q].text = run[q].text
        /\ run'[q].seen = run[q].seen /\ run'[q].added = run[q].added
        /\ run'[q].came = run[q].came \cup new
    BY <1>1, <1>3, <1>4 DEF RunType
  <1>6. Race(q)
    BY DEF KeysInv, RaceInv
  <1>7. Race(q)'
    BY <1>1, <1>5, <1>6 DEF Race
  <1>. QED
    BY <1>5, <1>7

\* A step of run p that writes the file f.
LEMMA WriteStep ==
    ASSUME KeysInv, NEW p \in Procs, NEW from \in {"create", "rename"},
           NEW to \in {"chmod", "chown"}, Goto(p, from, to),
           NEW f \in FileType, f.here, NEW another \in BOOLEAN,
           NEW r \in RunType, r.added = run[p].added, Becomes(p, f, another, r),
           UNCHANGED <<stage, dir, temps, cuts, faults>>,
           Alone => /\ \A t \in AllAdded : t \in SubSeqs(f.lines)
                    /\ to = "chown" => r.text \in SubSeqs(f.lines)
    PROVE  KeysInv'
  <1>1. /\ pc[p] = from /\ pc'[p] = to /\ pc' \in [Procs -> Labels]
        /\ \A q \in Procs \ {p} : pc'[q] = pc[q]
    BY Types DEF Goto, Labels
  <1>2. file' = f /\ run'[p] = r /\ run' \in [Procs -> RunType]
    <2>1. \A q \in Procs \ {p} : run'[q] \in RunType
      BY <1>1, OthersAfter
    <2>2. file' = f /\ run'[p] = r /\ run' = [q \in Procs |-> run'[q]]
      BY DEF Becomes
    <2>. QED
      BY <2>1, <2>2
  <1>3. \A q \in Procs : run'[q].added = run[q].added
    <2>1. \A q \in Procs \ {p} : run'[q].added = run[q].added
      BY <1>1, OthersAfter
    <2>. QED
      BY <1>2, <2>1
  <1>4. AllAdded' = AllAdded
    BY <1>3 DEF AllAdded
  <1>5. TypeOK'
    BY <1>1, <1>2 DEF KeysInv, TypeOK
  <1>6. StageInv'
    <2>1. from \in Labels \ {"idle", "done"} /\ to \in Labels
      BY DEF Labels
    <2>. QED
      BY <2>1, StageKept
  <1>7. RaceInv'
    <2>1. \A q \in Procs \ {p} : Race(q)'
      BY <1>1, OthersAfter
    <2>2. Race(p)'
      BY <1>1 DEF Race
    <2>. QED
      BY <1>2, <2>1, <2>2 DEF RaceInv
  <1>8. KeptInv'
    <2>1. ASSUME Alone' PROVE \A q \in Procs : Kept(q)'
      <3>1. Alone
        BY <2>1, AloneBefore DEF Labels
      <3>2. ASSUME NEW q \in Procs PROVE \A t \in run'[q].added : t \in SubSeqs(f.lines)
        BY <1>3, <3>1 DEF AllAdded
      <3>3. Kept(p)'
        BY <1>1, <1>2, <3>1, <3>2 DEF Kept
      <3>4. ASSUME NEW q \in Procs \ {p} PROVE Kept(q)'
        <4>1. pc'[q] \in {"idle", "done"}
          BY <1>1, <3>1, <3>4, OneAtWork
        <4>. QED
          BY <1>2, <3>2, <4>1 DEF Kept
      <3>. QED
        BY <3>3, <3>4
    <2>. QED
      BY <1>2, <2>1 DEF KeptInv
  <1>9. UsableInv'
    <2>1. pc'[p] \in Holding
      BY <1>1 DEF Holding, Writing
    <2>. QED
      BY <2>1 DEF UsableInv
  <1>10. TempsFromCutsOnly'
    BY DEF KeysInv, TempsFromCutsOnly
  <1>. QED
    BY <1>5, <1>6, <1>7, <1>8, <1>9, <1>10 DEF KeysInv

LEMMA CreateKeys ==
    ASSUME KeysInv, NEW p \in Procs, Create(p)
    PROVE  KeysInv'
  <1> DEFINE f == IF file.here THEN [file EXCEPT !.lines = << >>]
                               ELSE [NoFile EXCEPT !.here = TRUE]
             r == [run[p] EXCEPT !.mine = TRUE]
  <1>1. /\ Goto(p, "create", "chmod") /\ Becomes(p, f, FALSE, r)
        /\ UNCHANGED <<stage, dir, temps, cuts, faults>> /\ pc[p] = "create"
    BY DEF Create, Goto
  <1>2. f \in FileType /\ f.here
    <2>1. << >> \in Seq(Lines)
      OBVIOUS
    <2>2. CASE file.here
      <3>1. f = [file EXCEPT !.lines = << >>]
        BY <2>2
      <3>. QED
        BY <2>1, <2>2, <3>1, Types DEF FileType
    <2>3. CASE ~file.here
      <3>1. f = [NoFile EXCEPT !.here = TRUE]
        BY <2>3
      <3>. QED
        BY <2>1, <3>1 DEF FileType, NoFile
    <2>. QED
      BY <2>2, <2>3
  <1>3. r \in RunType /\ r.added = run[p].added
    BY Types DEF RunType
  <1>4. Alone => AllAdded = {}
    BY <1>1 DEF KeysInv, KeptInv, Kept
  <1>. QED
    BY <1>1, <1>2, <1>3, <1>4, WriteStep

LEMMA RenameKeys ==
    ASSUME KeysInv, NEW p \in Procs, Rename(p)
    PROVE  KeysInv'
  <1> DEFINE f == [here |-> TRUE, lines |-> Extended(run[p]), private |-> run[p].private,
                   owned |-> FALSE]
  <1>1. /\ Goto(p, "rename", "chown") /\ Becomes(p, f, TRUE, run[p])
        /\ UNCHANGED <<stage, dir, temps, cuts, faults>> /\ pc[p] = "rename"
    BY DEF Rename, Goto
  <1>2. run[p] \in RunType /\ run[p].private \in BOOLEAN
    BY Types DEF RunType
  <1>3. f \in FileType /\ f.here
    BY <1>2, ExtendedKeeps DEF FileType
  <1>4. Alone => /\ \A t \in AllAdded : t \in SubSeqs(f.lines)
                 /\ run[p].text \in SubSeqs(f.lines)
    BY <1>1, <1>2, ExtendedKeeps DEF KeysInv, KeptInv, Kept
  <1>. QED
    BY <1>1, <1>2, <1>3, <1>4, WriteStep

LEMMA UserAppendKeys ==
    ASSUME KeysInv, NEW line \in UserLines, UserAppend(line)
    PROVE  KeysInv'
  <1> DEFINE f == [file EXCEPT !.here = TRUE, !.owned = TRUE, !.lines = Append(file.lines, line)]
  <1>1. /\ Becomes("user", f, FALSE, IdleRun) /\ file' = f
        /\ UNCHANGED <<stage, dir, temps, pc, cuts, faults>>
    BY DEF UserAppend, Becomes
  <1>2. file \in FileType /\ file.lines \in Seq(Lines) /\ line \in Lines
    <2>1. line \in Lines
      BY DEF Lines
    <2>. QED
      BY <2>1 DEF KeysInv, TypeOK, FileType
  <1>3. /\ f \in FileType /\ f.here /\ f.owned /\ f.lines = Append(file.lines, line)
        /\ SubSeqs(file.lines) \subseteq SubSeqs(f.lines)
    BY <1>2, PartsOfAppend DEF FileType
  <1>4. \A q \in Procs : /\ run'[q] \in RunType /\ run'[q].text = run[q].text
                         /\ run'[q].seen = run[q].seen /\ run'[q].added = run[q].added
                         /\ Race(q)'
    <2>1. "user" \notin Procs
      BY AuthorizedKeysAssumption
    <2>. QED
      BY <1>1, <1>3, <2>1, OthersAfter
  <1>5. TypeOK'
    <2>1. run' = [q \in Procs |-> run'[q]]
      BY <1>1 DEF Becomes
    <2>2. run' \in [Procs -> RunType]
      BY <1>4, <2>1
    <2>. QED
      BY <1>1, <1>3, <2>2 DEF KeysInv, TypeOK
  <1>6. RaceInv' /\ StageInv'
    BY <1>1, <1>3, <1>4 DEF KeysInv, RaceInv, StageInv
  <1>7. KeptInv'
    <2>1. AllAdded' = AllAdded
      BY <1>4 DEF AllAdded
    <2>. QED
      BY <1>1, <1>3, <1>4, <2>1 DEF KeysInv, KeptInv, Alone, Kept
  <1>8. UsableInv' /\ TempsFromCutsOnly'
    BY <1>1, <1>3 DEF KeysInv, UsableInv, TempsFromCutsOnly
  <1>. QED
    BY <1>5, <1>6, <1>7, <1>8 DEF KeysInv

----------------------------------------------------------------------------
\* The other steps.

LEMMA BootDoneKeys ==
    ASSUME KeysInv, BootDone
    PROVE  KeysInv'
  <1>1. /\ stage' = "runlevel" /\ pc["boot"] = "done"
        /\ UNCHANGED <<dir, file, temps, pc, run, cuts, faults>>
    BY DEF BootDone
  <1>2. TypeOK' /\ StageInv' /\ UsableInv' /\ TempsFromCutsOnly'
    BY <1>1 DEF KeysInv, TypeOK, StageInv, UsableInv, TempsFromCutsOnly
  <1>3. RaceInv'
    BY <1>1 DEF KeysInv, RaceInv, Race
  <1>4. KeptInv'
    BY <1>1 DEF KeysInv, KeptInv, Alone, Kept, AllAdded
  <1>. QED
    BY <1>2, <1>3, <1>4 DEF KeysInv

LEMMA ProcsFinite == IsFiniteSet(Procs) /\ Cardinality(Procs) \in Nat
  <1>1. IsFiniteSet({"boot"} \cup {"ccapply"} \cup {"operator"})
    BY FS_Singleton, FS_Union
  <1>2. Procs \subseteq {"boot"} \cup {"ccapply"} \cup {"operator"}
    BY AuthorizedKeysAssumption
  <1>. QED
    BY <1>1, <1>2, FS_Subset, FS_CardinalityType

\* A loss of power leaves at most one temporary file of every process.
LEMMA LosePowerKeys ==
    ASSUME KeysInv, LosePower
    PROVE  KeysInv'
  <1> DEFINE n == Cardinality({p \in Procs : pc[p] = "rename"})
  <1>1. /\ cuts < MaxCuts /\ cuts' = cuts + 1 /\ stage' = "boot" /\ temps' = temps + n
        /\ pc' = [p \in Procs |-> "idle"] /\ run' = [p \in Procs |-> IdleRun]
        /\ UNCHANGED <<dir, file, faults>>
    BY DEF LosePower
  <1>2. n \in Nat /\ Cardinality(Procs) \in Nat /\ n <= Cardinality(Procs)
    BY ProcsFinite, FS_Subset, FS_CardinalityType
  <1>3. cuts \in 0 .. MaxCuts /\ MaxCuts \in Nat /\ temps \in Nat
    BY AuthorizedKeysAssumption DEF KeysInv, TypeOK
  <1>4. TypeOK'
    <2>1. cuts' \in 0 .. MaxCuts /\ temps' \in Nat
      BY <1>1, <1>2, <1>3
    <2>2. run' \in [Procs -> RunType] /\ pc' \in [Procs -> Labels]
      BY <1>1, IdleRunType DEF Labels
    <2>. QED
      BY <1>1, <2>1, <2>2 DEF KeysInv, TypeOK
  <1>5. StageInv' /\ UsableInv'
    BY <1>1, <1>3 DEF StageInv, UsableInv
  <1>6. RaceInv'
    BY <1>1 DEF KeysInv, RaceInv, Race
  <1>7. KeptInv'
    BY <1>1 DEF KeptInv, Kept, IdleRun
  <1>8. TempsFromCutsOnly'
    <2>1. temps <= cuts * Cardinality(Procs)
      BY DEF KeysInv, TempsFromCutsOnly
    <2>2. (cuts + 1) * Cardinality(Procs) = cuts * Cardinality(Procs) + Cardinality(Procs)
      BY <1>2, <1>3
    <2>. QED
      BY <1>1, <1>2, <1>3, <2>1, <2>2 DEF TempsFromCutsOnly
  <1>. QED
    BY <1>4, <1>5, <1>6, <1>7, <1>8 DEF KeysInv

LEMMA InitKeys == Init => KeysInv
  <1> SUFFICES ASSUME Init PROVE KeysInv
    OBVIOUS
  <1>1. TypeOK
    <2>1. file \in FileType
      BY DEF Init, NoFile, FileType
    <2>2. run \in [Procs -> RunType] /\ pc \in [Procs -> Labels]
      BY IdleRunType DEF Init, Labels
    <2>. QED
      BY <2>1, <2>2, AuthorizedKeysAssumption DEF Init, TypeOK
  <1>2. RaceInv /\ StageInv /\ UsableInv
    BY DEF Init, NoFile, RaceInv, Race, StageInv, UsableInv
  <1>3. KeptInv
    BY DEF Init, KeptInv, Kept, IdleRun
  <1>4. TempsFromCutsOnly
    BY ProcsFinite DEF Init, TempsFromCutsOnly
  <1>. QED
    BY <1>1, <1>2, <1>3, <1>4 DEF KeysInv

LEMMA NextKeys == KeysInv /\ [Next]_vars => KeysInv'
  <1> SUFFICES ASSUME KeysInv, [Next]_vars PROVE KeysInv'
    OBVIOUS
  <1>1. ASSUME NEW p \in Procs, Step(p) \/ Fail(p) PROVE KeysInv'
    BY <1>1, StartKeys, MakeDirKeys, ChownDirKeys, KeyKeys, FetchKeys, StatKeys, CreateKeys,
       ChmodKeys, ReadKeys, TempKeys, RenameKeys, ChownKeys, FailKeys
    DEF Step
  <1>2. ASSUME NEW line \in UserLines, UserAppend(line) PROVE KeysInv'
    BY <1>2, UserAppendKeys
  <1>3. CASE BootDone
    BY <1>3, BootDoneKeys
  <1>4. CASE LosePower
    BY <1>4, LosePowerKeys
  <1>5. CASE UNCHANGED vars
    <2>1. UNCHANGED <<stage, dir, file, temps, pc, run, cuts, faults>>
      BY <1>5 DEF vars
    <2>2. TypeOK' /\ StageInv' /\ UsableInv' /\ TempsFromCutsOnly'
      BY <2>1 DEF KeysInv, TypeOK, StageInv, UsableInv, TempsFromCutsOnly
    <2>3. RaceInv' /\ KeptInv'
      BY <2>1 DEF KeysInv, RaceInv, Race, KeptInv, Alone, Kept, AllAdded
    <2>. QED
      BY <2>2, <2>3 DEF KeysInv
  <1>. QED
    BY <1>1, <1>2, <1>3, <1>4, <1>5 DEF Next, Settled

----------------------------------------------------------------------------
\* The theorems.

\* The inductive invariant, whatever the operator does.
THEOREM KeysInvariant == Spec => []KeysInv
  BY InitKeys, NextKeys, PTL DEF Spec

\* What a phase has authorized stays authorized as long as the operator runs nothing
\* beside it: neither the other phase nor the user's editing costs a key.
THEOREM AuthorizedStays == Spec => []KeysAuthorized
  <1>1. KeysInv => KeysAuthorized
    BY DEF KeysInv, KeptInv, Kept, Alone, KeysAuthorized
  <1>. QED
    BY <1>1, KeysInvariant, PTL

\* The step by which a run writes, with the operator's runs too.
LEMMA WriteLosesRaces ==
    ASSUME KeysInv, [Next]_vars, NEW p \in Procs,
           pc[p] \in {"create", "rename"}, pc'[p] \in {"chmod", "chown"}
    PROVE  Range(file.lines) \ Range(file'.lines) \subseteq run[p].came
  <1>1. Race(p) /\ pc[p] \notin {"chmod", "chown"} /\ run[p] \in RunType
    BY Types DEF KeysInv, RaceInv
  <1>2. CASE pc[p] = "create"
    BY <1>1, <1>2 DEF Race
  <1>3. CASE pc[p] = "rename"
    <2>1. pc'[p] # pc[p] /\ pc \in [Procs -> Labels]
      BY <1>1, Types
    <2>2. Rename(p)
      <3>1. ~LosePower /\ ~BootDone /\ ~Settled /\ ~UNCHANGED vars
        BY <2>1 DEF LosePower, BootDone, Settled, vars
      <3>2. \A line \in UserLines : ~UserAppend(line)
        BY <2>1 DEF UserAppend
      <3>3. PICK q \in Procs : Step(q) \/ Fail(q)
        BY <3>1, <3>2 DEF Next
      <3>4. q = p
        <4>1. \A from, to : Goto(q, from, to) => q = p
          BY <2>1 DEF Goto
        <4>. QED
          BY <3>3, <4>1 DEF Step, Fail, Start, MakeDir, ChownDir, Key, Fetched, NotFetched,
                            Stat, Create, Chmod, Read, Temp, Rename, Chown
      <3>5. \A from, to : Goto(p, from, to) => from = "rename" /\ to \in {"chmod", "chown"}
        BY <1>3, <2>1 DEF Goto
      <3>6. ~Fail(p)
        BY <3>5 DEF Fail
      <3>7. ~(Start(p) \/ MakeDir(p) \/ ChownDir(p) \/ Key(p) \/ Fetched(p) \/ NotFetched(p))
        BY <3>5 DEF Start, MakeDir, ChownDir, Key, Fetched, NotFetched
      <3>8. ~(Stat(p) \/ Create(p) \/ Chmod(p) \/ Read(p) \/ Temp(p) \/ Chown(p))
        <4>1. Create(p) => Goto(p, "create", "chmod")
          BY Zenon DEF Create
        <4>2. Chmod(p) => Goto(p, "chmod", "read")
          BY Zenon DEF Chmod
        <4>. QED
          BY <3>5, <4>1, <4>2 DEF Stat, Read, Temp, Chown
      <3>. QED
        BY <3>3, <3>4, <3>6, <3>7, <3>8 DEF Step
    <2>3. Range(run[p].seen) \subseteq Range(file'.lines)
      BY <1>1, <2>2, ExtendedKeeps DEF Rename, Becomes
    <2>. QED
      BY <1>1, <1>3, <2>3 DEF Race
  <1>. QED
    BY <1>2, <1>3

\* Whoever runs what: a run that writes the file drops no line but those that came after it
\* had looked at the file.
THEOREM OnlyRacesLoseLines == Spec => OnlyRacesLose
  <1>1. KeysInv /\ [Next]_vars =>
          [\A p \in Procs : pc[p] \in {"create", "rename"} /\ pc'[p] \in {"chmod", "chown"}
              => Range(file.lines) \ Range(file'.lines) \subseteq run[p].came]_vars
    BY WriteLosesRaces
  <1>. QED
    BY <1>1, KeysInvariant, PTL DEF Spec, OnlyRacesLose

----------------------------------------------------------------------------
\* Sums over sets of texts.

\* What fails for some subset fails for one of those that has no smaller one.
LEMMA SmallestSet ==
    ASSUME NEW S, IsFiniteSet(S), NEW B \in SUBSET SUBSET S, B # {}
    PROVE  \E b \in B : \A a \in B : a \subseteq b => a = b
  <1>1. IsWellFoundedOn(StrictSubsetOrdering(S), SUBSET S)
    BY FS_StrictSubsetOrderingWellFounded, FS_FiniteSubsetsOfFinite
  <1>2. PICK b \in B : \A a \in B : ~(<<a, b>> \in StrictSubsetOrdering(S))
    BY <1>1, WFMin
  <1>3. \A a \in B : a \subseteq b => a = b
    BY <1>2 DEF StrictSubsetOrdering
  <1>. QED
    BY <1>3

\* How MapThenSumSet takes a set apart.
Taken(s) == CHOOSE t \in s : TRUE
Sums(f, S) ==
    f = [s \in SUBSET S |-> IF s = {} THEN 0 ELSE Len(Taken(s)) + f[s \ {Taken(s)}]]

LEMMA TakenIn == ASSUME NEW s, s # {} PROVE Taken(s) \in s
  BY DEF Taken

LEMMA OneSum ==
    ASSUME NEW S, IsFiniteSet(S), NEW T \in SUBSET S, NEW U \in SUBSET S,
           NEW f, Sums(f, T), NEW g, Sums(g, U)
    PROVE  \A s \in SUBSET S : s \subseteq T /\ s \subseteq U => f[s] = g[s]
  <1> DEFINE Differ == {s \in SUBSET S : s \subseteq T /\ s \subseteq U /\ f[s] # g[s]}
  <1>1. SUFFICES ASSUME Differ # {} PROVE FALSE
    OBVIOUS
  <1>2. PICK s \in Differ : \A a \in Differ : a \subseteq s => a = s
    <2>1. PICK B : B = Differ
      OBVIOUS
    <2>2. B \in SUBSET SUBSET S /\ B # {}
      BY <1>1, <2>1
    <2>3. \E b \in B : \A a \in B : a \subseteq b => a = b
      BY <2>2, SmallestSet
    <2>. QED
      BY <2>1, <2>3
  <1>3. /\ f[s] = IF s = {} THEN 0 ELSE Len(Taken(s)) + f[s \ {Taken(s)}]
        /\ g[s] = IF s = {} THEN 0 ELSE Len(Taken(s)) + g[s \ {Taken(s)}]
    BY <1>2 DEF Sums
  <1>4. s # {}
    BY <1>2, <1>3
  <1>5. f[s \ {Taken(s)}] = g[s \ {Taken(s)}]
    BY <1>2, <1>4, TakenIn
  <1>. QED
    BY <1>2, <1>3, <1>5

LEMMA CanSum ==
    ASSUME NEW S, IsFiniteSet(S)
    PROVE  \A T \in SUBSET S : \E f : Sums(f, T)
  <1> DEFINE Stuck == {T \in SUBSET S : ~\E f : Sums(f, T)}
  <1>1. SUFFICES ASSUME Stuck # {} PROVE FALSE
    OBVIOUS
  <1>2. PICK T \in Stuck : \A a \in Stuck : a \subseteq T => a = T
    <2>1. PICK B : B = Stuck
      OBVIOUS
    <2>2. B \in SUBSET SUBSET S /\ B # {}
      BY <1>1, <2>1
    <2>3. \E b \in B : \A a \in B : a \subseteq b => a = b
      BY <2>2, SmallestSet
    <2>. QED
      BY <2>1, <2>3
  <1> DEFINE Sum(U) == CHOOSE f : Sums(f, U)
             g == [s \in SUBSET T |-> IF s = {} THEN 0
                     ELSE Len(Taken(s)) + Sum(s \ {Taken(s)})[s \ {Taken(s)}]]
  <1>3. \A U \in SUBSET T : U # T => Sums(Sum(U), U)
    <2>1. ASSUME NEW U \in SUBSET T, U # T PROVE \E f : Sums(f, U)
      BY <1>2, <2>1
    <2>. QED
      BY <2>1
  <1>4. ASSUME NEW s \in SUBSET T, s # {}
        PROVE  Sum(s \ {Taken(s)})[s \ {Taken(s)}] = g[s \ {Taken(s)}]
    <2>1. PICK U : U = s \ {Taken(s)}
      OBVIOUS
    <2>2. U \in SUBSET T /\ U # T
      BY <1>4, <2>1, TakenIn
    <2>3. Sums(Sum(U), U)
      BY <1>3, <2>2
    <2>4. Sum(U)[U] = IF U = {} THEN 0 ELSE Len(Taken(U)) + Sum(U)[U \ {Taken(U)}]
      BY <2>3 DEF Sums
    <2>5. g[U] = IF U = {} THEN 0 ELSE Len(Taken(U)) + Sum(U \ {Taken(U)})[U \ {Taken(U)}]
      BY <2>2
    <2>6. ASSUME U # {} PROVE Sum(U)[U \ {Taken(U)}] = Sum(U \ {Taken(U)})[U \ {Taken(U)}]
      <3>1. PICK V : V = U \ {Taken(U)}
        OBVIOUS
      <3>2. V \in SUBSET T /\ V # T /\ V \subseteq U
        BY <2>2, <3>1
      <3>3. Sums(Sum(V), V)
        BY <1>3, <3>2
      <3>. QED
        BY <2>2, <2>3, <3>1, <3>2, <3>3, OneSum
    <2>. QED
      BY <2>1, <2>4, <2>5, <2>6
  <1>5. \A s \in SUBSET T :
           g[s] = IF s = {} THEN 0 ELSE Len(Taken(s)) + Sum(s \ {Taken(s)})[s \ {Taken(s)}]
    OBVIOUS
  <1>6. g = [s \in SUBSET T |-> g[s]]
    OBVIOUS
  <1> HIDE DEF g, Sum
  <1>7. \A s \in SUBSET T :
           g[s] = IF s = {} THEN 0 ELSE Len(Taken(s)) + g[s \ {Taken(s)}]
    BY <1>4, <1>5
  <1>8. Sums(g, T)
    BY <1>6, <1>7 DEF Sums
  <1>. QED
    BY <1>2, <1>8
\* The sum of the lengths of the texts in a set.
Total(A) == MapThenSumSet(Len, A)

LEMMA TotalIsSum ==
    ASSUME NEW S, IsFiniteSet(S)
    PROVE  \E g : Sums(g, S) /\ Total(S) = g[S]
  <1>1. \E f : Sums(f, S)
    BY CanSum
  <1>2. \E f : f = [s \in SUBSET S |->
                       IF s = {} THEN 0 ELSE Len(Taken(s)) + f[s \ {Taken(s)}]]
    BY <1>1 DEF Sums
  <1>. QED
    BY <1>2 DEF Total, MapThenSumSet, MapThenFoldSet, Sums, Taken

LEMMA TotalTakes ==
    ASSUME NEW S, IsFiniteSet(S)
    PROVE  Total(S) = IF S = {} THEN 0 ELSE Len(Taken(S)) + Total(S \ {Taken(S)})
  <1>1. PICK f : Sums(f, S) /\ Total(S) = f[S]
    BY TotalIsSum
  <1>2. f[S] = IF S = {} THEN 0 ELSE Len(Taken(S)) + f[S \ {Taken(S)}]
    BY <1>1 DEF Sums
  <1>3. PICK T : T = S \ {Taken(S)}
    OBVIOUS
  <1>4. IsFiniteSet(T) /\ T \in SUBSET S
    BY <1>3, FS_Subset
  <1>5. PICK g : Sums(g, T) /\ Total(T) = g[T]
    BY <1>4, TotalIsSum
  <1>6. f[T] = g[T]
    BY <1>1, <1>4, <1>5, OneSum
  <1>. QED
    BY <1>1, <1>2, <1>3, <1>5, <1>6

\* Sets of texts, which are finite and have lengths.
LEMMA TotalType ==
    ASSUME NEW S, IsFiniteSet(S), \A t \in S : Len(t) \in Nat
    PROVE  \A A \in SUBSET S : IsFiniteSet(A) /\ Total(A) \in Nat
  <1>1. \A A \in SUBSET S : IsFiniteSet(A)
    BY FS_Subset
  <1>2. PICK B : B = {A \in SUBSET S : Total(A) \notin Nat}
    OBVIOUS
  <1>3. SUFFICES ASSUME B # {} PROVE FALSE
    BY <1>1, <1>2
  <1>4. PICK A \in B : \A a \in B : a \subseteq A => a = A
    BY <1>2, <1>3, SmallestSet
  <1>5. Total(A) = IF A = {} THEN 0 ELSE Len(Taken(A)) + Total(A \ {Taken(A)})
    BY <1>1, <1>2, <1>4, TotalTakes
  <1>6. A # {}
    BY <1>2, <1>4, <1>5
  <1>7. Taken(A) \in A
    BY <1>6, TakenIn
  <1>8. Total(A \ {Taken(A)}) \in Nat /\ Len(Taken(A)) \in Nat
    BY <1>2, <1>4, <1>7
  <1>. QED
    BY <1>2, <1>4, <1>5, <1>6, <1>8

\* It does not matter which text is taken out first.
LEMMA TotalSplits ==
    ASSUME NEW S, IsFiniteSet(S), \A t \in S : Len(t) \in Nat
    PROVE  \A A \in SUBSET S : \A t \in A : Total(A) = Len(t) + Total(A \ {t})
  <1>1. \A A \in SUBSET S : IsFiniteSet(A) /\ Total(A) \in Nat
    BY TotalType
  <1>2. PICK B : B = {A \in SUBSET S : \E t \in A : Total(A) # Len(t) + Total(A \ {t})}
    OBVIOUS
  <1>3. SUFFICES ASSUME B # {} PROVE FALSE
    BY <1>2
  <1>4. PICK A \in B : \A a \in B : a \subseteq A => a = A
    <2>1. B \in SUBSET SUBSET S
      BY <1>2
    <2>. QED
      BY <1>3, <2>1, SmallestSet
  <1>5. PICK t \in A : Total(A) # Len(t) + Total(A \ {t})
    BY <1>2, <1>4
  <1>6. PICK x : x = Taken(A)
    OBVIOUS
  <1>7. x \in A /\ Total(A) = Len(x) + Total(A \ {x}) /\ A \in SUBSET S
    BY <1>1, <1>2, <1>4, <1>5, <1>6, TakenIn, TotalTakes
  <1>8. x # t
    BY <1>5, <1>7
  <1>9. \A a \in SUBSET A : a # A => \A u \in a : Total(a) = Len(u) + Total(a \ {u})
    BY <1>2, <1>4
  <1>10. Total(A \ {x}) = Len(t) + Total((A \ {x}) \ {t})
    BY <1>5, <1>7, <1>8, <1>9
  <1>11. Total(A \ {t}) = Len(x) + Total((A \ {t}) \ {x})
    BY <1>5, <1>7, <1>8, <1>9
  <1>12. (A \ {x}) \ {t} = (A \ {t}) \ {x}
    OBVIOUS
  <1>13. Total((A \ {x}) \ {t}) \in Nat /\ Len(x) \in Nat /\ Len(t) \in Nat
    BY <1>1, <1>5, <1>7
  <1>14. PICK y : y = Total((A \ {x}) \ {t})
    OBVIOUS
  <1>15. /\ Total(A) = Len(x) + (Len(t) + y) /\ Total(A \ {t}) = Len(x) + y
         /\ y \in Nat /\ Len(x) \in Nat /\ Len(t) \in Nat
    BY <1>7, <1>10, <1>11, <1>12, <1>13, <1>14
  <1>16. Total(A) = Len(t) + Total(A \ {t})
    BY <1>15
  <1>. QED
    BY <1>5, <1>16

LEMMA TotalGrows ==
    ASSUME NEW S, IsFiniteSet(S), \A t \in S : Len(t) \in Nat, NEW A \in SUBSET S
    PROVE  Total(A) <= Total(S)
  <1>1. \A a \in SUBSET S : IsFiniteSet(a) /\ Total(a) \in Nat
    BY TotalType
  <1>2. PICK B : B = {a \in SUBSET S : A \subseteq a /\ ~(Total(A) <= Total(a))}
    OBVIOUS
  <1>3. SUFFICES ASSUME B # {} PROVE FALSE
    BY <1>2
  <1>4. PICK b \in B : \A a \in B : a \subseteq b => a = b
    BY <1>2, <1>3, SmallestSet
  <1>5. Total(A) \in Nat /\ A \subseteq b /\ ~(Total(A) <= Total(b)) /\ b \in SUBSET S
    BY <1>1, <1>2, <1>4
  <1>6. PICK t \in b : t \notin A
    <2>1. A # b
      BY <1>5
    <2>. QED
      BY <1>5, <2>1
  <1>7. Total(b) = Len(t) + Total(b \ {t}) /\ Len(t) \in Nat /\ Total(b \ {t}) \in Nat
    BY <1>1, <1>5, <1>6, TotalSplits
  <1>8. Total(A) <= Total(b \ {t})
    BY <1>2, <1>4, <1>5, <1>6
  <1>. QED
    BY <1>5, <1>7, <1>8
----------------------------------------------------------------------------
\* How long the file may become.

\* The lines consist of texts that are part of them and of lines of the user, each counted
\* once.
Grown(lines) ==
    \E A \in SUBSET Texts, B \in SUBSET UserLines :
        /\ \A t \in A : t \in SubSeqs(lines)
        /\ B \subseteq Range(lines)
        /\ Len(lines) <= Total(A) + Cardinality(B)

\* What is written was read, or is a text that was not there when it was read.
GrownInv ==
    /\ Grown(file.lines)
    /\ \A p \in Procs : Grown(run[p].seen) /\ run[p].text \in Texts \cup {<< >>}

LEMMA TextsFinite ==
    /\ IsFiniteSet(Texts) /\ \A t \in Texts : t \in Seq(Lines) /\ Len(t) \in Nat
    /\ \A A \in SUBSET Texts : IsFiniteSet(A) /\ Total(A) \in Nat
    /\ \A B \in SUBSET UserLines : IsFiniteSet(B) /\ Cardinality(B) \in Nat
  <1>1. IsFiniteSet(Texts) /\ \A t \in Texts : t \in Seq(Lines) /\ Len(t) \in Nat
    BY AuthorizedKeysAssumption, LenProperties
  <1>2. \A B \in SUBSET UserLines : IsFiniteSet(B) /\ Cardinality(B) \in Nat
    BY AuthorizedKeysAssumption, FS_Subset, FS_CardinalityType
  <1>. QED
    BY <1>1, <1>2, TotalType

LEMMA GrownEmpty == Grown(<< >>)
  <1>1. Total({}) = 0 /\ Cardinality({}) = 0
    BY TotalTakes, FS_EmptySet
  <1>2. Len(<< >>) = 0
    OBVIOUS
  <1>. QED
    BY <1>1, <1>2 DEF Grown

LEMMA GrownText ==
    ASSUME NEW lines \in Seq(Lines), Grown(lines), NEW t \in Texts, t \notin SubSeqs(lines)
    PROVE  Grown(lines \o t)
  <1>1. PICK A \in SUBSET Texts, B \in SUBSET UserLines :
           /\ \A u \in A : u \in SubSeqs(lines)
           /\ B \subseteq Range(lines)
           /\ Len(lines) <= Total(A) + Cardinality(B)
    BY DEF Grown
  <1>2. t \notin A /\ A \cup {t} \in SUBSET Texts /\ (A \cup {t}) \ {t} = A
    BY <1>1
  <1>3. Total(A \cup {t}) = Len(t) + Total(A)
    <2>1. \A C \in SUBSET Texts : \A u \in C : Total(C) = Len(u) + Total(C \ {u})
      BY TextsFinite, TotalSplits
    <2>. QED
      BY <1>2, <2>1
  <1>4. /\ Len(lines \o t) = Len(lines) + Len(t) /\ Len(lines) \in Nat
        /\ Range(lines \o t) = Range(lines) \cup Range(t)
        /\ SubSeqs(lines) \subseteq SubSeqs(lines \o t) /\ t \in SubSeqs(lines \o t)
    BY TextsFinite, ConcatProperties, LenProperties, RangeConcatenation, PartsOfConcat
  <1>5. Len(t) \in Nat /\ Total(A) \in Nat /\ Cardinality(B) \in Nat
    BY TextsFinite
  <1>6. Len(lines \o t) <= Total(A \cup {t}) + Cardinality(B)
    BY <1>1, <1>3, <1>4, <1>5
  <1>7. \A u \in A \cup {t} : u \in SubSeqs(lines \o t)
    BY <1>1, <1>4
  <1>8. B \subseteq Range(lines \o t)
    BY <1>1, <1>4
  <1>. QED
    BY <1>2, <1>6, <1>7, <1>8 DEF Grown

LEMMA GrownLine ==
    ASSUME NEW lines \in Seq(Lines), Grown(lines), NEW e \in UserLines, e \notin Range(lines)
    PROVE  Grown(Append(lines, e))
  <1>1. PICK A \in SUBSET Texts, B \in SUBSET UserLines :
           /\ \A u \in A : u \in SubSeqs(lines)
           /\ B \subseteq Range(lines)
           /\ Len(lines) <= Total(A) + Cardinality(B)
    BY DEF Grown
  <1>2. e \notin B /\ B \cup {e} \in SUBSET UserLines
    BY <1>1
  <1>3. Cardinality(B \cup {e}) = Cardinality(B) + 1
    BY <1>2, TextsFinite, FS_AddElement
  <1>4. e \in Lines
    BY DEF Lines
  <1>5. /\ Len(Append(lines, e)) = Len(lines) + 1 /\ Len(lines) \in Nat
        /\ Range(Append(lines, e)) = Range(lines) \cup {e}
        /\ SubSeqs(lines) \subseteq SubSeqs(Append(lines, e))
    BY <1>4, AppendProperties, LenProperties, PartsOfAppend
  <1>6. Total(A) \in Nat /\ Cardinality(B) \in Nat
    BY TextsFinite
  <1>7. Len(Append(lines, e)) <= Total(A) + Cardinality(B \cup {e})
    BY <1>1, <1>3, <1>5, <1>6
  <1>. QED
    BY <1>1, <1>2, <1>5, <1>7 DEF Grown

LEMMA GrownExtended ==
    ASSUME KeysInv, GrownInv, NEW p \in Procs
    PROVE  Grown(Extended(run[p]))
  <1>1. run[p].seen \in Seq(Lines) /\ Grown(run[p].seen)
    BY Types DEF GrownInv, RunType
  <1>2. << >> \in SubSeqs(run[p].seen)
    <2>1. Len(run[p].seen) \in Nat
      BY <1>1, LenProperties
    <2>2. 0 \in 0 .. Len(run[p].seen) /\ SubSeq(run[p].seen, 0 + 1, 0) = << >>
      BY <1>1, <2>1, SubSeqEmpty
    <2>. QED
      BY <2>2 DEF SubSeqs
  <1>3. run[p].text \in Texts \cup {<< >>}
    BY DEF GrownInv
  <1>. QED
    BY <1>1, <1>2, <1>3, GrownText DEF Extended

\* What a step may do to the file, and to what a run has read and has to add.
Lengthens ==
    \/ file'.lines \in {file.lines, << >>}
    \/ \E p \in Procs : file'.lines = Extended(run[p])
    \/ \E line \in UserLines \ Range(file.lines) : file'.lines = Append(file.lines, line)
Takes(r, q) ==
    /\ r.seen \in {run[q].seen, << >>, file.lines}
    /\ r.text \in {run[q].text, << >>} \cup Texts
AllTake == \A q \in Procs : Takes(run'[q], q)

LEMMA KnownTakes ==
    ASSUME KeysInv, NEW p \in Procs, NEW r, Takes(r, p), Known(p, r)
    PROVE  AllTake
  <1>1. run' = [run EXCEPT ![p] = r] /\ run \in [Procs -> RunType]
    BY Types DEF Known
  <1>2. \A q \in Procs : run'[q] = IF q = p THEN r ELSE run[q]
    BY <1>1
  <1>. QED
    BY <1>2 DEF AllTake, Takes

LEMMA SameTakes ==
    ASSUME NEW p
    PROVE  Takes(run[p], p) /\ (UNCHANGED run => AllTake)
  BY DEF Takes, AllTake

LEMMA SkipTakes == ASSUME NEW p, NEW a PROVE Takes(Skip(p, a), p)
  BY DEF Takes, Skip, IdleRun

LEMMA BecomesTakes ==
    ASSUME KeysInv, NEW p, NEW f, NEW another, NEW r, p \in Procs => Takes(r, p),
           Becomes(p, f, another, r)
    PROVE  AllTake /\ file' = f
  <1>1. /\ file' = f
        /\ \A q \in Procs :
              run'[q] = IF q = p THEN r
                        ELSE [run[q] EXCEPT !.came = @ \cup (Range(f.lines) \ Range(file.lines)),
                                            !.mine = @ /\ ~another]
    BY DEF Becomes
  <1>2. ASSUME NEW q \in Procs PROVE Takes(run'[q], q)
    <2>1. CASE q = p
      BY <1>1, <2>1
    <2>2. CASE q # p
      <3>1. run[q] \in RunType
        BY Types
      <3>2. run'[q].seen = run[q].seen /\ run'[q].text = run[q].text
        BY <1>1, <2>2, <3>1 DEF RunType
      <3>. QED
        BY <3>2 DEF Takes
    <2>. QED
      BY <2>1, <2>2
  <1>. QED
    BY <1>1, <1>2 DEF AllTake

\* The steps that leave the file alone.
LEMMA QuietTakes ==
    ASSUME KeysInv, NEW p \in Procs,
           \/ Start(p) \/ MakeDir(p) \/ ChownDir(p) \/ Key(p) \/ Fetched(p) \/ NotFetched(p)
           \/ Stat(p) \/ Read(p) \/ Temp(p) \/ Fail(p)
    PROVE  AllTake /\ Lengthens
  <1> USE KnownTakes, SameTakes, SkipTakes
  <1>0. run[p] \in RunType
    BY Types
  <1>1. ASSUME UNCHANGED file PROVE Lengthens
    BY <1>1 DEF Lengthens
  <1>2. ASSUME NEW text \in Texts PROVE Takes(Give(p, text), p)
    BY <1>0, <1>2 DEF Takes, Give, RunType
  <1>3. CASE Start(p) \/ MakeDir(p) \/ ChownDir(p) \/ Temp(p)
    BY <1>1, <1>3 DEF Start, MakeDir, ChownDir, Temp
  <1>4. CASE Key(p)
    <2>1. UNCHANGED file
      BY <1>4 DEF Key
    <2>2. run[p].i \in Nat \ {0} /\ Len(Config) \in Nat /\ DOMAIN Config = 1 .. Len(Config)
      BY <1>0, AuthorizedKeysAssumption DEF RunType
    <2>3. ASSUME ~(run[p].i > Len(Config)) PROVE Config[run[p].i].text \in Texts
      BY <2>2, <2>3 DEF Texts
    <2>. QED
      BY <1>1, <1>2, <1>4, <2>1, <2>3 DEF Key
  <1>5. CASE Fetched(p)
    <2>1. \A body \in Bodies : body \in Texts
      BY DEF Texts
    <2>. QED
      BY <1>1, <1>2, <1>5, <2>1 DEF Fetched
  <1>6. CASE NotFetched(p)
    <2>1. Takes([run[p] EXCEPT !.tries = @ + 1], p)
      BY <1>0 DEF Takes, RunType
    <2>. QED
      BY <1>1, <1>6, <2>1 DEF NotFetched
  <1>7. CASE Stat(p)
    <2>1. Takes([run[p] EXCEPT !.private = file.private], p)
      BY <1>0 DEF Takes, RunType
    <2>. QED
      BY <1>1, <1>7, <2>1 DEF Stat
  <1>8. CASE Read(p)
    <2>1. Takes([run[p] EXCEPT !.seen = file.lines], p)
      BY <1>0 DEF Takes, RunType
    <2>. QED
      BY <1>1, <1>8, <2>1 DEF Read
  <1>9. CASE Fail(p)
    BY <1>1, <1>9 DEF Fail
  <1>. QED
    BY <1>3, <1>4, <1>5, <1>6, <1>7, <1>8, <1>9

\* The steps that write.
LEMMA WriteTakes ==
    ASSUME KeysInv, NEW p \in Procs, Create(p) \/ Chmod(p) \/ Rename(p) \/ Chown(p)
    PROVE  AllTake /\ Lengthens
  <1>0. run[p] \in RunType /\ file \in FileType
    BY Types
  <1>1. CASE Create(p)
    <2>0. PICK f : f = IF file.here THEN [file EXCEPT !.lines = << >>]
                       ELSE [NoFile EXCEPT !.here = TRUE]
      OBVIOUS
    <2>1. PICK r : /\ r = [run[p] EXCEPT !.mine = TRUE] /\ Becomes(p, f, FALSE, r)
      BY <1>1, <2>0 DEF Create
    <2>2. f.lines = << >>
      BY <1>0, <2>0 DEF NoFile, FileType
    <2>3. Takes(r, p)
      BY <1>0, <2>1 DEF Takes, RunType
    <2>4. AllTake /\ file' = f
      BY <2>1, <2>3, BecomesTakes
    <2>. QED
      BY <2>2, <2>4 DEF Lengthens
  <1>2. CASE Chmod(p)
    <2>1. file' = [file EXCEPT !.private = file.private \/ run[p].mine]
      BY <1>2 DEF Chmod
    <2>2. file'.lines = file.lines
      BY <1>0, <2>1 DEF FileType
    <2>3. Takes([run[p] EXCEPT !.private = file'.private], p)
      BY <1>0 DEF Takes, RunType
    <2>4. Known(p, [run[p] EXCEPT !.private = file'.private])
      BY <1>2 DEF Chmod
    <2>. QED
      BY <2>2, <2>3, <2>4, KnownTakes DEF Lengthens
  <1>3. CASE Rename(p)
    <2>1. PICK f : /\ f = [here |-> TRUE, lines |-> Extended(run[p]), private |-> run[p].private,
                           owned |-> FALSE]
                   /\ Becomes(p, f, TRUE, run[p])
      BY <1>3 DEF Rename
    <2>2. AllTake /\ file' = f
      BY <2>1, BecomesTakes, SameTakes
    <2>. QED
      BY <2>1, <2>2 DEF Lengthens
  <1>4. CASE Chown(p)
    <2>1. file'.lines = file.lines
      BY <1>0, <1>4 DEF Chown, Chowned, FileType
    <2>. QED
      BY <1>4, <2>1, KnownTakes, SkipTakes DEF Chown, Lengthens
  <1>. QED
    BY <1>1, <1>2, <1>3, <1>4

LEMMA NextTakes ==
    ASSUME KeysInv, [Next]_vars
    PROVE  AllTake /\ Lengthens
  <1>1. ASSUME NEW p \in Procs, Step(p) \/ Fail(p) PROVE AllTake /\ Lengthens
    BY <1>1, QuietTakes, WriteTakes DEF Step
  <1>2. ASSUME NEW line \in UserLines, UserAppend(line) PROVE AllTake /\ Lengthens
    <2>1. PICK f : /\ f = [file EXCEPT !.here = TRUE, !.owned = TRUE,
                                       !.lines = Append(file.lines, line)]
                   /\ Becomes("user", f, FALSE, IdleRun) /\ line \notin Range(file.lines)
      BY <1>2 DEF UserAppend
    <2>2. "user" \notin Procs
      BY AuthorizedKeysAssumption
    <2>3. AllTake /\ file' = f
      BY <2>1, <2>2, BecomesTakes
    <2>4. f.lines = Append(file.lines, line)
      <3>1. file \in FileType
        BY DEF KeysInv, TypeOK
      <3>. QED
        BY <2>1, <3>1 DEF FileType
    <2>. QED
      BY <2>1, <2>3, <2>4 DEF Lengthens
  <1>3. CASE BootDone \/ UNCHANGED vars
    BY <1>3, SameTakes DEF BootDone, vars, Lengthens, AllTake, Takes
  <1>4. CASE LosePower
    <2>1. UNCHANGED file /\ \A q \in Procs : run'[q] = IdleRun
      BY <1>4 DEF LosePower
    <2>. QED
      BY <2>1 DEF IdleRun, AllTake, Takes, Lengthens
  <1>. QED
    BY <1>1, <1>2, <1>3, <1>4 DEF Next, Settled

LEMMA GrownNext ==
    ASSUME KeysInv, GrownInv, [Next]_vars
    PROVE  GrownInv'
  <1>1. Grown(file'.lines)
    <2>1. file.lines \in Seq(Lines) /\ Grown(file.lines)
      BY DEF KeysInv, TypeOK, FileType, GrownInv
    <2>. QED
      BY <2>1, NextTakes, GrownEmpty, GrownExtended, GrownLine DEF Lengthens
  <1>2. ASSUME NEW q \in Procs
        PROVE  Grown(run'[q].seen) /\ run'[q].text \in Texts \cup {<< >>}
    <2>1. Takes(run'[q], q)
      BY NextTakes DEF AllTake
    <2>2. /\ Grown(run[q].seen) /\ Grown(file.lines) /\ Grown(<< >>)
          /\ run[q].text \in Texts \cup {<< >>}
      BY GrownEmpty DEF GrownInv
    <2>. QED
      BY <2>1, <2>2 DEF Takes
  <1>. QED
    BY <1>1, <1>2 DEF GrownInv

\* However often and in whatever order the phases, the operator and the user write, and
\* wherever they are cut short: the file never holds more than each text and each line of
\* the user once, only losses of power leave temporary files, and a file that is there when
\* nobody writes is rancher's unless something went wrong.
THEOREM FileStaysInOrder == Spec => []FileInOrder
  <1>1. Init => GrownInv
    BY GrownEmpty DEF Init, NoFile, IdleRun, GrownInv
  <1>2. KeysInv /\ GrownInv /\ [Next]_vars => GrownInv'
    BY GrownNext
  <1>3. KeysInv /\ GrownInv => FileInOrder
    <2>1. SUFFICES ASSUME KeysInv, GrownInv PROVE FileInOrder
      OBVIOUS
    <2>2. TempsFromCutsOnly /\ UsableWhenIdle
      BY <2>1 DEF KeysInv, UsableInv, UsableWhenIdle, Holding
    <2>3. PICK A \in SUBSET Texts, B \in SUBSET UserLines :
             Len(file.lines) <= Total(A) + Cardinality(B)
      BY <2>1 DEF GrownInv, Grown
    <2>4. Total(A) <= Total(Texts) /\ Total(A) \in Nat /\ Total(Texts) \in Nat
      BY TextsFinite, TotalGrows
    <2>5. /\ Cardinality(B) <= Cardinality(UserLines)
          /\ Cardinality(B) \in Nat /\ Cardinality(UserLines) \in Nat
      BY AuthorizedKeysAssumption, FS_Subset, FS_CardinalityType
    <2>6. Len(file.lines) \in Nat
      BY <2>1, LenProperties DEF KeysInv, TypeOK, FileType
    <2>7. Len(file.lines) <= Total(Texts) + Cardinality(UserLines)
      BY <2>3, <2>4, <2>5, <2>6
    <2>8. GrowsWithConfigOnly
      BY <2>7 DEF Total, GrowsWithConfigOnly
    <2>. QED
      BY <2>2, <2>8 DEF FileInOrder
  <1>. QED
    BY <1>1, <1>2, <1>3, KeysInvariant, PTL DEF Spec
====
