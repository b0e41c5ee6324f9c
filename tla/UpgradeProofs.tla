---- MODULE UpgradeProofs ----
(***************************************************************************)
(* What TLAPS proves of `k3os upgrade` for any number of processes,        *)
(* versions, images, kills and failing calls.                              *)
(***************************************************************************)
EXTENDS Upgrade, TLAPS

\* An error leads to one of the labels of a run.
LEMMA ErrorPathLabels ==
    /\ DOMAIN ErrorPath \subseteq Labels
    /\ \A l \in DOMAIN ErrorPath : ErrorPath[l] \in Labels
  BY DEF ErrorPath, Labels, Preparing, Linked, Undoing

\* A directory as it is installed, and the variables of a process that is idle.
LEMMA FreshDirType ==
    ASSUME NEW v \in Alias
    PROVE  FreshDir(v) \in DirType
  BY UpgradeAssumption DEF FreshDir, DirType, Alias, Absent, Content

LEMMA FreshRunType ==
    ASSUME NEW req \in SUBSET Flags, NEW image \in [Components -> Alias],
           NEW writable \in BOOLEAN
    PROVE  FreshRun(req, image, writable) \in RunType
  <1>1. Wanted(req) \in SUBSET Components
    BY DEF Wanted, Components
  <1>2. ("remount" \in req) \in BOOLEAN
    OBVIOUS
  <1>. QED
    BY <1>1, <1>2 DEF FreshRun, RunType, Components

LEMMA IdleRunType == IdleRun \in RunType
  <1>1. [c \in Components |-> None] \in [Components -> Alias]
    BY DEF Alias
  <1>. QED
    BY <1>1, FreshRunType DEF IdleRun

\* The initial state satisfies the inductive invariant.
LEMMA InitInv == Init => UpgradeInv
  <1> SUFFICES ASSUME Init PROVE UpgradeInv
    OBVIOUS
  <1> USE UpgradeAssumption
  <1>1. TypeOK
    <2>1. fs \in [Components -> DirType]
      BY FreshDirType DEF Init, Alias
    <2>2. pc \in [Procs -> Labels] /\ run \in [Procs -> RunType]
      BY IdleRunType DEF Init, Labels
    <2>3. kills \in 0 .. MaxKills /\ faults \in 0 .. MaxFaults
      BY DEF Init
    <2>4. lock \in Procs \cup {NoProc} /\ shutdown \in BOOLEAN
      BY DEF Init
    <2>. QED
      BY <2>1, <2>2, <2>3, <2>4 DEF TypeOK
  <1>2. CurrentBoots
    BY DEF Init, CurrentBoots, FreshDir, HasDir
  <1>3. FallbackKept
    BY DEF Init, FallbackKept, FreshDir
  <1>4. \A p \in Procs : RunInv(p)
    BY DEF Init, RunInv, Preparing, Linked, Undoing
  <1>. QED
    BY <1>1, <1>2, <1>3, <1>4 DEF UpgradeInv

----------------------------------------------------------------------------
\* Every step preserves the inductive invariant: one lemma per action.  First
\* what the actions have in common.

\* What the invariant says of a process and of the directory it is at.
Here(p) ==
    /\ pc[p] \in Labels /\ run[p] \in RunType
    /\ Key(p) \in Components /\ Target(p) \in Alias
    /\ Dir(p) \in DirType
    /\ HasDir(Key(p)) => /\ Dir(p).current # None
                         /\ Dir(p).tree[Dir(p).current] = "whole"
    /\ LET u == Dir(p).previous IN
           u # None => "whole" \in {Dir(p).tree[u], Dir(p).old[u]}
    /\ RunInv(p)

LEMMA HereHolds == ASSUME UpgradeInv, NEW p \in Procs PROVE Here(p)
  <1>1. run[p] \in RunType /\ pc[p] \in Labels /\ fs \in [Components -> DirType]
    BY DEF UpgradeInv, TypeOK
  <1>2. Key(p) \in Components /\ Target(p) \in Alias
    BY <1>1 DEF RunType, Key, Target
  <1>. QED
    BY <1>1, <1>2 DEF Here, Dir, UpgradeInv, CurrentBoots, FallbackKept

\* The lock is exclusive, so while p runs the others are idle, and nothing is
\* asked of an idle process.
LEMMA OthersIdle ==
    ASSUME UpgradeInv, NEW p \in Procs, lock \in {p, NoProc}, lock' \in {p, NoProc},
           NEW q \in Procs, q # p, pc'[q] = pc[q]
    PROVE  RunInv(q)'
  <1>1. pc[q] = "idle"
    BY UpgradeAssumption DEF UpgradeInv, RunInv
  <1>2. lock' # q
    BY UpgradeAssumption
  <1>. QED
    BY <1>1, <1>2 DEF RunInv, Preparing, Linked, Undoing

\* A step of process p, with what has to be shown of it.
LEMMA ProcStep ==
    ASSUME UpgradeInv, NEW p \in Procs, NEW l \in Labels, Goto(p, l),
           lock \in {p, NoProc}, lock' \in {p, NoProc},
           fs' \in [Components -> DirType], CurrentBoots', FallbackKept',
           run' \in [Procs -> RunType], RunInv(p)',
           shutdown' \in BOOLEAN, kills' \in 0 .. MaxKills, faults' \in 0 .. MaxFaults
    PROVE  UpgradeInv'
  <1>1. pc' \in [Procs -> Labels] /\ \A q \in Procs \ {p} : pc'[q] = pc[q]
    BY DEF Goto, UpgradeInv, TypeOK
  <1>2. TypeOK'
    BY <1>1 DEF TypeOK
  <1>3. \A q \in Procs \ {p} : RunInv(q)'
    BY <1>1, OthersIdle
  <1>. QED
    BY <1>2, <1>3 DEF UpgradeInv

\* A step that leaves the disk alone cannot break what is said of the disk.
LEMMA SameFiles ==
    ASSUME UpgradeInv, UNCHANGED fs
    PROVE  fs' \in [Components -> DirType] /\ CurrentBoots' /\ FallbackKept'
  BY DEF UpgradeInv, TypeOK, CurrentBoots, FallbackKept, HasDir

\* One directory changes, to one that boots and keeps its fallback.
LEMMA SetDirStep ==
    ASSUME UpgradeInv, NEW c \in Components, NEW d \in DirType, SetDir(c, d),
           HasDir(c) => d.current # None /\ d.tree[d.current] = "whole",
           d.previous # None => "whole" \in {d.tree[d.previous], d.old[d.previous]}
    PROVE  /\ fs' \in [Components -> DirType] /\ fs'[c] = d
           /\ CurrentBoots' /\ FallbackKept'
  <1>1. fs \in [Components -> DirType]
    BY DEF UpgradeInv, TypeOK
  <1>2. fs' \in [Components -> DirType] /\ fs'[c] = d
    BY <1>1 DEF SetDir
  <1>3. \A e \in Components \ {c} : fs'[e] = fs[e]
    BY <1>1 DEF SetDir
  <1>4. CurrentBoots'
    BY <1>2, <1>3 DEF UpgradeInv, CurrentBoots, HasDir
  <1>5. FallbackKept'
    BY <1>2, <1>3 DEF UpgradeInv, FallbackKept
  <1>. QED
    BY <1>2, <1>4, <1>5

\* The directories after the renames, field by field.
LEMMA MovedAsideDir ==
    ASSUME NEW d \in DirType, NEW v \in Versions
    PROVE  /\ MovedAside(d, v) \in DirType
           /\ MovedAside(d, v).tree = [d.tree EXCEPT ![v] = "absent"]
           /\ MovedAside(d, v).old = [d.old EXCEPT ![v] = d.tree[v]]
           /\ MovedAside(d, v).current = d.current
           /\ MovedAside(d, v).previous = d.previous
           /\ MovedAside(d, v).tmp = d.tmp /\ MovedAside(d, v).temp = d.temp
  BY DEF MovedAside, DirType

LEMMA MovedBackDir ==
    ASSUME NEW d \in DirType, NEW v \in Versions
    PROVE  /\ MovedBack(d, v) \in DirType
           /\ MovedBack(d, v).tree = [d.tree EXCEPT ![v] = d.old[v]]
           /\ MovedBack(d, v).old = [d.old EXCEPT ![v] = "absent"]
           /\ MovedBack(d, v).current = d.current
           /\ MovedBack(d, v).previous = d.previous
           /\ MovedBack(d, v).tmp = d.tmp /\ MovedBack(d, v).temp = d.temp
  BY DEF MovedBack, DirType

LEMMA PublishedDir ==
    ASSUME NEW d \in DirType, NEW v \in Versions, d.temp = "whole"
    PROVE  /\ Published(d, v) \in DirType
           /\ Published(d, v).tree = [d.tree EXCEPT ![v] = "whole"]
           /\ Published(d, v).old = d.old
           /\ Published(d, v).current = d.current
           /\ Published(d, v).previous = d.previous
           /\ Published(d, v).tmp = d.tmp
  BY DEF Published, DirType, Content

\* A system call that succeeds, with what has to be shown of it.
LEMMA CallStep ==
    ASSUME UpgradeInv, NEW p \in Procs,
           NEW from \in Labels \ {"idle"}, NEW to \in Labels \ {"idle"}, Call(p, from, to),
           fs' \in [Components -> DirType], CurrentBoots', FallbackKept',
           run' \in [Procs -> RunType], RunInv(p)'
    PROVE  UpgradeInv'
  <1>1. lock = p
    BY DEF Call, UpgradeInv, RunInv
  <1>2. /\ lock' = lock /\ shutdown' \in BOOLEAN
        /\ kills' \in 0 .. MaxKills /\ faults' \in 0 .. MaxFaults
    BY DEF Call, UpgradeInv, TypeOK
  <1>3. Goto(p, to)
    BY DEF Call
  <1>. QED
    BY <1>1, <1>2, <1>3, ProcStep

\* What a call leaves in place of the control state.
LEMMA CallFrame ==
    ASSUME UpgradeInv, NEW p \in Procs, NEW from, NEW to, Call(p, from, to), UNCHANGED run
    PROVE  /\ pc'[p] = to /\ lock' = lock /\ faults' = faults
           /\ Key(p)' = Key(p) /\ Target(p)' = Target(p)
           /\ run' \in [Procs -> RunType]
  BY DEF Call, Goto, UpgradeInv, TypeOK, Key, Target

\* Between components and outside of a run nothing is said of a directory.
LEMMA Between ==
    ASSUME NEW p \in Procs, pc'[p] \in {"idle", "next", "reboot", "exit"},
           (pc'[p] # "idle" <=> lock' = p)
    PROVE  RunInv(p)'
  BY DEF RunInv, Preparing, Linked, Undoing

----------------------------------------------------------------------------
\* Run.

\* A run begins.
LEMMA BeginInv ==
    ASSUME UpgradeInv, NEW p \in Procs,
           NEW req \in Requests, NEW image \in Releases, Begin(p, req, image)
    PROVE  UpgradeInv'
  <1>1. run' \in [Procs -> RunType]
    <2>1. req \in SUBSET Flags /\ image \in [Components -> Alias]
      BY UpgradeAssumption DEF Alias
    <2>2. \A w \in BOOLEAN : FreshRun(req, image, w) \in RunType
      BY <2>1, FreshRunType
    <2>3. \E w \in BOOLEAN : run' = [run EXCEPT ![p] = FreshRun(req, image, w)]
      BY DEF Begin
    <2>. QED
      BY <2>2, <2>3 DEF UpgradeInv, TypeOK
  <1>2. Goto(p, "next") /\ pc'[p] = "next" /\ "next" \in Labels
    BY DEF Begin, Goto, UpgradeInv, TypeOK, Labels
  <1>3. lock = NoProc /\ lock' = p
    BY DEF Begin, LockFree
  <1>4. fs' \in [Components -> DirType] /\ CurrentBoots' /\ FallbackKept'
    BY SameFiles DEF Begin
  <1>5. RunInv(p)'
    BY <1>2, <1>3, Between
  <1>6. shutdown' \in BOOLEAN /\ kills' \in 0 .. MaxKills /\ faults' \in 0 .. MaxFaults
    BY DEF Begin, UpgradeInv, TypeOK
  <1>. QED
    BY <1>1, <1>2, <1>3, <1>4, <1>5, <1>6, ProcStep

\* What Skip and Take have in common.
LEMMA TurnStep ==
    ASSUME UpgradeInv, NEW p \in Procs, NEW c \in Components, Turn(p, c)
    PROVE  /\ lock = p /\ lock' = p /\ faults' = faults /\ fs' = fs
           /\ run' \in [Procs -> RunType]
           /\ Key(p)' = c /\ Target(p)' = run[p].image[c]
           /\ fs' \in [Components -> DirType] /\ CurrentBoots' /\ FallbackKept'
           /\ shutdown' \in BOOLEAN
           /\ kills' \in 0 .. MaxKills /\ faults' \in 0 .. MaxFaults
  <1>1. run[p] \in RunType
    BY DEF UpgradeInv, TypeOK
  <1>2. /\ Considered(run[p], c) \in RunType
        /\ Considered(run[p], c).key = c
        /\ Considered(run[p], c).image = run[p].image
    BY <1>1 DEF Considered, RunType
  <1>3. run' \in [Procs -> RunType] /\ run'[p] = Considered(run[p], c)
    BY <1>2 DEF Turn, UpgradeInv, TypeOK
  <1>4. Key(p)' = c /\ Target(p)' = run[p].image[c]
    BY <1>2, <1>3 DEF Key, Target
  <1>5. lock = p /\ lock' = p
    BY DEF Turn, UpgradeInv, RunInv
  <1>6. fs' \in [Components -> DirType] /\ CurrentBoots' /\ FallbackKept'
    BY SameFiles DEF Turn
  <1>. QED
    BY <1>3, <1>4, <1>5, <1>6 DEF Turn, UpgradeInv, TypeOK

\* A component is skipped.
LEMMA SkipInv ==
    ASSUME UpgradeInv, NEW p \in Procs, Skip(p)
    PROVE  UpgradeInv'
  <1>1. PICK c \in Components : Turn(p, c)
    BY DEF Skip
  <1>2. Goto(p, "next") /\ pc'[p] = "next" /\ "next" \in Labels
    BY DEF Skip, Goto, UpgradeInv, TypeOK, Labels
  <1>3. RunInv(p)'
    BY <1>1, <1>2, TurnStep, Between
  <1>. QED
    BY <1>1, <1>2, <1>3, TurnStep, ProcStep

\* A component is taken: `current` is not its version, or is not there.
LEMMA TakeInv ==
    ASSUME UpgradeInv, NEW p \in Procs, Take(p)
    PROVE  UpgradeInv'
  <1>1. PICK c \in Components : /\ Turn(p, c) /\ HasNews(p, c)
                                /\ \E l \in {"remount", "link"} : Goto(p, l)
    BY DEF Take
  <1>2. PICK l \in {"remount", "link"} : Goto(p, l)
    BY <1>1
  <1>3. l \in Labels /\ pc'[p] = l
    BY <1>2 DEF Goto, UpgradeInv, TypeOK, Labels, Preparing
  <1>4. run[p].image[c] # None /\ (HasDir(c) => run[p].image[c] # fs[c].current)
    BY <1>1 DEF HasNews, UpToDate, UpgradeInv, CurrentBoots
  <1>5. RunInv(p)'
    BY <1>1, <1>3, <1>4, TurnStep DEF RunInv, Dir, Preparing, Linked, Undoing, HasDir
  <1>. QED
    BY <1>1, <1>2, <1>3, <1>5, TurnStep, ProcStep

\* All components have been considered, and a reboot is asked for.
LEMMA FinishInv ==
    ASSUME UpgradeInv, NEW p \in Procs, Finish(p)
    PROVE  UpgradeInv'
  <1>1. PICK l \in {"reboot", "exit"} : Goto(p, l)
    BY DEF Finish
  <1>2. l \in Labels /\ pc'[p] = l
    BY <1>1 DEF Goto, UpgradeInv, TypeOK, Labels
  <1>3. lock = p /\ lock' = p
    BY DEF Finish, UpgradeInv, RunInv
  <1>4. fs' \in [Components -> DirType] /\ CurrentBoots' /\ FallbackKept'
    BY SameFiles DEF Finish
  <1>5. RunInv(p)'
    BY <1>2, <1>3, Between
  <1>6. /\ run' \in [Procs -> RunType] /\ shutdown' \in BOOLEAN
        /\ kills' \in 0 .. MaxKills /\ faults' \in 0 .. MaxFaults
    BY DEF Finish, UpgradeInv, TypeOK
  <1>. QED
    BY <1>1, <1>2, <1>3, <1>4, <1>5, <1>6, ProcStep

LEMMA RebootInv ==
    ASSUME UpgradeInv, NEW p \in Procs, Reboot(p)
    PROVE  UpgradeInv'
  <1>1. Goto(p, "exit") /\ "exit" \in Labels /\ pc'[p] = "exit"
    BY DEF Reboot, Goto, UpgradeInv, TypeOK, Labels
  <1>2. lock = p /\ lock' = p
    BY DEF Reboot, UpgradeInv, RunInv
  <1>3. fs' \in [Components -> DirType] /\ CurrentBoots' /\ FallbackKept'
    BY SameFiles DEF Reboot
  <1>4. RunInv(p)'
    BY <1>1, <1>2, Between
  <1>5. /\ run' \in [Procs -> RunType] /\ shutdown' \in BOOLEAN
        /\ kills' \in 0 .. MaxKills /\ faults' \in 0 .. MaxFaults
    BY DEF Reboot, UpgradeInv, TypeOK
  <1>. QED
    BY <1>1, <1>2, <1>3, <1>4, <1>5, ProcStep

\* A run exits.
LEMMA ExitInv ==
    ASSUME UpgradeInv, NEW p \in Procs, Exit(p)
    PROVE  UpgradeInv'
  <1>1. Goto(p, "idle") /\ "idle" \in Labels /\ pc'[p] = "idle"
    BY DEF Exit, Goto, UpgradeInv, TypeOK, Labels
  <1>2. lock = p /\ lock' = NoProc
    BY DEF Exit, UpgradeInv, RunInv
  <1>3. fs' \in [Components -> DirType] /\ CurrentBoots' /\ FallbackKept'
    BY SameFiles DEF Exit
  <1>4. RunInv(p)'
    BY <1>1, <1>2, Between, UpgradeAssumption
  <1>5. run' \in [Procs -> RunType]
    BY IdleRunType DEF Exit, UpgradeInv, TypeOK
  <1>6. shutdown' \in BOOLEAN /\ kills' \in 0 .. MaxKills /\ faults' \in 0 .. MaxFaults
    BY DEF Exit, UpgradeInv, TypeOK
  <1>. QED
    BY <1>1, <1>2, <1>3, <1>4, <1>5, <1>6, ProcStep

----------------------------------------------------------------------------
\* CopyComponent.

\* The mount is made writable.
LEMMA RemountInv ==
    ASSUME UpgradeInv, NEW p \in Procs, Remount(p)
    PROVE  UpgradeInv'
  <1>1. Here(p) /\ run \in [Procs -> RunType]
    BY HereHolds DEF UpgradeInv, TypeOK
  <1>2. /\ run' \in [Procs -> RunType]
        /\ Key(p)' = Key(p) /\ Target(p)' = Target(p)
    BY <1>1 DEF Remount, RunType, Key, Target
  <1>3. fs' \in [Components -> DirType] /\ CurrentBoots' /\ FallbackKept'
    BY SameFiles DEF Remount
  <1>4. pc[p] = "remount" /\ pc'[p] = "link" /\ lock' = lock /\ Dir(p)' = Dir(p)
    BY <1>2 DEF Remount, Call, Goto, UpgradeInv, TypeOK, Dir
  <1>5. RunInv(p)'
    BY <1>1, <1>2, <1>4 DEF Here, RunInv, Preparing, Linked, Undoing, HasDir
  <1>. QED
    BY <1>2, <1>3, <1>5, CallStep DEF Remount, Labels, Preparing

\* current.tmp is made.
LEMMA LinkInv ==
    ASSUME UpgradeInv, NEW p \in Procs, Link(p)
    PROVE  UpgradeInv'
  <1> DEFINE d == Dir(p)  v == Target(p)  e == [d EXCEPT !.tmp = v]
  <1>1. /\ Key(p) \in Components /\ d \in DirType /\ v \in Alias /\ v # None
        /\ lock = p /\ HasDir(Key(p)) /\ v # d.current
    BY HereHolds DEF Here, Link, Call, Blocked, RunInv, Preparing
  <1>2. /\ e \in DirType /\ e.tree = d.tree /\ e.old = d.old
        /\ e.current = d.current /\ e.previous = d.previous /\ e.tmp = v
    BY <1>1 DEF DirType
  <1>3. /\ fs' \in [Components -> DirType] /\ fs'[Key(p)] = e
        /\ CurrentBoots' /\ FallbackKept'
    BY <1>1, <1>2, SetDirStep, HereHolds DEF Here, Link
  <1>4. /\ pc'[p] = "mktemp" /\ lock' = lock
        /\ Key(p)' = Key(p) /\ Target(p)' = v
    BY CallFrame DEF Link
  <1>5. RunInv(p)'
    BY <1>1, <1>2, <1>3, <1>4 DEF RunInv, Dir, Preparing, Linked, Undoing, HasDir
  <1>. QED
    BY <1>3, <1>5, CallStep, CallFrame DEF Link, Labels, Preparing

\* The temporary directory is made.
LEMMA MkTempInv ==
    ASSUME UpgradeInv, NEW p \in Procs, MkTemp(p)
    PROVE  UpgradeInv'
  <1> DEFINE d == Dir(p)  v == Target(p)
             e == [d EXCEPT !.temp = "partial", !.litter = @ \/ d.temp # "absent"]
  <1>1. /\ Key(p) \in Components /\ d \in DirType /\ v # None
        /\ lock = p /\ HasDir(Key(p)) /\ v # d.current /\ d.tmp = v
    BY HereHolds DEF Here, MkTemp, Call, RunInv, Preparing, Linked
  <1>2. /\ e \in DirType /\ e.tree = d.tree /\ e.old = d.old
        /\ e.current = d.current /\ e.previous = d.previous /\ e.tmp = d.tmp
    BY <1>1 DEF DirType, Content
  <1>3. /\ fs' \in [Components -> DirType] /\ fs'[Key(p)] = e
        /\ CurrentBoots' /\ FallbackKept'
    BY <1>1, <1>2, SetDirStep, HereHolds DEF Here, MkTemp
  <1>4. /\ pc'[p] = "copy" /\ lock' = lock
        /\ Key(p)' = Key(p) /\ Target(p)' = v
    BY CallFrame DEF MkTemp
  <1>5. RunInv(p)'
    BY <1>1, <1>2, <1>3, <1>4 DEF RunInv, Dir, Preparing, Linked, Undoing, HasDir
  <1>. QED
    BY <1>3, <1>5, CallStep, CallFrame DEF MkTemp, Labels, Preparing

\* The copy completes.
LEMMA CopyInv ==
    ASSUME UpgradeInv, NEW p \in Procs, Copy(p)
    PROVE  UpgradeInv'
  <1> DEFINE d == Dir(p)  v == Target(p)  e == [d EXCEPT !.temp = "whole"]
  <1>1. /\ Key(p) \in Components /\ d \in DirType /\ v # None
        /\ lock = p /\ HasDir(Key(p)) /\ v # d.current /\ d.tmp = v
    BY HereHolds DEF Here, Copy, Call, RunInv, Preparing, Linked
  <1>2. /\ e \in DirType /\ e.tree = d.tree /\ e.old = d.old
        /\ e.current = d.current /\ e.previous = d.previous /\ e.tmp = d.tmp
        /\ e.temp = "whole"
    BY <1>1 DEF DirType, Content
  <1>3. /\ fs' \in [Components -> DirType] /\ fs'[Key(p)] = e
        /\ CurrentBoots' /\ FallbackKept'
    BY <1>1, <1>2, SetDirStep, HereHolds DEF Here, Copy
  <1>4. /\ pc'[p] = "aside" /\ lock' = lock
        /\ Key(p)' = Key(p) /\ Target(p)' = v
    BY CallFrame DEF Copy
  <1>5. RunInv(p)'
    BY <1>1, <1>2, <1>3, <1>4 DEF RunInv, Dir, Preparing, Linked, Undoing, HasDir
  <1>. QED
    BY <1>3, <1>5, CallStep, CallFrame DEF Copy, Labels, Preparing

\* The version in the way, which is not `current`, makes room.
LEMMA AsideInv ==
    ASSUME UpgradeInv, NEW p \in Procs, Aside(p)
    PROVE  UpgradeInv'
  <1> DEFINE d == Dir(p)  v == Target(p)  e == MovedAside(d, v)
  <1>1. /\ Key(p) \in Components /\ d \in DirType /\ v \in Versions /\ v # None
        /\ lock = p /\ HasDir(Key(p)) /\ v # d.current
        /\ d.tmp = v /\ d.temp = "whole"
    BY HereHolds DEF Here, Aside, Call, RunInv, Preparing, Linked, Alias
  <1>2. CASE d.tree[v] = "absent"
    <2>1. UNCHANGED <<fs, run>> /\ Call(p, "aside", "publish")
      BY <1>2 DEF Aside
    <2>2. fs' \in [Components -> DirType] /\ CurrentBoots' /\ FallbackKept'
      BY <2>1, SameFiles
    <2>3. RunInv(p)'
      BY <1>1, <1>2, <2>1, CallFrame
      DEF RunInv, Dir, Preparing, Linked, Undoing, HasDir
    <2>. QED
      BY <2>1, <2>2, <2>3, CallStep, CallFrame DEF Labels, Preparing
  <1>3. CASE d.tree[v] # "absent"
    <2>1. /\ Call(p, "aside", "publish") /\ SetDir(Key(p), e)
          /\ run' = [run EXCEPT ![p].moved = TRUE]
      BY <1>3 DEF Aside
    <2>2. run \in [Procs -> RunType]
      BY DEF UpgradeInv, TypeOK
    <2>3. run' \in [Procs -> RunType] /\ Key(p)' = Key(p) /\ Target(p)' = v
      BY <2>1, <2>2 DEF RunType, Key, Target
    <2>4. /\ e \in DirType /\ e.tree = [d.tree EXCEPT ![v] = "absent"]
          /\ e.old = [d.old EXCEPT ![v] = d.tree[v]]
          /\ e.current = d.current /\ e.previous = d.previous
          /\ e.tmp = d.tmp /\ e.temp = d.temp
      BY <1>1, MovedAsideDir
    <2>5. d.tree \in [Versions -> {"absent", "whole"}] /\ d.current \in Alias
      BY <1>1 DEF DirType
    <2>6. d.current # None /\ e.tree[e.current] = "whole" /\ e.tree[v] = "absent"
      BY <1>1, <2>4, <2>5, HereHolds DEF Here, Alias
    <2>7. LET u == d.previous IN u # None => "whole" \in {e.tree[u], e.old[u]}
      <3>1. d.old \in [Versions -> {"absent", "whole"}] /\ d.previous \in Alias
        BY <1>1 DEF DirType
      <3>2. LET u == d.previous IN u # None => "whole" \in {d.tree[u], d.old[u]}
        BY HereHolds DEF Here
      <3>3. d.tree[v] = "whole"
        BY <1>1, <1>3, <2>5
      <3>. QED
        BY <1>1, <2>4, <2>5, <3>1, <3>2, <3>3 DEF Alias
    <2>8. /\ fs' \in [Components -> DirType] /\ fs'[Key(p)] = e
          /\ CurrentBoots' /\ FallbackKept'
      BY <1>1, <2>1, <2>4, <2>6, <2>7, SetDirStep
    <2>9. pc'[p] = "publish" /\ lock' = lock
      BY <2>1 DEF Call, Goto, UpgradeInv, TypeOK
    <2>10. RunInv(p)'
      BY <1>1, <2>3, <2>4, <2>6, <2>8, <2>9
      DEF RunInv, Dir, Preparing, Linked, Undoing, HasDir
    <2>. QED
      BY <2>1, <2>3, <2>8, <2>10, CallStep DEF Labels, Preparing
  <1>. QED
    BY <1>2, <1>3

\* The complete copy gets its name.
LEMMA PublishInv ==
    ASSUME UpgradeInv, NEW p \in Procs, Publish(p)
    PROVE  UpgradeInv'
  <1> DEFINE d == Dir(p)  v == Target(p)  e == Published(d, v)
  <1>1. /\ Key(p) \in Components /\ d \in DirType /\ v \in Versions /\ v # None
        /\ lock = p /\ HasDir(Key(p)) /\ d.tmp = v /\ d.temp = "whole"
    BY HereHolds DEF Here, Publish, Call, RunInv, Preparing, Linked, Alias
  <1>2. /\ e \in DirType /\ e.tree = [d.tree EXCEPT ![v] = "whole"] /\ e.old = d.old
        /\ e.current = d.current /\ e.previous = d.previous /\ e.tmp = d.tmp
    BY <1>1, PublishedDir
  <1>3. d.tree \in [Versions -> {"absent", "whole"}]
    BY <1>1 DEF DirType
  <1>4. e.tree[v] = "whole" /\ \A w \in Versions : d.tree[w] = "whole" => e.tree[w] = "whole"
    BY <1>1, <1>2, <1>3
  <1>5. d.current \in Alias /\ d.previous \in Alias
    BY <1>1 DEF DirType
  <1>6. /\ fs' \in [Components -> DirType] /\ fs'[Key(p)] = e
        /\ CurrentBoots' /\ FallbackKept'
    <2>1. d.current # None /\ e.tree[d.current] = "whole"
      BY <1>1, <1>4, <1>5, HereHolds DEF Here, Alias
    <2>2. LET u == d.previous IN u # None => "whole" \in {e.tree[u], e.old[u]}
      BY <1>2, <1>4, <1>5, HereHolds DEF Here, Alias
    <2>. QED
      BY <1>1, <1>2, <2>1, <2>2, SetDirStep DEF Publish
  <1>7. /\ pc'[p] = "dropPrev" /\ lock' = lock
        /\ Key(p)' = Key(p) /\ Target(p)' = v
    BY CallFrame DEF Publish
  <1>8. RunInv(p)'
    BY <1>1, <1>2, <1>4, <1>6, <1>7 DEF RunInv, Dir, Preparing, Linked, Undoing, HasDir
  <1>. QED
    BY <1>6, <1>8, CallStep, CallFrame DEF Publish, Labels, Preparing, Linked

\* `previous` is removed.
LEMMA DropPrevInv ==
    ASSUME UpgradeInv, NEW p \in Procs, DropPrev(p)
    PROVE  UpgradeInv'
  <1> DEFINE d == Dir(p)  v == Target(p)  e == [d EXCEPT !.previous = None]
  <1>1. /\ Key(p) \in Components /\ d \in DirType /\ v # None
        /\ lock = p /\ HasDir(Key(p)) /\ d.tmp = v /\ d.tree[v] = "whole"
    BY HereHolds DEF Here, DropPrev, Call, RunInv, Linked
  <1>2. /\ e \in DirType /\ e.tree = d.tree /\ e.old = d.old
        /\ e.current = d.current /\ e.previous = None /\ e.tmp = d.tmp
    BY <1>1 DEF DirType, Alias
  <1>3. /\ fs' \in [Components -> DirType] /\ fs'[Key(p)] = e
        /\ CurrentBoots' /\ FallbackKept'
    BY <1>1, <1>2, SetDirStep, HereHolds DEF Here, DropPrev
  <1>4. /\ pc'[p] = "keepPrev" /\ lock' = lock /\ faults' = faults
        /\ Key(p)' = Key(p) /\ Target(p)' = v
    BY CallFrame DEF DropPrev
  <1>5. RunInv(p)'
    BY <1>1, <1>2, <1>3, <1>4 DEF RunInv, Dir, Preparing, Linked, Undoing, HasDir
  <1>. QED
    BY <1>3, <1>5, CallStep, CallFrame DEF DropPrev, Labels, Linked

\* `previous` becomes what `current` is, which is on the disk.
LEMMA KeepPrevInv ==
    ASSUME UpgradeInv, NEW p \in Procs, KeepPrev(p)
    PROVE  UpgradeInv'
  <1> DEFINE d == Dir(p)  v == Target(p)  e == [d EXCEPT !.previous = d.current]
  <1>1. /\ Key(p) \in Components /\ d \in DirType /\ v # None
        /\ lock = p /\ HasDir(Key(p)) /\ d.tmp = v /\ d.tree[v] = "whole"
        /\ d.current # None /\ d.tree[d.current] = "whole"
    BY HereHolds DEF Here, KeepPrev, Call, RunInv, Linked
  <1>2. /\ e \in DirType /\ e.tree = d.tree /\ e.old = d.old
        /\ e.current = d.current /\ e.previous = d.current /\ e.tmp = d.tmp
    BY <1>1 DEF DirType
  <1>3. /\ fs' \in [Components -> DirType] /\ fs'[Key(p)] = e
        /\ CurrentBoots' /\ FallbackKept'
    BY <1>1, <1>2, SetDirStep DEF KeepPrev
  <1>4. /\ pc'[p] = "switch" /\ lock' = lock /\ faults' = faults
        /\ Key(p)' = Key(p) /\ Target(p)' = v
    BY CallFrame DEF KeepPrev
  <1>5. RunInv(p)'
    BY <1>1, <1>2, <1>3, <1>4 DEF RunInv, Dir, Preparing, Linked, Undoing, HasDir
  <1>. QED
    BY <1>3, <1>5, CallStep, CallFrame DEF KeepPrev, Labels, Linked

\* `current` becomes what current.tmp is: the version published before.
LEMMA SwitchInv ==
    ASSUME UpgradeInv, NEW p \in Procs, Switch(p)
    PROVE  UpgradeInv'
  <1> DEFINE d == Dir(p)  v == Target(p)  e == [d EXCEPT !.current = d.tmp, !.tmp = None]
             r == [run[p] EXCEPT !.copied = TRUE, !.remount = FALSE]
  <1>1. /\ Key(p) \in Components /\ d \in DirType /\ v # None
        /\ lock = p /\ HasDir(Key(p)) /\ d.tmp = v /\ d.tree[v] = "whole"
    BY HereHolds DEF Here, Switch, Call, RunInv, Linked
  <1>2. run \in [Procs -> RunType]
    BY DEF UpgradeInv, TypeOK
  <1>3. r \in RunType /\ r.key = run[p].key /\ r.image = run[p].image
    BY <1>2 DEF RunType
  <1>4. run' \in [Procs -> RunType] /\ Key(p)' = Key(p) /\ Target(p)' = v
    BY <1>2, <1>3 DEF Switch, Key, Target
  <1>5. /\ e \in DirType /\ e.tree = d.tree /\ e.old = d.old
        /\ e.current = v /\ e.previous = d.previous /\ e.tmp = None
    BY <1>1 DEF DirType, Alias
  <1>6. /\ fs' \in [Components -> DirType] /\ fs'[Key(p)] = e
        /\ CurrentBoots' /\ FallbackKept'
    BY <1>1, <1>5, SetDirStep, HereHolds DEF Here, Switch
  <1>7. pc'[p] = "undoOld" /\ lock' = lock
    BY DEF Switch, Call, Goto, UpgradeInv, TypeOK
  <1>8. RunInv(p)'
    BY <1>1, <1>4, <1>5, <1>6, <1>7
    DEF RunInv, Dir, Preparing, Linked, Undoing, HasDir
  <1>. QED
    BY <1>4, <1>6, <1>8, CallStep DEF Switch, Labels, Linked, Undoing

\* The version set aside returns.
LEMMA UndoOldInv ==
    ASSUME UpgradeInv, NEW p \in Procs, UndoOld(p)
    PROVE  UpgradeInv'
  <1> DEFINE d == Dir(p)  v == Target(p)  e == MovedBack(d, v)
  <1>1. /\ Key(p) \in Components /\ d \in DirType /\ v \in Versions /\ v # None
        /\ lock = p /\ HasDir(Key(p)) /\ (run[p].moved => d.tree[v] = "absent")
    BY HereHolds DEF Here, UndoOld, Call, Blocked, RunInv, Undoing, Alias
  <1>2. Call(p, "undoOld", "undoTemp") /\ UNCHANGED run
    BY DEF UndoOld
  <1>3. fs' \in [Components -> DirType] /\ CurrentBoots' /\ FallbackKept'
    <2>1. CASE ~run[p].moved
      BY <2>1, SameFiles DEF UndoOld
    <2>2. CASE run[p].moved
      <3>1. /\ e \in DirType /\ e.tree = [d.tree EXCEPT ![v] = d.old[v]]
            /\ e.old = [d.old EXCEPT ![v] = "absent"]
            /\ e.current = d.current /\ e.previous = d.previous
        BY <1>1, MovedBackDir
      <3>2. /\ d.tree \in [Versions -> {"absent", "whole"}]
            /\ d.old \in [Versions -> {"absent", "whole"}]
            /\ d.current \in Alias /\ d.previous \in Alias
        BY <1>1 DEF DirType
      <3>3. d.current # None /\ d.tree[d.current] = "whole" /\ d.tree[v] = "absent"
        BY <1>1, <2>2, HereHolds DEF Here
      <3>4. e.tree[d.current] = "whole"
        BY <1>1, <3>1, <3>2, <3>3 DEF Alias
      <3>5. LET u == d.previous IN u # None => "whole" \in {e.tree[u], e.old[u]}
        <4>1. LET u == d.previous IN u # None => "whole" \in {d.tree[u], d.old[u]}
          BY HereHolds DEF Here
        <4>. QED
          BY <1>1, <3>1, <3>2, <3>3, <4>1 DEF Alias
      <3>. QED
        BY <1>1, <2>2, <3>1, <3>3, <3>4, <3>5, SetDirStep DEF UndoOld
    <2>. QED
      BY <2>1, <2>2
  <1>4. /\ pc'[p] = "undoTemp" /\ lock' = lock
        /\ Key(p)' = Key(p) /\ Target(p)' = v
    BY <1>2, CallFrame
  <1>5. RunInv(p)'
    BY <1>1, <1>4 DEF RunInv, Preparing, Linked, Undoing, HasDir
  <1>. QED
    BY <1>2, <1>3, <1>5, CallStep, CallFrame DEF Labels, Undoing

\* The temporary directory is removed.
LEMMA UndoTempInv ==
    ASSUME UpgradeInv, NEW p \in Procs, UndoTemp(p)
    PROVE  UpgradeInv'
  <1> DEFINE d == Dir(p)  e == [d EXCEPT !.temp = "absent"]
  <1>1. /\ Key(p) \in Components /\ d \in DirType /\ Target(p) # None
        /\ lock = p /\ HasDir(Key(p))
    BY HereHolds DEF Here, UndoTemp, Call, RunInv, Undoing
  <1>2. /\ e \in DirType /\ e.tree = d.tree /\ e.old = d.old
        /\ e.current = d.current /\ e.previous = d.previous
    BY <1>1 DEF DirType, Content
  <1>3. fs' \in [Components -> DirType] /\ CurrentBoots' /\ FallbackKept'
    BY <1>1, <1>2, SetDirStep, HereHolds DEF Here, UndoTemp
  <1>4. RunInv(p)'
    BY <1>1, CallFrame DEF UndoTemp, RunInv, Preparing, Linked, Undoing, HasDir
  <1>. QED
    BY <1>3, <1>4, CallStep, CallFrame DEF UndoTemp, Labels, Undoing

\* current.tmp is removed.
LEMMA UndoLinkInv ==
    ASSUME UpgradeInv, NEW p \in Procs, UndoLink(p)
    PROVE  UpgradeInv'
  <1> DEFINE d == Dir(p)  e == [d EXCEPT !.tmp = None]
  <1>1. Key(p) \in Components /\ d \in DirType /\ lock = p
    BY HereHolds DEF Here, UndoLink, Call, RunInv
  <1>2. /\ e \in DirType /\ e.tree = d.tree /\ e.old = d.old
        /\ e.current = d.current /\ e.previous = d.previous
    BY <1>1 DEF DirType, Alias
  <1>3. fs' \in [Components -> DirType] /\ CurrentBoots' /\ FallbackKept'
    BY <1>1, <1>2, SetDirStep, HereHolds DEF Here, UndoLink
  <1>4. RunInv(p)'
    BY <1>1, CallFrame, Between DEF UndoLink
  <1>. QED
    BY <1>3, <1>4, CallStep, CallFrame DEF UndoLink, Labels, Undoing

----------------------------------------------------------------------------
\* What goes wrong.

\* A call fails: nothing is written, and the error path relies on no more than is
\* left true.
LEMMA ErrorInv ==
    ASSUME UpgradeInv, NEW p \in Procs, Error(p)
    PROVE  UpgradeInv'
  <1> DEFINE l == ErrorPath[pc[p]]
  <1>1. /\ pc[p] \in DOMAIN ErrorPath /\ l \in Labels /\ Goto(p, l) /\ pc'[p] = l
        /\ lock' = lock /\ fs' = fs /\ UNCHANGED run
    BY ErrorPathLabels DEF Error, Goto, UpgradeInv, TypeOK
  <1>2. lock = p /\ RunInv(p)
    BY <1>1 DEF UpgradeInv, RunInv, ErrorPath
  <1>3. Key(p)' = Key(p) /\ Target(p)' = Target(p) /\ Dir(p)' = Dir(p)
    BY <1>1 DEF Key, Target, Dir
  <1>4. /\ fs' \in [Components -> DirType] /\ CurrentBoots' /\ FallbackKept'
        /\ run' \in [Procs -> RunType]
    BY <1>1, SameFiles DEF UpgradeInv, TypeOK
  <1>5. shutdown' \in BOOLEAN /\ kills' \in 0 .. MaxKills /\ faults' \in 0 .. MaxFaults
    BY UpgradeAssumption DEF Error, UpgradeInv, TypeOK
  <1>6. RunInv(p)'
    <2>1. CASE pc[p] \in {"remount", "link", "undoLink", "reboot"}
      BY <1>1, <1>2, <2>1, Between DEF ErrorPath
    <2>2. CASE pc[p] \in {"mktemp", "copy", "aside", "publish", "switch", "undoOld",
                          "undoTemp"}
      BY <1>1, <1>2, <1>3, <2>2
      DEF ErrorPath, RunInv, Preparing, Linked, Undoing, HasDir
    <2>3. CASE pc[p] = "dropPrev"
      <3>1. faults' # 0
        BY <2>3 DEF Error, Blocked, UpgradeInv, TypeOK
      <3>. QED
        BY <1>1, <1>2, <1>3, <2>3, <3>1
        DEF ErrorPath, RunInv, Preparing, Linked, Undoing, HasDir
    <2>4. CASE pc[p] = "keepPrev"
      <3>1. faults # 0 \/ ~Blocked(p)
        BY <2>4, HereHolds DEF Here, Blocked, RunInv, Linked
      <3>2. faults' # 0
        BY <3>1 DEF Error, UpgradeInv, TypeOK
      <3>. QED
        BY <1>1, <1>2, <1>3, <2>4, <3>2
        DEF ErrorPath, RunInv, Preparing, Linked, Undoing, HasDir
    <2>. QED
      BY <1>1, <2>1, <2>2, <2>3, <2>4 DEF ErrorPath
  <1>. QED
    BY <1>1, <1>2, <1>4, <1>5, <1>6, ProcStep

\* The process dies and the lock is free.
LEMMA KillInv ==
    ASSUME UpgradeInv, NEW p \in Procs, Kill(p)
    PROVE  UpgradeInv'
  <1>1. Goto(p, "idle") /\ "idle" \in Labels /\ pc'[p] = "idle"
    BY DEF Kill, Goto, UpgradeInv, TypeOK, Labels
  <1>2. lock = p /\ lock' = NoProc
    BY DEF Kill, UpgradeInv, RunInv
  <1>3. fs' \in [Components -> DirType] /\ CurrentBoots' /\ FallbackKept'
    BY SameFiles DEF Kill
  <1>4. RunInv(p)'
    BY <1>1, <1>2, Between, UpgradeAssumption
  <1>5. run' \in [Procs -> RunType]
    BY IdleRunType DEF Kill, UpgradeInv, TypeOK
  <1>6. shutdown' \in BOOLEAN /\ kills' \in 0 .. MaxKills /\ faults' \in 0 .. MaxFaults
    BY UpgradeAssumption DEF Kill, UpgradeInv, TypeOK
  <1>. QED
    BY <1>1, <1>2, <1>3, <1>4, <1>5, <1>6, ProcStep

\* The node goes down and comes up: the disk is what it was, and no run is left.
LEMMA RestartInv ==
    ASSUME UpgradeInv, Restart
    PROVE  UpgradeInv'
  <1>1. run' \in [Procs -> RunType] /\ pc' \in [Procs -> Labels]
    BY IdleRunType DEF Restart, Labels
  <1>2. TypeOK'
    <2>1. kills' \in 0 .. MaxKills /\ faults' \in 0 .. MaxFaults
      BY UpgradeAssumption DEF Restart, UpgradeInv, TypeOK
    <2>2. /\ fs' \in [Components -> DirType] /\ shutdown' \in BOOLEAN
          /\ lock' \in Procs \cup {NoProc}
      BY DEF Restart, UpgradeInv, TypeOK
    <2>. QED
      BY <1>1, <2>1, <2>2 DEF TypeOK
  <1>3. CurrentBoots' /\ FallbackKept'
    BY SameFiles DEF Restart
  <1>4. \A p \in Procs : RunInv(p)'
    BY UpgradeAssumption DEF Restart, RunInv, Preparing, Linked, Undoing
  <1>. QED
    BY <1>2, <1>3, <1>4 DEF UpgradeInv

LEMMA NextInv == UpgradeInv /\ [Next]_vars => UpgradeInv'
  <1> SUFFICES ASSUME UpgradeInv, [Next]_vars PROVE UpgradeInv'
    OBVIOUS
  <1>1. ASSUME NEW p \in Procs, Progress(p) PROVE UpgradeInv'
    BY <1>1, SkipInv, TakeInv, FinishInv, RebootInv, ExitInv, RemountInv, LinkInv,
       MkTempInv, CopyInv, AsideInv, PublishInv, DropPrevInv, KeepPrevInv, SwitchInv,
       UndoOldInv, UndoTempInv, UndoLinkInv, ErrorInv
    DEF Progress
  <1>2. ASSUME NEW p \in Procs, NEW req \in Requests, NEW image \in Releases,
               Begin(p, req, image)
        PROVE  UpgradeInv'
    BY <1>2, BeginInv
  <1>3. ASSUME NEW p \in Procs, Kill(p) PROVE UpgradeInv'
    BY <1>3, KillInv
  <1>4. CASE Restart
    BY <1>4, RestartInv
  <1>5. CASE UNCHANGED vars
    BY <1>5 DEF vars, UpgradeInv, TypeOK, CurrentBoots, FallbackKept, RunInv, HasDir, Key,
                Target, Dir
  <1>. QED
    BY <1>1, <1>2, <1>3, <1>4, <1>5 DEF Next

\* The inductive invariant, and the invariants it contains.
THEOREM UpgradeInvariant == Spec => []UpgradeInv
  BY InitInv, NextInv, PTL DEF Spec

THEOREM TypeCorrect == Spec => []TypeOK
  <1>1. UpgradeInv => TypeOK
    BY DEF UpgradeInv
  <1>. QED
    BY <1>1, UpgradeInvariant, PTL

\* However many runs are killed, however many calls fail, and wherever the node
\* goes down: `current` of an installed component leads to a complete version.
THEOREM CurrentAlwaysBoots == Spec => []CurrentBoots
  <1>1. UpgradeInv => CurrentBoots
    BY DEF UpgradeInv
  <1>. QED
    BY <1>1, UpgradeInvariant, PTL

\* And the version `previous` names is on the disk.
THEOREM FallbackAlwaysKept == Spec => []FallbackKept
  <1>1. UpgradeInv => FallbackKept
    BY DEF UpgradeInv
  <1>. QED
    BY <1>1, UpgradeInvariant, PTL

----------------------------------------------------------------------------
\* What a step does to the directories, for the properties of steps.

\* Most steps change nothing a reader of the directories sees.
View(c) == <<fs[c].tree, fs[c].old, fs[c].current, fs[c].previous>>

\* A call writes to the directory of its component only.
LEMMA DirAfter ==
    ASSUME UpgradeInv, NEW p \in Procs, NEW d, SetDir(Key(p), d)
    PROVE  /\ Key(p) \in Components /\ fs'[Key(p)] = d
           /\ \A c \in Components \ {Key(p)} : fs'[c] = fs[c]
  <1>1. Key(p) \in Components
    BY HereHolds DEF Here
  <1>. QED
    BY <1>1 DEF SetDir, UpgradeInv, TypeOK

LEMMA HiddenSteps ==
    ASSUME UpgradeInv, NEW p \in Procs,
           Link(p) \/ MkTemp(p) \/ Copy(p) \/ UndoTemp(p) \/ UndoLink(p)
    PROVE  \A c \in Components : UNCHANGED View(c)
  <1> DEFINE d == Dir(p)
  <1>1. PICK e \in { [d EXCEPT !.tmp = Target(p)], [d EXCEPT !.temp = "whole"],
                     [d EXCEPT !.temp = "partial", !.litter = @ \/ d.temp # "absent"],
                     [d EXCEPT !.temp = "absent"], [d EXCEPT !.tmp = None] } :
            SetDir(Key(p), e)
    BY DEF Link, MkTemp, Copy, UndoTemp, UndoLink
  <1>2. d \in DirType
    BY HereHolds DEF Here
  <1>3. /\ e.tree = d.tree /\ e.old = d.old
        /\ e.current = d.current /\ e.previous = d.previous
    BY <1>1, <1>2 DEF DirType
  <1>. QED
    BY <1>1, <1>3, DirAfter DEF View, Dir

\* The steps that do, each with what it does to the directory it is at.
LEMMA PublishView ==
    ASSUME UpgradeInv, NEW p \in Procs, Publish(p)
    PROVE  /\ Key(p) \in Components /\ Target(p) \in Versions
           /\ fs[Key(p)].tree[Target(p)] = "absent"
           /\ fs'[Key(p)].tree = [fs[Key(p)].tree EXCEPT ![Target(p)] = "whole"]
           /\ fs'[Key(p)].old = fs[Key(p)].old
           /\ fs'[Key(p)].current = fs[Key(p)].current
           /\ fs'[Key(p)].previous = fs[Key(p)].previous
           /\ \A c \in Components \ {Key(p)} : fs'[c] = fs[c]
  <1>1. /\ Dir(p) \in DirType /\ Target(p) \in Versions
        /\ Dir(p).temp = "whole" /\ Dir(p).tree[Target(p)] = "absent"
    BY HereHolds DEF Here, Publish, Call, RunInv, Preparing, Alias
  <1>2. SetDir(Key(p), Published(Dir(p), Target(p)))
    BY DEF Publish
  <1>. QED
    BY <1>1, <1>2, DirAfter, PublishedDir DEF Dir

LEMMA AsideView ==
    ASSUME UpgradeInv, NEW p \in Procs, Aside(p), fs' # fs
    PROVE  /\ Key(p) \in Components /\ Target(p) \in Versions
           /\ fs[Key(p)].tree[Target(p)] = "whole" /\ fs[Key(p)].old[Target(p)] = "absent"
           /\ Target(p) # fs[Key(p)].current
           /\ fs'[Key(p)].tree = [fs[Key(p)].tree EXCEPT ![Target(p)] = "absent"]
           /\ fs'[Key(p)].old = [fs[Key(p)].old EXCEPT ![Target(p)] = "whole"]
           /\ fs'[Key(p)].current = fs[Key(p)].current
           /\ fs'[Key(p)].previous = fs[Key(p)].previous
           /\ \A c \in Components \ {Key(p)} : fs'[c] = fs[c]
  <1>1. Dir(p) \in DirType /\ Target(p) \in Versions /\ Target(p) # Dir(p).current
    BY HereHolds DEF Here, Aside, Call, RunInv, Preparing, Linked, Alias
  <1>2. /\ Dir(p).tree[Target(p)] # "absent"
        /\ SetDir(Key(p), MovedAside(Dir(p), Target(p)))
    BY DEF Aside
  <1>3. pc[p] = "aside" /\ ~Blocked(p)
    BY DEF Aside, Call
  <1>4. Dir(p).old[Target(p)] = "absent" /\ Dir(p).tree[Target(p)] = "whole"
    BY <1>1, <1>2, <1>3 DEF Blocked, DirType
  <1>. QED
    BY <1>1, <1>2, <1>4, DirAfter, MovedAsideDir DEF Dir

LEMMA UndoOldView ==
    ASSUME UpgradeInv, NEW p \in Procs, UndoOld(p), fs' # fs
    PROVE  /\ Key(p) \in Components /\ Target(p) \in Versions
           /\ fs[Key(p)].tree[Target(p)] = "absent"
           /\ fs'[Key(p)].tree =
                  [fs[Key(p)].tree EXCEPT ![Target(p)] = fs[Key(p)].old[Target(p)]]
           /\ fs'[Key(p)].old = [fs[Key(p)].old EXCEPT ![Target(p)] = "absent"]
           /\ fs'[Key(p)].current = fs[Key(p)].current
           /\ fs'[Key(p)].previous = fs[Key(p)].previous
           /\ \A c \in Components \ {Key(p)} : fs'[c] = fs[c]
  <1>1. Dir(p) \in DirType /\ Target(p) \in Versions
    BY HereHolds DEF Here, UndoOld, Call, RunInv, Undoing, Alias
  <1>2. /\ run[p].moved /\ pc[p] = "undoOld" /\ ~Blocked(p)
        /\ SetDir(Key(p), MovedBack(Dir(p), Target(p)))
    BY DEF UndoOld, Call
  <1>3. Dir(p).tree[Target(p)] = "absent"
    BY <1>2 DEF Blocked
  <1>. QED
    BY <1>1, <1>2, <1>3, DirAfter, MovedBackDir DEF Dir

LEMMA LinkView ==
    ASSUME UpgradeInv, NEW p \in Procs, DropPrev(p) \/ KeepPrev(p) \/ Switch(p)
    PROVE  /\ Key(p) \in Components
           /\ fs'[Key(p)].tree = fs[Key(p)].tree
           /\ fs'[Key(p)].old = fs[Key(p)].old
           /\ \A c \in Components \ {Key(p)} : fs'[c] = fs[c]
           /\ DropPrev(p) => /\ fs'[Key(p)].current = fs[Key(p)].current
                             /\ fs'[Key(p)].previous = None
           /\ KeepPrev(p) => /\ fs[Key(p)].previous = None /\ fs[Key(p)].current # None
                             /\ fs'[Key(p)].current = fs[Key(p)].current
                             /\ fs'[Key(p)].previous = fs[Key(p)].current
           /\ Switch(p) => /\ Target(p) \in Versions
                           /\ fs[Key(p)].tree[Target(p)] = "whole"
                           /\ fs'[Key(p)].current = Target(p)
                           /\ fs'[Key(p)].previous = fs[Key(p)].previous
                           /\ faults = 0 => fs[Key(p)].previous = fs[Key(p)].current
  <1> DEFINE d == Dir(p)
  <1>1. d \in DirType
    BY HereHolds DEF Here
  <1>2. CASE DropPrev(p)
    <2>1. fs'[Key(p)] = [d EXCEPT !.previous = None] /\ pc[p] = "dropPrev"
      BY <1>2, DirAfter DEF DropPrev, Call
    <2>2. /\ fs'[Key(p)].tree = d.tree /\ fs'[Key(p)].old = d.old
          /\ fs'[Key(p)].current = d.current /\ fs'[Key(p)].previous = None
      BY <1>1, <2>1 DEF DirType
    <2>. QED
      BY <1>2, <2>1, <2>2, DirAfter DEF DropPrev, KeepPrev, Switch, Call, Dir
  <1>3. CASE KeepPrev(p)
    <2>1. /\ fs'[Key(p)] = [d EXCEPT !.previous = d.current] /\ pc[p] = "keepPrev"
          /\ d.previous = None /\ d.current # None
      BY <1>3, DirAfter DEF KeepPrev, Call, Blocked
    <2>2. /\ fs'[Key(p)].tree = d.tree /\ fs'[Key(p)].old = d.old
          /\ fs'[Key(p)].current = d.current /\ fs'[Key(p)].previous = d.current
      BY <1>1, <2>1 DEF DirType
    <2>. QED
      BY <1>3, <2>1, <2>2, DirAfter DEF DropPrev, KeepPrev, Switch, Call, Dir
  <1>4. CASE Switch(p)
    <2>1. /\ fs'[Key(p)] = [d EXCEPT !.current = d.tmp, !.tmp = None] /\ pc[p] = "switch"
          /\ Target(p) \in Versions /\ d.tmp = Target(p) /\ d.tree[Target(p)] = "whole"
          /\ faults = 0 => d.previous = d.current
      BY <1>4, DirAfter, HereHolds DEF Here, Switch, Call, RunInv, Linked, Alias
    <2>2. /\ fs'[Key(p)].tree = d.tree /\ fs'[Key(p)].old = d.old
          /\ fs'[Key(p)].current = Target(p) /\ fs'[Key(p)].previous = d.previous
      BY <1>1, <2>1 DEF DirType
    <2>. QED
      BY <1>4, <2>1, <2>2, DirAfter DEF DropPrev, KeepPrev, Switch, Call, Dir
  <1>. QED
    BY <1>2, <1>3, <1>4

\* A step is one of those, or hidden.
LEMMA Steps ==
    ASSUME UpgradeInv, [Next]_vars
    PROVE  \/ \A c \in Components : UNCHANGED View(c)
           \/ \E p \in Procs :
                  \/ Publish(p)
                  \/ (Aside(p) \/ UndoOld(p)) /\ fs' # fs
                  \/ DropPrev(p) \/ KeepPrev(p) \/ Switch(p)
  <1>1. CASE UNCHANGED fs
    BY <1>1 DEF View
  <1>2. CASE fs' # fs
    <2>1. PICK p \in Procs :
              \/ Link(p) \/ MkTemp(p) \/ Copy(p) \/ UndoTemp(p) \/ UndoLink(p)
              \/ Publish(p) \/ Aside(p) \/ UndoOld(p)
              \/ DropPrev(p) \/ KeepPrev(p) \/ Switch(p)
      BY <1>2 DEF Next, vars, Progress, Begin, Skip, Take, Turn, Finish, Reboot, Exit,
                  Remount, Call, Error, Kill, Restart
    <2>. QED
      BY <1>2, <2>1, HiddenSteps
  <1>. QED
    BY <1>1, <1>2

\* No complete version is destroyed.
LEMMA StoredStep ==
    ASSUME UpgradeInv, [Next]_vars, NEW c \in Components, NEW v \in Versions, Stored(c, v)
    PROVE  Stored(c, v)'
  <1>1. fs[c] \in DirType
    BY DEF UpgradeInv, TypeOK
  <1>2. CASE UNCHANGED View(c)
    BY <1>2 DEF View, Stored
  <1>3. ASSUME NEW p \in Procs, Publish(p) PROVE Stored(c, v)'
    <2>1. CASE c = Key(p) /\ v = Target(p)
      BY <1>1, <1>3, <2>1, PublishView DEF Stored, DirType
    <2>2. CASE c = Key(p) /\ v # Target(p)
      <3>1. fs'[c].tree[v] = fs[c].tree[v] /\ fs'[c].old[v] = fs[c].old[v]
        BY <1>1, <1>3, <2>2, PublishView DEF DirType
      <3>. QED
        BY <3>1 DEF Stored
    <2>3. CASE c # Key(p)
      BY <1>3, <2>3, PublishView DEF Stored
    <2>. QED
      BY <2>1, <2>2, <2>3
  <1>4. ASSUME NEW p \in Procs, Aside(p), fs' # fs PROVE Stored(c, v)'
    <2>1. CASE c = Key(p) /\ v = Target(p)
      <3>1. fs'[c].old = [fs[c].old EXCEPT ![Target(p)] = "whole"]
        BY <1>4, <2>1, AsideView
      <3>. QED
        BY <1>1, <2>1, <3>1 DEF Stored, DirType
    <2>2. CASE c = Key(p) /\ v # Target(p)
      <3>1. /\ fs'[c].tree = [fs[c].tree EXCEPT ![Target(p)] = "absent"]
            /\ fs'[c].old = [fs[c].old EXCEPT ![Target(p)] = "whole"]
        BY <1>4, <2>2, AsideView
      <3>2. fs'[c].tree[v] = fs[c].tree[v] /\ fs'[c].old[v] = fs[c].old[v]
        BY <1>1, <2>2, <3>1 DEF DirType
      <3>. QED
        BY <3>2 DEF Stored
    <2>3. CASE c # Key(p)
      BY <1>4, <2>3, AsideView DEF Stored
    <2>. QED
      BY <2>1, <2>2, <2>3
  <1>5. ASSUME NEW p \in Procs, UndoOld(p), fs' # fs PROVE Stored(c, v)'
    <2>1. CASE c = Key(p) /\ v = Target(p)
      BY <1>1, <1>5, <2>1, UndoOldView DEF Stored, DirType
    <2>2. CASE c = Key(p) /\ v # Target(p)
      <3>1. /\ fs'[c].tree = [fs[c].tree EXCEPT ![Target(p)] = fs[c].old[Target(p)]]
            /\ fs'[c].old = [fs[c].old EXCEPT ![Target(p)] = "absent"]
        BY <1>5, <2>2, UndoOldView
      <3>2. fs'[c].tree[v] = fs[c].tree[v] /\ fs'[c].old[v] = fs[c].old[v]
        BY <1>1, <2>2, <3>1 DEF DirType
      <3>. QED
        BY <3>2 DEF Stored
    <2>3. CASE c # Key(p)
      BY <1>5, <2>3, UndoOldView DEF Stored
    <2>. QED
      BY <2>1, <2>2, <2>3
  <1>6. ASSUME NEW p \in Procs, DropPrev(p) \/ KeepPrev(p) \/ Switch(p) PROVE Stored(c, v)'
    BY <1>1, <1>6, LinkView DEF Stored
  <1>. QED
    BY <1>2, <1>3, <1>4, <1>5, <1>6, Steps

\* A run, killed or not, never destroys the only complete copy of a version.
THEOREM NothingIsDestroyed == Spec => NothingDestroyed
  <1>1. UpgradeInv /\ [Next]_vars
        => [\A c \in Components, v \in Versions : Stored(c, v) => Stored(c, v)']_vars
    BY StoredStep
  <1>. QED
    BY <1>1, UpgradeInvariant, PTL DEF Spec, NothingDestroyed

\* Only Switch moves `current`, and what it was is then `previous`.
LEMMA SwitchStep ==
    ASSUME UpgradeInv, [Next]_vars, NEW c \in Components,
           fs'[c].current # fs[c].current, faults = 0
    PROVE  fs'[c].previous = fs[c].current
  <1>1. ~UNCHANGED View(c)
    BY DEF View
  <1>2. ASSUME NEW p \in Procs, Publish(p) PROVE FALSE
    BY <1>2, PublishView
  <1>3. ASSUME NEW p \in Procs, Aside(p) \/ UndoOld(p), fs' # fs PROVE FALSE
    BY <1>3, AsideView, UndoOldView
  <1>4. ASSUME NEW p \in Procs, DropPrev(p) \/ KeepPrev(p) \/ Switch(p)
        PROVE  fs'[c].previous = fs[c].current
    BY <1>4, LinkView
  <1>. QED
    BY <1>1, <1>2, <1>3, <1>4, Steps

THEOREM FallbackIsKept == Spec => SwitchKeepsFallback
  <1>1. UpgradeInv /\ [Next]_vars
        => [\A c \in Components :
              fs'[c].current # fs[c].current /\ faults = 0 =>
                  fs'[c].previous = fs[c].current]_vars
    BY SwitchStep
  <1>. QED
    BY <1>1, UpgradeInvariant, PTL DEF Spec, SwitchKeepsFallback

----------------------------------------------------------------------------
\* What more can be said while nothing was killed and few calls failed.

\* Process p is between making current.tmp of component c and removing it.
AtWork(p, c) == lock = p /\ Key(p) = c /\ pc[p] \in Linked \cup Undoing

\* Nothing is left in a directory that nobody works in.
CleanDir(c) ==
    /\ ~fs[c].litter
    /\ (fs[c].tmp = None /\ fs[c].temp = "absent") \/ \E p \in Procs : AtWork(p, c)
NoTemp(p) == pc[p] \in {"mktemp", "undoLink"} => Dir(p).temp = "absent"
CleanInv ==
    kills = 0 /\ faults = 0 => (\A c \in Components : CleanDir(c)) /\ \A p \in Procs : NoTemp(p)

\* The fallback is in its place, or set aside by a run that will publish it or, if that is
\* the one call that fails, put it back.
SetAside(p, c, u) ==
    /\ lock = p /\ Key(p) = c /\ Target(p) = u
    /\ pc[p] \in {"publish", "undoOld"} /\ run[p].moved
InPlace(c) == LET u == fs[c].previous IN
    u # None => fs[c].tree[u] = "whole" \/ \E p \in Procs : SetAside(p, c, u)
FallbackInv == kills = 0 /\ faults <= 1 => \A c \in Components : InPlace(c)

\* A component whose turn is over was delivered, or something is in the way; the one whose
\* turn it is was delivered when its deferred calls run, or an older copy is in the way.
Delivered(p, c) == LET v == run[p].image[c] IN
    fs[c].current = v \/ fs[c].tmp # None \/ fs[c].old[v] # "absent"
InTurn(p, c) == Key(p) = c /\ pc[p] \in Preparing \cup Linked \cup Undoing
TurnsOver(p) ==
    /\ \A c \in Asked(p) \ run[p].todo : InTurn(p, c) \/ Delivered(p, c)
    /\ AtEnd(p) => run[p].todo = {}
Writable(p) ==
    /\ run[p].remount \/ pc[p] = "remount" => "remount" \in run[p].req
    /\ "remount" \in run[p].req /\ (~run[p].remount \/ pc[p] \in {"link"} \cup Linked) =>
           run[p].rw
Undone(p) ==
    /\ pc[p] = "undoOld" => Dir(p).current = Target(p)
    /\ pc[p] \in {"undoTemp", "undoLink"} =>
           Dir(p).current = Target(p) \/ Dir(p).old[Target(p)] # "absent"
DeliverInv ==
    \A p \in Procs : lock = p /\ faults = 0 => TurnsOver(p) /\ Writable(p) /\ Undone(p)

MildInv == CleanInv /\ FallbackInv /\ DeliverInv

\* A step of the process that holds the lock and is at component c.
StepOf(p, c) ==
    /\ lock = p /\ lock' \in {p, NoProc} /\ kills' = kills
    /\ faults \in Nat /\ faults' \in {faults, faults + 1}
    /\ c = Key(p) /\ c \in Components
    /\ \A e \in Components \ {c} : fs'[e] = fs[e]
    /\ \A q \in Procs \ {p} : pc[q] = "idle" /\ pc'[q] = "idle"

\* Such a step can break MildInv only for its process and its component.
LEMMA MildStep ==
    ASSUME UpgradeInv, MildInv, NEW p \in Procs, NEW c, StepOf(p, c),
           kills' = 0 /\ faults' = 0 => CleanDir(c)' /\ NoTemp(p)',
           kills' = 0 /\ faults' <= 1 => InPlace(c)',
           lock' = p /\ faults' = 0 => TurnsOver(p)' /\ Writable(p)' /\ Undone(p)'
    PROVE  MildInv'
  <1> USE DEF StepOf
  <1>1. CleanInv'
    <2> SUFFICES ASSUME kills' = 0, faults' = 0
                 PROVE  (\A e \in Components : CleanDir(e)') /\ \A q \in Procs : NoTemp(q)'
      BY DEF CleanInv
    <2>1. kills = 0 /\ faults = 0
      OBVIOUS
    <2>2. ASSUME NEW e \in Components \ {c} PROVE CleanDir(e)'
      <3>1. CleanDir(e)
        BY <2>1 DEF MildInv, CleanInv
      <3>2. fs'[e] = fs[e] /\ ~\E q \in Procs : AtWork(q, e)
        BY DEF AtWork
      <3>. QED
        BY <3>1, <3>2 DEF CleanDir
    <2>3. \A q \in Procs \ {p} : NoTemp(q)'
      BY DEF NoTemp
    <2>. QED
      BY <2>2, <2>3
  <1>2. FallbackInv'
    <2> SUFFICES ASSUME kills' = 0, faults' <= 1, NEW e \in Components \ {c}
                 PROVE  InPlace(e)'
      BY DEF FallbackInv
    <2>1. kills = 0 /\ faults <= 1
      OBVIOUS
    <2>2. InPlace(e)
      BY <2>1 DEF MildInv, FallbackInv
    <2>3. fs'[e] = fs[e] /\ \A q \in Procs, u \in Alias : ~SetAside(q, e, u)
      BY DEF SetAside
    <2>4. fs[e].previous \in Alias
      BY DEF UpgradeInv, TypeOK, DirType
    <2>. QED
      BY <2>2, <2>3, <2>4 DEF InPlace
  <1>3. DeliverInv'
    BY UpgradeAssumption DEF DeliverInv
  <1>. QED
    BY <1>1, <1>2, <1>3 DEF MildInv

\* Where p is not about to publish or undo, the fallback is in its place.
LEMMA InPlaceNow ==
    ASSUME UpgradeInv, MildInv, NEW p \in Procs, NEW c, StepOf(p, c), kills' = 0, faults' <= 1,
           pc[p] \notin {"publish", "undoOld"}
    PROVE  fs[c].previous # None => fs[c].tree[fs[c].previous] = "whole"
  <1>1. InPlace(c)
    BY DEF StepOf, MildInv, FallbackInv
  <1>2. fs[c].previous \in Alias
    BY DEF StepOf, UpgradeInv, TypeOK, DirType
  <1>3. \A u \in Alias, q \in Procs : ~SetAside(q, c, u)
    BY DEF StepOf, SetAside
  <1>. QED
    BY <1>1, <1>2, <1>3 DEF InPlace

\* A step within the turn of a component.
InTurnStep(p) ==
    /\ pc[p] \in Preparing \cup Linked \cup Undoing /\ lock' = p
    /\ run'[p].key = run[p].key /\ run'[p].image = run[p].image
    /\ run'[p].todo = run[p].todo /\ run'[p].req = run[p].req
    /\ run'[p].rw = run[p].rw \/ "remount" \in run[p].req

LEMMA TurnsAfter ==
    ASSUME UpgradeInv, MildInv, NEW p \in Procs, NEW c, StepOf(p, c), InTurnStep(p), faults' = 0,
           \/ pc'[p] \in Preparing \cup Linked \cup Undoing
           \/ pc'[p] = "next" /\ (c \in Asked(p) => Delivered(p, c)')
    PROVE  TurnsOver(p)'
  <1>1. TurnsOver(p)
    BY DEF StepOf, MildInv, DeliverInv
  <1>2. Asked(p)' = Asked(p)
    BY DEF Asked, InTurnStep
  <1>3. ASSUME NEW e \in Asked(p) \ run[p].todo PROVE (InTurn(p, e) \/ Delivered(p, e))'
    <2>1. CASE e = c
      BY <1>3, <2>1 DEF InTurn, StepOf, InTurnStep, Key
    <2>2. CASE e # c
      <3>1. Delivered(p, e)
        BY <1>1, <1>3, <2>2 DEF TurnsOver, InTurn, StepOf
      <3>2. e \in Components /\ fs'[e] = fs[e]
        BY <1>3, <2>2 DEF Asked, Wanted, Components, StepOf
      <3>. QED
        BY <3>1, <3>2 DEF Delivered, InTurnStep
    <2>. QED
      BY <2>1, <2>2
  <1>4. ~AtEnd(p)'
    BY DEF AtEnd, Preparing, Linked, Undoing
  <1>. QED
    BY <1>2, <1>3, <1>4 DEF TurnsOver, InTurnStep

\* A call that succeeds: what it leaves of the control state.
LEMMA CallFacts ==
    ASSUME UpgradeInv, NEW p \in Procs, NEW from \in Preparing \cup Linked \cup Undoing, NEW to,
           Call(p, from, to), NEW d, fs' = fs \/ SetDir(Key(p), d)
    PROVE  /\ StepOf(p, Key(p)) /\ pc[p] = from /\ pc'[p] = to
           /\ lock' = p /\ faults' = faults /\ kills' = kills
           /\ Key(p) \in Components /\ Dir(p) \in DirType /\ run[p] \in RunType
           /\ Target(p) \in Versions /\ Target(p) # None /\ RunInv(p)
  <1>1. lock = p /\ lock' = lock /\ faults' = faults /\ kills' = kills
    BY DEF Call, UpgradeInv, RunInv, Preparing, Linked, Undoing
  <1>2. faults \in Nat
    BY UpgradeAssumption DEF UpgradeInv, TypeOK
  <1>3. \A q \in Procs \ {p} : pc[q] = "idle" /\ pc'[q] = "idle"
    BY <1>1 DEF UpgradeInv, RunInv, TypeOK, Call, Goto
  <1>4. \A e \in Components \ {Key(p)} : fs'[e] = fs[e]
    BY DirAfter
  <1>5. pc[p] = from /\ pc'[p] = to
    BY DEF Call, Goto, UpgradeInv, TypeOK
  <1>6. Here(p)
    BY HereHolds
  <1>. QED
    BY <1>1, <1>2, <1>3, <1>4, <1>5, <1>6, UpgradeAssumption DEF StepOf, Here, RunInv, Alias


\* A step that is no part of the work in a directory, or that cuts a run short, can only
\* break what is said of the runs.
LEMMA QuietStep ==
    ASSUME UpgradeInv, MildInv, UNCHANGED fs, DeliverInv',
           \/ kills' # 0
           \/ /\ kills = 0 /\ faults \in Nat /\ faults' \in {faults, faults + 1}
              /\ \A p \in Procs : /\ pc[p] \notin Linked \cup Undoing
                                  /\ pc'[p] \notin Linked \cup Undoing
    PROVE  MildInv'
  <1>1. CASE kills' # 0
    BY <1>1 DEF MildInv, CleanInv, FallbackInv
  <1>2. CASE kills' = 0
    <2>1. \A p \in Procs, c \in Components :
              ~AtWork(p, c) /\ \A u \in Alias : ~SetAside(p, c, u)
      BY <1>2 DEF AtWork, SetAside, Linked, Undoing
    <2>2. CleanInv'
      <3> SUFFICES ASSUME faults' = 0
                   PROVE  (\A c \in Components : CleanDir(c)') /\ \A p \in Procs : NoTemp(p)'
        BY DEF CleanInv
      <3>1. \A c \in Components : CleanDir(c)
        BY <1>2 DEF MildInv, CleanInv
      <3>2. \A c \in Components : CleanDir(c)'
        BY <1>2, <2>1, <3>1 DEF CleanDir
      <3>. QED
        BY <1>2, <3>2 DEF NoTemp, Linked, Undoing
    <2>3. FallbackInv'
      <3> SUFFICES ASSUME faults' <= 1, NEW c \in Components PROVE InPlace(c)'
        BY DEF FallbackInv
      <3>1. InPlace(c) /\ fs[c].previous \in Alias
        BY <1>2 DEF MildInv, FallbackInv, UpgradeInv, TypeOK, DirType
      <3>. QED
        BY <2>1, <3>1 DEF InPlace
    <2>. QED
      BY <2>2, <2>3 DEF MildInv
  <1>. QED
    BY <1>1, <1>2

\* A call within the work in a directory, with what has to be shown of it.
LEMMA WorkStep ==
    ASSUME UpgradeInv, MildInv, NEW p \in Procs, NEW c, StepOf(p, c), InTurnStep(p),
           pc'[p] \in Linked \cup Undoing,
           kills = 0 /\ faults' = 0 => ~fs'[c].litter /\ NoTemp(p)',
           kills = 0 /\ faults' <= 1 => InPlace(c)',
           faults' = 0 => Writable(p)' /\ Undone(p)'
    PROVE  MildInv'
  <1>1. AtWork(p, c)'
    BY DEF AtWork, Key, InTurnStep, StepOf
  <1>2. kills' = 0 /\ faults' = 0 => CleanDir(c)' /\ NoTemp(p)'
    BY <1>1 DEF CleanDir, StepOf
  <1>3. lock' = p /\ faults' = 0 => TurnsOver(p)' /\ Writable(p)' /\ Undone(p)'
    BY TurnsAfter
  <1>4. kills' = 0 /\ faults' <= 1 => InPlace(c)'
    BY DEF StepOf
  <1>. QED
    BY <1>2, <1>3, <1>4, MildStep

\* Among them a call that leaves the variables of the run alone.
LEMMA WorkCall ==
    ASSUME UpgradeInv, MildInv, NEW p \in Procs, NEW c, c = Key(p),
           NEW from \in Preparing \cup Linked \cup Undoing, NEW to \in Linked \cup Undoing,
           from # "remount", to \in Undoing \/ from \in {"link"} \cup Linked,
           Call(p, from, to), UNCHANGED run, NEW d, fs' = fs \/ SetDir(Key(p), d),
           kills = 0 /\ faults = 0 => ~fs'[c].litter /\ NoTemp(p)',
           kills = 0 /\ faults <= 1 => InPlace(c)',
           faults = 0 => Undone(p)'
    PROVE  MildInv'
  <1>1. /\ StepOf(p, c) /\ pc[p] = from /\ pc'[p] = to /\ lock = p /\ lock' = p
        /\ faults' = faults
    BY CallFacts DEF StepOf
  <1>2. InTurnStep(p)
    BY <1>1 DEF InTurnStep
  <1>3. faults = 0 => Writable(p)
    BY <1>1 DEF MildInv, DeliverInv
  <1>4. faults = 0 => Writable(p)'
    BY <1>1, <1>3 DEF Writable, Linked, Undoing, Preparing
  <1>. QED
    BY <1>1, <1>2, <1>4, WorkStep

\* The calls that a reader of the directory does not see.
LEMMA InPlaceStill ==
    ASSUME UpgradeInv, MildInv, NEW p \in Procs, NEW c, StepOf(p, c), kills = 0, faults' <= 1,
           pc[p] \notin {"publish", "undoOld"}, UNCHANGED <<fs[c].tree, fs[c].previous>>
    PROVE  InPlace(c)'
  BY InPlaceNow DEF InPlace, StepOf

LEMMA LinkMild ==
    ASSUME UpgradeInv, MildInv, NEW p \in Procs, Link(p)
    PROVE  MildInv'
  <1>1. PICK c \in Components : c = Key(p)
    BY HereHolds DEF Here
  <1> DEFINE d == fs[c]  e == [d EXCEPT !.tmp = Target(p)]
  <1>2. Call(p, "link", "mktemp") /\ SetDir(Key(p), e) /\ UNCHANGED run
    BY <1>1 DEF Link, Dir
  <1>3. StepOf(p, c) /\ pc[p] = "link" /\ pc'[p] = "mktemp" /\ d \in DirType /\ lock = p
    BY <1>1, <1>2, CallFacts DEF Preparing, Dir, StepOf
  <1>4. fs'[c] = e /\ e.litter = d.litter /\ e.temp = d.temp /\ Key(p)' = Key(p)
    BY <1>1, <1>2, <1>3, DirAfter DEF DirType, Key
  <1>5. kills = 0 /\ faults = 0 => ~fs'[c].litter /\ NoTemp(p)'
    <2> SUFFICES ASSUME kills = 0, faults = 0 PROVE ~fs'[c].litter /\ NoTemp(p)'
      OBVIOUS
    <2>1. CleanDir(c)
      BY DEF MildInv, CleanInv
    <2>2. \A q \in Procs : ~AtWork(q, c)
      BY <1>3, UpgradeAssumption DEF AtWork, StepOf, Linked, Undoing
    <2>. QED
      BY <1>1, <1>4, <2>1, <2>2 DEF CleanDir, NoTemp, Dir
  <1>6. kills = 0 /\ faults <= 1 => InPlace(c)'
    BY <1>2, <1>3, HiddenSteps, InPlaceStill DEF View, Call
  <1>7. faults = 0 => Undone(p)'
    BY <1>3 DEF Undone
  <1>8. /\ "link" \in Preparing \cup Linked \cup Undoing /\ "link" \in {"link"} \cup Linked
        /\ "mktemp" \in Linked \cup Undoing
    BY DEF Preparing, Linked
  <1>. QED
    BY <1>1, <1>2, <1>5, <1>6, <1>7, <1>8, WorkCall

LEMMA MkTempMild ==
    ASSUME UpgradeInv, MildInv, NEW p \in Procs, MkTemp(p)
    PROVE  MildInv'
  <1>1. PICK c \in Components : c = Key(p)
    BY HereHolds DEF Here
  <1> DEFINE d == fs[c]  e == [d EXCEPT !.temp = "partial", !.litter = @ \/ d.temp # "absent"]
  <1>2. Call(p, "mktemp", "copy") /\ SetDir(Key(p), e) /\ UNCHANGED run
    BY <1>1 DEF MkTemp, Dir
  <1>3. StepOf(p, c) /\ pc[p] = "mktemp" /\ pc'[p] = "copy" /\ d \in DirType
    BY <1>1, <1>2, CallFacts DEF Linked, Dir
  <1>4. fs'[c] = e /\ e.litter = (d.litter \/ d.temp # "absent")
    BY <1>1, <1>2, <1>3, DirAfter DEF DirType
  <1>5. kills = 0 /\ faults = 0 => ~fs'[c].litter /\ NoTemp(p)'
    BY <1>1, <1>3, <1>4 DEF MildInv, CleanInv, CleanDir, NoTemp, Dir
  <1>6. kills = 0 /\ faults <= 1 => InPlace(c)'
    BY <1>2, <1>3, HiddenSteps, InPlaceStill DEF View, Call
  <1>7. faults = 0 => Undone(p)'
    BY <1>3 DEF Undone
  <1>8. /\ "mktemp" \in Preparing \cup Linked \cup Undoing /\ "mktemp" \in {"link"} \cup Linked
        /\ "copy" \in Linked \cup Undoing
    BY DEF Linked
  <1>. QED
    BY <1>1, <1>2, <1>5, <1>6, <1>7, <1>8, WorkCall

LEMMA CopyMild ==
    ASSUME UpgradeInv, MildInv, NEW p \in Procs, Copy(p)
    PROVE  MildInv'
  <1>1. PICK c \in Components : c = Key(p)
    BY HereHolds DEF Here
  <1> DEFINE d == fs[c]  e == [d EXCEPT !.temp = "whole"]
  <1>2. Call(p, "copy", "aside") /\ SetDir(Key(p), e) /\ UNCHANGED run
    BY <1>1 DEF Copy, Dir
  <1>3. StepOf(p, c) /\ pc[p] = "copy" /\ pc'[p] = "aside" /\ d \in DirType
    BY <1>1, <1>2, CallFacts DEF Linked, Dir
  <1>4. fs'[c] = e /\ e.litter = d.litter
    BY <1>1, <1>2, <1>3, DirAfter DEF DirType
  <1>5. kills = 0 /\ faults = 0 => ~fs'[c].litter /\ NoTemp(p)'
    BY <1>1, <1>3, <1>4 DEF MildInv, CleanInv, CleanDir, NoTemp
  <1>6. kills = 0 /\ faults <= 1 => InPlace(c)'
    BY <1>2, <1>3, HiddenSteps, InPlaceStill DEF View, Call
  <1>7. faults = 0 => Undone(p)'
    BY <1>3 DEF Undone
  <1>8. /\ "copy" \in Preparing \cup Linked \cup Undoing /\ "copy" \in {"link"} \cup Linked
        /\ "aside" \in Linked \cup Undoing
    BY DEF Linked
  <1>. QED
    BY <1>1, <1>2, <1>5, <1>6, <1>7, <1>8, WorkCall

LEMMA UndoTempMild ==
    ASSUME UpgradeInv, MildInv, NEW p \in Procs, UndoTemp(p)
    PROVE  MildInv'
  <1>1. PICK c \in Components : c = Key(p)
    BY HereHolds DEF Here
  <1> DEFINE d == fs[c]  e == [d EXCEPT !.temp = "absent"]
  <1>2. Call(p, "undoTemp", "undoLink") /\ SetDir(Key(p), e) /\ UNCHANGED run
    BY <1>1 DEF UndoTemp, Dir
  <1>3. /\ StepOf(p, c) /\ pc[p] = "undoTemp" /\ pc'[p] = "undoLink" /\ d \in DirType
        /\ lock = p
    BY <1>1, <1>2, CallFacts DEF Undoing, Dir, StepOf
  <1>4. /\ fs'[c] = e /\ e.litter = d.litter /\ e.temp = "absent"
        /\ e.current = d.current /\ e.old = d.old
        /\ Key(p)' = Key(p) /\ Target(p)' = Target(p)
    BY <1>1, <1>2, <1>3, DirAfter DEF DirType, Key, Target
  <1>5. kills = 0 /\ faults = 0 => ~fs'[c].litter /\ NoTemp(p)'
    BY <1>1, <1>3, <1>4 DEF MildInv, CleanInv, CleanDir, NoTemp, Dir
  <1>6. kills = 0 /\ faults <= 1 => InPlace(c)'
    BY <1>2, <1>3, HiddenSteps, InPlaceStill DEF View, Call
  <1>7. faults = 0 => Undone(p)'
    <2>1. faults = 0 => d.current = Target(p) \/ d.old[Target(p)] # "absent"
      BY <1>1, <1>3 DEF MildInv, DeliverInv, Undone, Dir
    <2>2. Dir(p)' = e
      BY <1>1, <1>4 DEF Dir
    <2>. QED
      BY <1>3, <1>4, <2>1, <2>2 DEF Undone
  <1>. QED
    BY <1>1, <1>2, <1>5, <1>6, <1>7, WorkCall DEF Undoing

\* The calls that move versions and links.
LEMMA AsideMild ==
    ASSUME UpgradeInv, MildInv, NEW p \in Procs, Aside(p)
    PROVE  MildInv'
  <1>1. PICK c \in Components : c = Key(p)
    BY HereHolds DEF Here
  <1> DEFINE d == fs[c]  v == Target(p)  e == MovedAside(d, v)
  <1>2. Call(p, "aside", "publish") /\ (fs' = fs \/ SetDir(Key(p), e))
    BY <1>1 DEF Aside, Dir
  <1>3. /\ StepOf(p, c) /\ pc[p] = "aside" /\ pc'[p] = "publish" /\ d \in DirType
        /\ lock = p /\ lock' = p /\ v \in Versions /\ run[p] \in RunType /\ faults' = faults
    BY <1>1, <1>2, CallFacts DEF Linked, Dir, StepOf
  <1>4. /\ "aside" \in Preparing \cup Linked \cup Undoing /\ "aside" \in {"link"} \cup Linked
        /\ "publish" \in Linked \cup Undoing
    BY DEF Linked
  <1>5. kills = 0 /\ faults = 0 => ~d.litter
    BY <1>3 DEF MildInv, CleanInv, CleanDir
  <1>6. NoTemp(p)' /\ Undone(p)'
    BY <1>3 DEF NoTemp, Undone
  <1>7. CASE d.tree[v] = "absent"
    <2>1. UNCHANGED <<fs, run>>
      BY <1>1, <1>7 DEF Aside, Dir
    <2>2. kills = 0 /\ faults <= 1 => InPlace(c)'
      BY <1>3, <2>1, InPlaceStill
    <2>. QED
      BY <1>1, <1>2, <1>4, <1>5, <1>6, <2>1, <2>2, WorkCall
  <1>8. CASE d.tree[v] # "absent"
    <2>1. SetDir(Key(p), e) /\ run' = [run EXCEPT ![p].moved = TRUE]
      BY <1>1, <1>8 DEF Aside, Dir
    <2>2. /\ fs'[c] = e /\ e.litter = d.litter /\ e.previous = d.previous
          /\ e.tree = [d.tree EXCEPT ![v] = "absent"]
      <3>1. e.litter = d.litter
        BY <1>3 DEF DirType, MovedAside
      <3>. QED
        BY <1>1, <1>3, <2>1, <3>1, DirAfter, MovedAsideDir
    <2>3. /\ run'[p].moved /\ run'[p].key = run[p].key /\ run'[p].image = run[p].image
          /\ run'[p].todo = run[p].todo /\ run'[p].req = run[p].req
          /\ run'[p].rw = run[p].rw /\ run'[p].remount = run[p].remount
      BY <1>3, <2>1 DEF RunType, UpgradeInv, TypeOK
    <2>4. InTurnStep(p)
      BY <1>3, <1>4, <2>3 DEF InTurnStep
    <2>5. Key(p)' = Key(p) /\ Target(p)' = v
      BY <2>3 DEF Key, Target
    <2>6. ASSUME kills = 0, faults <= 1 PROVE InPlace(c)'
      <3>1. d.previous # None => d.tree[d.previous] = "whole"
        BY <1>3, <2>6, InPlaceNow DEF StepOf
      <3>2. d.previous \in Alias /\ d.tree \in [Versions -> {"absent", "whole"}]
        BY <1>3 DEF DirType
      <3>3. CASE d.previous = v
        BY <1>1, <1>3, <2>2, <2>3, <2>5, <3>3 DEF InPlace, SetAside
      <3>4. CASE d.previous # v
        BY <2>2, <3>1, <3>2, <3>4 DEF InPlace, Alias
      <3>. QED
        BY <3>3, <3>4
    <2>7. faults = 0 => Writable(p)'
      BY <1>3, <2>3 DEF MildInv, DeliverInv, Writable, Linked
    <2>. QED
      BY <1>3, <1>4, <1>5, <1>6, <2>2, <2>4, <2>6, <2>7, WorkStep
  <1>. QED
    BY <1>7, <1>8

LEMMA PublishMild ==
    ASSUME UpgradeInv, MildInv, NEW p \in Procs, Publish(p)
    PROVE  MildInv'
  <1>1. PICK c \in Components : c = Key(p)
    BY HereHolds DEF Here
  <1> DEFINE d == fs[c]  v == Target(p)  e == Published(d, v)
  <1>2. Call(p, "publish", "dropPrev") /\ SetDir(Key(p), e) /\ UNCHANGED run
    BY <1>1 DEF Publish, Dir
  <1>3. StepOf(p, c) /\ pc[p] = "publish" /\ pc'[p] = "dropPrev" /\ d \in DirType
    BY <1>1, <1>2, CallFacts DEF Linked, Dir
  <1>4. /\ "publish" \in Preparing \cup Linked \cup Undoing
        /\ "publish" \in {"link"} \cup Linked /\ "dropPrev" \in Linked \cup Undoing
    BY DEF Linked
  <1>5. kills = 0 /\ faults = 0 => ~fs'[c].litter /\ NoTemp(p)'
    <2>1. fs'[c] = e /\ e.litter = d.litter
      BY <1>1, <1>2, <1>3, DirAfter DEF DirType, Published
    <2>. QED
      BY <1>3, <2>1 DEF MildInv, CleanInv, CleanDir, NoTemp
  <1>6. ASSUME kills = 0, faults <= 1 PROVE InPlace(c)'
    <2>1. /\ v \in Versions /\ fs'[c].tree = [d.tree EXCEPT ![v] = "whole"]
          /\ fs'[c].previous = d.previous
      BY <1>1, PublishView
    <2>2. d.previous \in Alias /\ d.tree \in [Versions -> {"absent", "whole"}]
      BY <1>3 DEF DirType
    <2>3. InPlace(c)
      BY <1>6 DEF MildInv, FallbackInv
    <2>4. d.previous # None => d.previous = v \/ d.tree[d.previous] = "whole"
      <3>1. ASSUME NEW q \in Procs, SetAside(q, c, d.previous) PROVE d.previous = v
        BY <1>3, <3>1 DEF SetAside, StepOf
      <3>. QED
        BY <2>3, <3>1 DEF InPlace
    <2>. QED
      BY <2>1, <2>2, <2>4 DEF InPlace, Alias
  <1>7. faults = 0 => Undone(p)'
    BY <1>3 DEF Undone
  <1>. QED
    BY <1>1, <1>2, <1>4, <1>5, <1>6, <1>7, WorkCall

LEMMA DropPrevMild ==
    ASSUME UpgradeInv, MildInv, NEW p \in Procs, DropPrev(p)
    PROVE  MildInv'
  <1>1. PICK c \in Components : c = Key(p)
    BY HereHolds DEF Here
  <1> DEFINE d == fs[c]  e == [d EXCEPT !.previous = None]
  <1>2. Call(p, "dropPrev", "keepPrev") /\ SetDir(Key(p), e) /\ UNCHANGED run
    BY <1>1 DEF DropPrev, Dir
  <1>3. StepOf(p, c) /\ pc[p] = "dropPrev" /\ pc'[p] = "keepPrev" /\ d \in DirType
    BY <1>1, <1>2, CallFacts DEF Linked, Dir
  <1>4. /\ "dropPrev" \in Preparing \cup Linked \cup Undoing
        /\ "dropPrev" \in {"link"} \cup Linked /\ "keepPrev" \in Linked \cup Undoing
    BY DEF Linked
  <1>5. fs'[c] = e /\ e.litter = d.litter /\ e.previous = None
    BY <1>1, <1>2, <1>3, DirAfter DEF DirType
  <1>6. kills = 0 /\ faults = 0 => ~fs'[c].litter /\ NoTemp(p)'
    BY <1>3, <1>5 DEF MildInv, CleanInv, CleanDir, NoTemp
  <1>7. InPlace(c)' /\ Undone(p)'
    BY <1>3, <1>5 DEF InPlace, Undone
  <1>. QED
    BY <1>1, <1>2, <1>4, <1>6, <1>7, WorkCall

LEMMA KeepPrevMild ==
    ASSUME UpgradeInv, MildInv, NEW p \in Procs, KeepPrev(p)
    PROVE  MildInv'
  <1>1. PICK c \in Components : c = Key(p)
    BY HereHolds DEF Here
  <1> DEFINE d == fs[c]  e == [d EXCEPT !.previous = d.current]
  <1>2. Call(p, "keepPrev", "switch") /\ SetDir(Key(p), e) /\ UNCHANGED run
    BY <1>1 DEF KeepPrev, Dir
  <1>3. /\ StepOf(p, c) /\ pc[p] = "keepPrev" /\ pc'[p] = "switch" /\ d \in DirType
        /\ HasDir(c)
    BY <1>1, <1>2, CallFacts DEF Linked, Dir, RunInv
  <1>4. /\ "keepPrev" \in Preparing \cup Linked \cup Undoing
        /\ "keepPrev" \in {"link"} \cup Linked /\ "switch" \in Linked \cup Undoing
    BY DEF Linked
  <1>5. fs'[c] = e /\ e.litter = d.litter /\ e.previous = d.current /\ e.tree = d.tree
    BY <1>1, <1>2, <1>3, DirAfter DEF DirType
  <1>6. kills = 0 /\ faults = 0 => ~fs'[c].litter /\ NoTemp(p)'
    BY <1>3, <1>5 DEF MildInv, CleanInv, CleanDir, NoTemp
  <1>7. InPlace(c)' /\ Undone(p)'
    BY <1>3, <1>5 DEF InPlace, Undone, UpgradeInv, CurrentBoots
  <1>. QED
    BY <1>1, <1>2, <1>4, <1>6, <1>7, WorkCall

LEMMA SwitchMild ==
    ASSUME UpgradeInv, MildInv, NEW p \in Procs, Switch(p)
    PROVE  MildInv'
  <1>1. PICK c \in Components : c = Key(p)
    BY HereHolds DEF Here
  <1> DEFINE d == fs[c]  v == Target(p)  e == [d EXCEPT !.current = d.tmp, !.tmp = None]
             r == [run[p] EXCEPT !.copied = TRUE, !.remount = FALSE]
  <1>2. Call(p, "switch", "undoOld") /\ SetDir(Key(p), e) /\ run' = [run EXCEPT ![p] = r]
    BY <1>1 DEF Switch, Dir
  <1>3. /\ StepOf(p, c) /\ pc[p] = "switch" /\ pc'[p] = "undoOld" /\ d \in DirType
        /\ lock = p /\ lock' = p /\ d.tmp = v /\ run[p] \in RunType /\ faults' = faults
    BY <1>1, <1>2, CallFacts DEF Linked, Dir, RunInv, StepOf
  <1>4. "switch" \in Preparing \cup Linked \cup Undoing /\ "undoOld" \in Linked \cup Undoing
    BY DEF Linked, Undoing
  <1>5. /\ fs'[c] = e /\ e.litter = d.litter /\ e.previous = d.previous /\ e.tree = d.tree
        /\ e.current = v
    BY <1>1, <1>2, <1>3, DirAfter DEF DirType
  <1>6. /\ run'[p].key = run[p].key /\ run'[p].image = run[p].image
        /\ run'[p].todo = run[p].todo /\ run'[p].req = run[p].req
        /\ run'[p].rw = run[p].rw /\ ~run'[p].remount
    BY <1>2, <1>3 DEF RunType, UpgradeInv, TypeOK
  <1>7. InTurnStep(p)
    BY <1>3, <1>4, <1>6 DEF InTurnStep
  <1>8. kills = 0 /\ faults = 0 => ~fs'[c].litter /\ NoTemp(p)'
    BY <1>3, <1>5 DEF MildInv, CleanInv, CleanDir, NoTemp
  <1>9. kills = 0 /\ faults <= 1 => InPlace(c)'
    BY <1>3, <1>5, InPlaceStill
  <1>10. Undone(p)'
    BY <1>1, <1>3, <1>5, <1>6 DEF Undone, Dir, Key, Target
  <1>11. faults = 0 => Writable(p)'
    BY <1>3, <1>6 DEF MildInv, DeliverInv, Writable, Linked
  <1>. QED
    BY <1>3, <1>4, <1>7, <1>8, <1>9, <1>10, <1>11, WorkStep

LEMMA UndoOldMild ==
    ASSUME UpgradeInv, MildInv, NEW p \in Procs, UndoOld(p)
    PROVE  MildInv'
  <1>1. PICK c \in Components : c = Key(p)
    BY HereHolds DEF Here
  <1> DEFINE d == fs[c]  v == Target(p)  e == MovedBack(d, v)
  <1>2. /\ Call(p, "undoOld", "undoTemp") /\ UNCHANGED run
        /\ fs' = fs \/ SetDir(Key(p), e)
    BY <1>1 DEF UndoOld, Dir
  <1>3. /\ StepOf(p, c) /\ pc[p] = "undoOld" /\ pc'[p] = "undoTemp" /\ d \in DirType
        /\ lock = p /\ v \in Versions
    BY <1>1, <1>2, CallFacts DEF Undoing, Dir, StepOf
  <1>4. "undoOld" \in Preparing \cup Linked \cup Undoing /\ "undoTemp" \in Undoing
    BY DEF Undoing
  <1>5. kills = 0 /\ faults = 0 => ~fs'[c].litter /\ NoTemp(p)'
    <2>1. fs'[c].litter = d.litter
      <3>1. e.litter = d.litter
        BY <1>3 DEF DirType, MovedBack
      <3>. QED
        BY <1>1, <1>2, <3>1, DirAfter
    <2>. QED
      BY <1>3, <2>1 DEF MildInv, CleanInv, CleanDir, NoTemp
  <1>6. ASSUME kills = 0, faults <= 1 PROVE InPlace(c)'
    <2>1. d.previous \in Alias /\ InPlace(c)
      BY <1>3, <1>6 DEF DirType, MildInv, FallbackInv
    <2>2. d.previous # None =>
              d.tree[d.previous] = "whole" \/ (run[p].moved /\ d.previous = v)
      <3>1. ASSUME NEW q \in Procs, SetAside(q, c, d.previous)
            PROVE  run[p].moved /\ d.previous = v
        BY <1>3, <3>1 DEF SetAside
      <3>. QED
        BY <2>1, <3>1 DEF InPlace
    <2>3. CASE fs' = fs
      <3>1. run[p].moved => d.tree[v] = "absent" /\ d.old[v] = "absent"
        <4>1. ~Blocked(p) /\ (run[p].moved => SetDir(Key(p), e))
          BY <1>1 DEF UndoOld, Call, Dir
        <4>2. run[p].moved => d.tree[v] = "absent"
          BY <1>1, <1>3, <4>1 DEF Blocked, Dir
        <4>3. run[p].moved => e = d
          BY <1>1, <2>3, <4>1, DirAfter
        <4>4. e.tree = [d.tree EXCEPT ![v] = d.old[v]]
          BY <1>3, MovedBackDir
        <4>. QED
          BY <1>3, <4>2, <4>3, <4>4 DEF DirType
      <3>2. d.previous # None => "whole" \in {d.tree[d.previous], d.old[d.previous]}
        BY DEF UpgradeInv, FallbackKept
      <3>. QED
        BY <2>2, <2>3, <3>1, <3>2 DEF InPlace
    <2>4. CASE fs' # fs
      <3>1. /\ d.tree[v] = "absent" /\ fs'[c].tree = [d.tree EXCEPT ![v] = d.old[v]]
            /\ fs'[c].previous = d.previous
        BY <1>1, <2>4, UndoOldView
      <3>2. /\ d.tree \in [Versions -> {"absent", "whole"}]
            /\ d.old \in [Versions -> {"absent", "whole"}]
        BY <1>3 DEF DirType
      <3>3. d.previous # None => "whole" \in {d.tree[d.previous], d.old[d.previous]}
        BY DEF UpgradeInv, FallbackKept
      <3>. QED
        BY <1>3, <2>1, <2>2, <3>1, <3>2, <3>3 DEF InPlace, Alias
    <2>. QED
      BY <2>3, <2>4
  <1>7. faults = 0 => Undone(p)'
    <2>1. fs'[c].current = d.current
      BY <1>1, UndoOldView
    <2>2. Key(p)' = Key(p) /\ Target(p)' = v
      BY <1>2 DEF Key, Target
    <2>. QED
      BY <1>1, <1>3, <2>1, <2>2 DEF MildInv, DeliverInv, Undone, Dir
  <1>. QED
    BY <1>1, <1>2, <1>4, <1>5, <1>6, <1>7, WorkCall

LEMMA UndoLinkMild ==
    ASSUME UpgradeInv, MildInv, NEW p \in Procs, UndoLink(p)
    PROVE  MildInv'
  <1>1. PICK c \in Components : c = Key(p)
    BY HereHolds DEF Here
  <1> DEFINE d == fs[c]  e == [d EXCEPT !.tmp = None]
  <1>2. Call(p, "undoLink", "next") /\ SetDir(Key(p), e) /\ UNCHANGED run
    BY <1>1 DEF UndoLink, Dir
  <1>3. /\ StepOf(p, c) /\ pc[p] = "undoLink" /\ pc'[p] = "next" /\ d \in DirType
        /\ lock = p /\ lock' = p /\ faults' = faults /\ kills' = kills
    BY <1>1, <1>2, CallFacts DEF Undoing, Dir, StepOf
  <1>4. /\ fs'[c] = e /\ e.litter = d.litter /\ e.temp = d.temp /\ e.tmp = None
        /\ e.current = d.current /\ e.old = d.old
    BY <1>1, <1>2, <1>3, DirAfter DEF DirType, Alias
  <1>5. kills = 0 /\ faults = 0 => CleanDir(c)' /\ NoTemp(p)'
    BY <1>1, <1>3, <1>4 DEF MildInv, CleanInv, CleanDir, NoTemp, Dir
  <1>6. kills = 0 /\ faults <= 1 => InPlace(c)'
    BY <1>2, <1>3, HiddenSteps, InPlaceStill DEF View, Call
  <1>7. ASSUME faults = 0 PROVE TurnsOver(p)' /\ Writable(p)' /\ Undone(p)'
    <2>1. Delivered(p, c)'
      <3>1. d.current = Target(p) \/ d.old[Target(p)] # "absent"
        BY <1>1, <1>3, <1>7 DEF MildInv, DeliverInv, Undone, Dir
      <3>. QED
        BY <1>1, <1>2, <1>4, <3>1 DEF Delivered, Target, Key
    <2>2. InTurnStep(p)
      BY <1>2, <1>3 DEF InTurnStep, Undoing
    <2>3. TurnsOver(p)'
      BY <1>3, <1>7, <2>1, <2>2, TurnsAfter
    <2>4. Writable(p)' /\ Undone(p)'
      BY <1>2, <1>3, <1>7 DEF MildInv, DeliverInv, Writable, Undone, Linked
    <2>. QED
      BY <2>3, <2>4
  <1>. QED
    BY <1>3, <1>5, <1>6, <1>7, MildStep

LEMMA RemountMild ==
    ASSUME UpgradeInv, MildInv, NEW p \in Procs, Remount(p)
    PROVE  MildInv'
  <1>1. PICK c \in Components : c = Key(p)
    BY HereHolds DEF Here
  <1>2. /\ Call(p, "remount", "link") /\ fs' = fs
        /\ run' = [run EXCEPT ![p].rw = TRUE] /\ run \in [Procs -> RunType]
    BY DEF Remount, UpgradeInv, TypeOK
  <1>3. /\ StepOf(p, c) /\ pc[p] = "remount" /\ pc'[p] = "link" /\ lock = p /\ lock' = p
        /\ kills' = kills /\ faults' = faults
    BY <1>1, <1>2, CallFacts DEF Preparing, StepOf
  <1>4. /\ run'[p].key = run[p].key /\ run'[p].image = run[p].image
        /\ run'[p].todo = run[p].todo /\ run'[p].req = run[p].req
        /\ run'[p].rw /\ run'[p].remount = run[p].remount
    BY <1>2 DEF RunType
  <1>5. ASSUME faults = 0 PROVE TurnsOver(p)' /\ Writable(p)' /\ Undone(p)'
    <2>1. "remount" \in run[p].req /\ Writable(p)
      BY <1>3, <1>5 DEF MildInv, DeliverInv, Writable
    <2>2. InTurnStep(p)
      BY <1>3, <1>4, <2>1 DEF InTurnStep, Preparing
    <2>3. TurnsOver(p)'
      BY <1>3, <1>5, <2>2, TurnsAfter DEF Preparing
    <2>. QED
      BY <1>3, <1>4, <2>1, <2>3 DEF Writable, Undone
  <1>6. DeliverInv'
    BY <1>3, <1>5, UpgradeAssumption DEF DeliverInv
  <1>7. \A q \in Procs : pc[q] \notin Linked \cup Undoing /\ pc'[q] \notin Linked \cup Undoing
    BY <1>3 DEF StepOf, Linked, Undoing
  <1>. QED
    BY <1>2, <1>3, <1>6, <1>7, QuietStep DEF StepOf

\* The steps of a run between two components.
BetweenLabels == {"idle", "next", "reboot", "exit"}

LEMMA BetweenStep ==
    ASSUME UpgradeInv, MildInv, NEW p \in Procs, UNCHANGED <<fs, kills, faults>>,
           lock \in {p, NoProc}, lock' \in {p, NoProc}, pc[p] \in BetweenLabels,
           NEW l \in BetweenLabels \cup {"remount", "link"}, Goto(p, l),
           lock' = p /\ faults = 0 => TurnsOver(p)' /\ Writable(p)'
    PROVE  MildInv'
  <1>1. pc'[p] = l /\ \A q \in Procs \ {p} : pc[q] = "idle" /\ pc'[q] = "idle"
    BY UpgradeAssumption DEF Goto, UpgradeInv, TypeOK, RunInv
  <1>2. \A q \in Procs : pc[q] \notin Linked \cup Undoing /\ pc'[q] \notin Linked \cup Undoing
    BY <1>1 DEF BetweenLabels, Linked, Undoing
  <1>3. Undone(p)'
    BY <1>1 DEF Undone, BetweenLabels
  <1>4. DeliverInv'
    BY <1>3, UpgradeAssumption DEF DeliverInv
  <1>5. kills = 0 \/ kills' # 0
    OBVIOUS
  <1>6. faults \in Nat
    BY UpgradeAssumption DEF UpgradeInv, TypeOK
  <1>. QED
    BY <1>2, <1>4, <1>5, <1>6, QuietStep

LEMMA BeginMild ==
    ASSUME UpgradeInv, MildInv, NEW p \in Procs,
           NEW req \in Requests, NEW image \in Releases, Begin(p, req, image)
    PROVE  MildInv'
  <1>1. PICK w \in BOOLEAN : run' = [run EXCEPT ![p] = FreshRun(req, image, w)]
    BY DEF Begin
  <1>2. run'[p] = FreshRun(req, image, w)
    BY <1>1 DEF UpgradeInv, TypeOK
  <1>3. /\ UNCHANGED <<fs, kills, faults>> /\ lock = NoProc /\ lock' = p
        /\ pc[p] = "idle" /\ Goto(p, "next") /\ pc'[p] = "next"
    BY DEF Begin, LockFree, Goto, UpgradeInv, TypeOK
  <1>4. TurnsOver(p)'
    BY <1>2, <1>3 DEF TurnsOver, Asked, FreshRun, AtEnd
  <1>5. Writable(p)'
    <2>1. run'[p].remount = ("remount" \in run'[p].req)
      BY <1>2 DEF FreshRun
    <2>. QED
      BY <1>3, <2>1 DEF Writable, Linked
  <1>. QED
    BY <1>3, <1>4, <1>5, BetweenStep DEF BetweenLabels

LEMMA TurnMild ==
    ASSUME UpgradeInv, MildInv, NEW p \in Procs, NEW c \in Components, Turn(p, c),
           \/ HasNews(p, c) /\ Goto(p, IF run[p].remount THEN "remount" ELSE "link")
           \/ ~HasNews(p, c) /\ Goto(p, "next")
    PROVE  MildInv'
  <1>1. /\ UNCHANGED <<fs, kills, faults>> /\ lock = p /\ lock' = p /\ pc[p] = "next"
        /\ run' = [run EXCEPT ![p] = Considered(run[p], c)] /\ run \in [Procs -> RunType]
    BY TurnStep DEF Turn, UpgradeInv, TypeOK
  <1>2. /\ run'[p].key = c /\ run'[p].todo = run[p].todo \ {c}
        /\ run'[p].image = run[p].image /\ run'[p].req = run[p].req
        /\ run'[p].rw = run[p].rw /\ run'[p].remount = run[p].remount
    BY <1>1 DEF Considered, RunType
  <1>3. PICK l \in {"next", "remount", "link"} :
            /\ Goto(p, l) /\ pc'[p] = l
            /\ l = "next" => ~HasNews(p, c)
            /\ l = "remount" => run[p].remount
            /\ l = "link" => ~run[p].remount
    BY DEF Goto, UpgradeInv, TypeOK
  <1>4. ASSUME faults = 0 PROVE TurnsOver(p)' /\ Writable(p)'
    <2>1. TurnsOver(p) /\ Writable(p)
      BY <1>1, <1>4 DEF MildInv, DeliverInv
    <2>2. Asked(p)' = Asked(p)
      BY <1>2 DEF Asked
    <2>3. ASSUME NEW e \in Asked(p) \ run'[p].todo PROVE (InTurn(p, e) \/ Delivered(p, e))'
      <3>1. CASE e # c
        <4>1. e \notin run[p].todo
          BY <1>2, <2>3, <3>1
        <4>2. Delivered(p, e)
          BY <1>1, <2>1, <2>3, <4>1 DEF TurnsOver, InTurn, Preparing, Linked, Undoing
        <4>. QED
          BY <1>1, <1>2, <4>2 DEF Delivered
      <3>2. CASE e = c /\ l = "next"
        <4>1. run[p].image[c] # None
          BY <2>3, <3>2 DEF Asked
        <4>. QED
          BY <1>1, <1>2, <1>3, <3>2, <4>1 DEF HasNews, UpToDate, Delivered
      <3>3. CASE e = c /\ l # "next"
        BY <1>2, <1>3, <3>3 DEF InTurn, Key, Preparing
      <3>. QED
        BY <3>1, <3>2, <3>3
    <2>4. ~AtEnd(p)'
      BY <1>3 DEF AtEnd
    <2>5. Writable(p)'
      BY <1>1, <1>2, <1>3, <2>1 DEF Writable, Linked
    <2>. QED
      BY <2>2, <2>3, <2>4, <2>5 DEF TurnsOver
  <1>. QED
    BY <1>1, <1>3, <1>4, BetweenStep DEF BetweenLabels

LEMMA FinishMild ==
    ASSUME UpgradeInv, MildInv, NEW p \in Procs, Finish(p) \/ Reboot(p) \/ Exit(p)
    PROVE  MildInv'
  <1>1. /\ UNCHANGED <<fs, kills, faults>> /\ lock = p /\ lock' \in {p, NoProc}
        /\ pc[p] \in BetweenLabels
    BY DEF Finish, Reboot, Exit, BetweenLabels, UpgradeInv, RunInv
  <1>2. PICK l \in {"reboot", "exit", "idle"} : Goto(p, l) /\ pc'[p] = l
    BY DEF Finish, Reboot, Exit, Goto, UpgradeInv, TypeOK
  <1>3. ASSUME lock' = p, faults = 0 PROVE TurnsOver(p)' /\ Writable(p)'
    <2>1. UNCHANGED run /\ run[p].todo = {}
      BY <1>1, <1>3, UpgradeAssumption
      DEF Finish, Reboot, Exit, MildInv, DeliverInv, TurnsOver, AtEnd
    <2>2. TurnsOver(p) /\ Writable(p)
      BY <1>1, <1>3 DEF MildInv, DeliverInv
    <2>3. \A e \in Asked(p) : Delivered(p, e)
      BY <1>1, <2>1, <2>2
      DEF TurnsOver, InTurn, BetweenLabels, Preparing, Linked, Undoing
    <2>4. TurnsOver(p)'
      BY <1>1, <2>1, <2>3 DEF TurnsOver, Asked, Delivered
    <2>. QED
      BY <1>1, <1>2, <2>1, <2>2, <2>4 DEF Writable, Linked, BetweenLabels
  <1>. QED
    BY <1>1, <1>2, <1>3, BetweenStep DEF BetweenLabels

\* What goes wrong.
LEMMA ErrorMild ==
    ASSUME UpgradeInv, MildInv, NEW p \in Procs, Error(p)
    PROVE  MildInv'
  <1>1. PICK c \in Components : c = Key(p)
    BY HereHolds DEF Here
  <1> DEFINE d == fs[c]  v == Target(p)  l == ErrorPath[pc[p]]
  <1>2. /\ pc[p] \in DOMAIN ErrorPath /\ Goto(p, l) /\ pc'[p] = l
        /\ UNCHANGED <<fs, run, lock, kills>>
        /\ IF Blocked(p) THEN faults' = faults ELSE faults' = faults + 1
        /\ faults \in Nat
    BY UpgradeAssumption DEF Error, Goto, UpgradeInv, TypeOK
  <1>3. lock = p /\ RunInv(p) /\ d \in DirType /\ v \in Alias
    BY <1>1, <1>2, HereHolds DEF Here, RunInv, ErrorPath, Dir
  <1>4. /\ Key(p)' = Key(p) /\ Target(p)' = v /\ Dir(p)' = Dir(p) /\ Dir(p) = d
        /\ Asked(p)' = Asked(p)
    BY <1>1, <1>2 DEF Key, Target, Dir, Asked
  <1>5. \A q \in Procs \ {p} : pc[q] = "idle" /\ pc'[q] = "idle"
    BY <1>2, <1>3 DEF UpgradeInv, RunInv, TypeOK, Goto
  <1>6. StepOf(p, c)
    BY <1>1, <1>2, <1>3, <1>5 DEF StepOf
  <1>7. ASSUME faults' = 0
        PROVE  /\ faults = 0 /\ Blocked(p) /\ TurnsOver(p) /\ Writable(p) /\ Undone(p)
               /\ pc[p] \in {"link", "aside", "undoOld"}
    <2>1. faults = 0 /\ Blocked(p)
      BY <1>2, <1>7
    <2>2. TurnsOver(p) /\ Writable(p) /\ Undone(p)
      BY <1>3, <2>1 DEF MildInv, DeliverInv
    <2>3. ~(pc[p] = "keepPrev" /\ (d.current = None \/ d.previous # None))
      BY <1>1, <1>3, <1>4, <2>1 DEF UpgradeInv, CurrentBoots, RunInv, Linked
    <2>. QED
      BY <1>4, <2>1, <2>2, <2>3 DEF Blocked
  <1>8. ASSUME kills' = 0, faults' = 0 PROVE CleanDir(c)' /\ NoTemp(p)'
    <2>1. CleanDir(c)
      BY <1>2, <1>7, <1>8 DEF MildInv, CleanInv
    <2>2. CASE pc[p] = "link"
      <3>1. \A q \in Procs : ~AtWork(q, c)
        BY <1>3, <2>2, UpgradeAssumption DEF AtWork, Linked, Undoing
      <3>. QED
        BY <1>2, <2>1, <2>2, <3>1 DEF CleanDir, NoTemp, ErrorPath
    <2>3. CASE pc[p] \in {"aside", "undoOld"}
      <3>1. AtWork(p, c)' /\ pc'[p] = "undoTemp"
        BY <1>1, <1>2, <1>3, <1>4, <2>3 DEF AtWork, ErrorPath, Undoing
      <3>. QED
        BY <1>2, <2>1, <3>1 DEF CleanDir, NoTemp
    <2>. QED
      BY <1>7, <1>8, <2>2, <2>3
  <1>9. ASSUME kills' = 0, faults' <= 1 PROVE InPlace(c)'
    <2>1. InPlace(c) /\ d.previous \in Alias
      BY <1>2, <1>3, <1>9 DEF MildInv, FallbackInv, DirType
    <2>2. CASE d.previous = None \/ d.tree[d.previous] = "whole"
      BY <1>2, <2>2 DEF InPlace
    <2>3. CASE SetAside(p, c, d.previous)
      <3>1. CASE pc[p] = "publish"
        BY <1>1, <1>2, <1>4, <2>3, <3>1 DEF InPlace, SetAside, ErrorPath
      <3>2. CASE pc[p] = "undoOld"
        <4>1. d.previous = v /\ run[p].moved
          BY <2>3 DEF SetAside
        <4>2. CASE Blocked(p)
          <5>1. d.tree[v] # "absent"
            BY <1>4, <3>2, <4>2 DEF Blocked
          <5>. QED
            BY <1>2, <1>3, <2>1, <4>1, <5>1 DEF InPlace, DirType, Alias
        <4>3. CASE ~Blocked(p)
          <5>1. faults = 0
            BY <1>2, <1>9, <4>3
          <5>2. d.current = v
            BY <1>3, <1>4, <3>2, <5>1 DEF MildInv, DeliverInv, Undone
          <5>3. d.tree[v] = "whole"
            BY <1>1, <1>3, <3>2, <5>2 DEF UpgradeInv, CurrentBoots, RunInv, Undoing
          <5>. QED
            BY <1>2, <4>1, <5>3 DEF InPlace
        <4>. QED
          BY <4>2, <4>3
      <3>. QED
        BY <2>3, <3>1, <3>2 DEF SetAside
    <2>. QED
      BY <1>3, <2>1, <2>2, <2>3 DEF InPlace, SetAside
  <1>10. ASSUME lock' = p, faults' = 0 PROVE TurnsOver(p)' /\ Writable(p)' /\ Undone(p)'
    <2>1. InTurnStep(p) /\ pc'[p] \in {"next", "undoTemp"}
      BY <1>2, <1>3, <1>7, <1>10
      DEF InTurnStep, ErrorPath, Preparing, Linked, Undoing
    <2>2. TurnsOver(p)'
      <3>1. CASE pc[p] = "link"
        <4>1. c \in Asked(p) => d.tmp # None
          BY <1>1, <1>4, <1>7, <1>10, <3>1 DEF Blocked, Asked, Writable
        <4>2. (c \in Asked(p) => Delivered(p, c)')
          BY <1>2, <1>4, <4>1 DEF Delivered
        <4>. QED
          BY <1>2, <1>6, <1>10, <2>1, <3>1, <4>2, TurnsAfter DEF ErrorPath
      <3>2. CASE pc[p] \in {"aside", "undoOld"}
        BY <1>2, <1>6, <1>10, <2>1, <3>2, TurnsAfter DEF ErrorPath, Undoing
      <3>. QED
        BY <1>7, <1>10, <3>1, <3>2
    <2>3. Writable(p)'
      BY <1>2, <1>7, <1>10, <2>1 DEF Writable, Linked
    <2>4. Undone(p)'
      <3>1. CASE pc[p] = "link"
        BY <1>2, <3>1 DEF Undone, ErrorPath
      <3>2. CASE pc[p] \in {"aside", "undoOld"}
        <4>1. d.current = v \/ d.old[v] # "absent"
          BY <1>4, <1>7, <1>10, <3>2 DEF Undone, Blocked
        <4>. QED
          BY <1>2, <1>4, <3>2, <4>1 DEF Undone, ErrorPath
      <3>. QED
        BY <1>7, <1>10, <3>1, <3>2
    <2>. QED
      BY <2>2, <2>3, <2>4
  <1>. QED
    BY <1>6, <1>8, <1>9, <1>10, MildStep

LEMMA KillMild ==
    ASSUME UpgradeInv, MildInv, NEW p \in Procs, Kill(p)
    PROVE  MildInv'
  <1>1. UNCHANGED fs /\ lock' = NoProc /\ kills' = kills + 1 /\ kills \in Nat
    BY UpgradeAssumption DEF Kill, UpgradeInv, TypeOK
  <1>2. DeliverInv'
    BY <1>1, UpgradeAssumption DEF DeliverInv
  <1>. QED
    BY <1>1, <1>2, QuietStep

LEMMA RestartMild ==
    ASSUME UpgradeInv, MildInv, Restart
    PROVE  MildInv'
  <1>1. /\ UNCHANGED <<fs, faults>> /\ lock' = NoProc /\ kills \in Nat /\ faults \in Nat
        /\ IF lock = NoProc THEN kills' = kills ELSE kills' = kills + 1
        /\ pc' = [p \in Procs |-> "idle"]
    BY UpgradeAssumption DEF Restart, UpgradeInv, TypeOK
  <1>2. DeliverInv'
    BY <1>1, UpgradeAssumption DEF DeliverInv
  <1>3. CASE lock = NoProc
    <2>1. \A p \in Procs : pc[p] = "idle" /\ pc'[p] = "idle"
      BY <1>1, <1>3, UpgradeAssumption DEF UpgradeInv, RunInv
    <2>2. \A p \in Procs : /\ pc[p] \notin Linked \cup Undoing
                           /\ pc'[p] \notin Linked \cup Undoing
      BY <2>1 DEF Linked, Undoing
    <2>. QED
      BY <1>1, <1>2, <1>3, <2>2, QuietStep
  <1>4. CASE lock # NoProc
    BY <1>1, <1>2, <1>4, QuietStep
  <1>. QED
    BY <1>3, <1>4

LEMMA InitMild == Init => MildInv
  <1> SUFFICES ASSUME Init PROVE MildInv
    OBVIOUS
  <1>1. \A c \in Components : CleanDir(c) /\ InPlace(c)
    BY DEF Init, CleanDir, InPlace, FreshDir
  <1>2. \A p \in Procs : NoTemp(p) /\ lock # p
    BY UpgradeAssumption DEF Init, NoTemp
  <1>. QED
    BY <1>1, <1>2 DEF MildInv, CleanInv, FallbackInv, DeliverInv

LEMMA NextMild == UpgradeInv /\ MildInv /\ [Next]_vars => MildInv'
  <1> SUFFICES ASSUME UpgradeInv, MildInv, [Next]_vars PROVE MildInv'
    OBVIOUS
  <1>1. ASSUME NEW p \in Procs, Skip(p) \/ Take(p) PROVE MildInv'
    BY <1>1, TurnMild DEF Skip, Take
  <1>2. ASSUME NEW p \in Procs, Progress(p), ~Skip(p), ~Take(p) PROVE MildInv'
    BY <1>2, FinishMild, RemountMild, LinkMild, MkTempMild, CopyMild, AsideMild,
       PublishMild, DropPrevMild, KeepPrevMild, SwitchMild, UndoOldMild, UndoTempMild,
       UndoLinkMild, ErrorMild
    DEF Progress
  <1>3. ASSUME NEW p \in Procs, NEW req \in Requests, NEW image \in Releases,
               Begin(p, req, image)
        PROVE  MildInv'
    BY <1>3, BeginMild
  <1>4. ASSUME NEW p \in Procs, Kill(p) PROVE MildInv'
    BY <1>4, KillMild
  <1>5. CASE Restart
    BY <1>5, RestartMild
  <1>6. CASE UNCHANGED vars
    <2>1. UNCHANGED <<fs, pc, run, lock, kills, faults>>
      BY <1>6 DEF vars
    <2>2. CleanInv'
      BY <2>1 DEF MildInv, CleanInv, CleanDir, NoTemp, AtWork, Key, Dir
    <2>3. FallbackInv'
      BY <2>1 DEF MildInv, FallbackInv, InPlace, SetAside, Key, Target
    <2>4. DeliverInv'
      BY <2>1 DEF MildInv, DeliverInv, TurnsOver, Asked, InTurn, Delivered, AtEnd, Writable,
                  Undone, Key, Target, Dir, HasDir
    <2>. QED
      BY <2>2, <2>3, <2>4 DEF MildInv
  <1>. QED
    BY <1>1, <1>2, <1>3, <1>4, <1>5, <1>6 DEF Next, Progress

\* The second inductive invariant, relative to the first.
THEOREM MildInvariant == Spec => []MildInv
  BY InitMild, NextMild, UpgradeInvariant, PTL DEF Spec

\* A run that was not cut short and whose calls did not fail leaves neither current.tmp
\* nor a temporary directory behind (component.go:74 and :81).
THEOREM NothingLeftOver == Spec => []NoLeftovers
  <1>1. MildInv => NoLeftovers
    BY DEF MildInv, CleanInv, CleanDir, AtWork, NoLeftovers
  <1>. QED
    BY <1>1, MildInvariant, PTL

\* One failing call does not cost the fallback its name, whichever call it is: with no
\* run at work and none cut short, "k3OS Previous" boots.
THEOREM FallbackAlwaysBoots == Spec => []FallbackBoots
  <1>1. UpgradeInv /\ MildInv => FallbackBoots
    <2> SUFFICES ASSUME UpgradeInv, MildInv, lock = NoProc, kills = 0, faults <= 1,
                        NEW c \in Components, fs[c].previous # None
                 PROVE  fs[c].tree[fs[c].previous] = "whole"
      BY DEF FallbackBoots
    <2>1. InPlace(c)
      BY DEF MildInv, FallbackInv
    <2>2. \A p \in Procs : ~SetAside(p, c, fs[c].previous)
      BY UpgradeAssumption DEF SetAside
    <2>. QED
      BY <2>1, <2>2 DEF InPlace
  <1>. QED
    BY <1>1, MildInvariant, UpgradeInvariant, PTL

\* A run whose calls did not fail delivers what it was asked for, or an obstacle that it
\* found there is still there: upgrade.go, which only logs the error, hides nothing else.
THEOREM DeliveredUnlessObstructed == Spec => []DeliveredOrObstructed
  <1>1. UpgradeInv /\ MildInv => DeliveredOrObstructed
    <2> SUFFICES ASSUME UpgradeInv, MildInv, NEW p \in Procs, AtEnd(p), faults = 0,
                        NEW c \in Asked(p)
                 PROVE  Delivered(p, c)
      BY DEF DeliveredOrObstructed, Delivered
    <2>1. lock = p
      BY DEF UpgradeInv, RunInv, AtEnd
    <2>2. TurnsOver(p) /\ ~InTurn(p, c)
      BY <2>1 DEF MildInv, DeliverInv, InTurn, AtEnd, Preparing, Linked, Undoing
    <2>. QED
      BY <2>2 DEF TurnsOver
  <1>. QED
    BY <1>1, MildInvariant, UpgradeInvariant, PTL

----------------------------------------------------------------------------
\* The refinement of VersionStore.

LEMMA StoreInit == Init => Store!Init
  <1> SUFFICES ASSUME Init PROVE Store!Init
    OBVIOUS
  <1>1. Installed \in [Components -> SUBSET Versions]
    BY DEF Installed
  <1>2. PutAside = [c \in Components |-> {}]
    BY DEF Init, PutAside, FreshDir, Absent
  <1>3. Active \in [Components -> Versions \cup {None}]
    BY UpgradeAssumption DEF Init, Active, FreshDir
  <1>4. \A c \in Components : Active[c] # None => Active[c] \in Installed[c]
    BY UpgradeAssumption DEF Init, Active, Installed, FreshDir
  <1>5. Fallback = [c \in Components |-> None]
    BY DEF Init, Fallback, FreshDir
  <1>. QED
    BY <1>1, <1>2, <1>3, <1>4, <1>5 DEF Store!Init

\* How the view of a directory determines the variables of the abstract store.
LEMMA SameTree ==
    ASSUME \A d \in Components : fs'[d].tree = fs[d].tree
    PROVE  Installed' = Installed
  BY DEF Installed

LEMMA SameOld ==
    ASSUME \A d \in Components : fs'[d].old = fs[d].old
    PROVE  PutAside' = PutAside
  BY DEF PutAside

LEMMA SameLinks ==
    ASSUME \A d \in Components : /\ fs'[d].current = fs[d].current
                                 /\ fs'[d].previous = fs[d].previous
    PROVE  Active' = Active /\ Fallback' = Fallback
  BY DEF Active, Fallback

LEMMA AddTree ==
    ASSUME NEW c \in Components, NEW v \in Versions,
           \A w \in Versions : fs'[c].tree[w] = "whole" <=> fs[c].tree[w] = "whole" \/ w = v,
           \A d \in Components \ {c} : fs'[d].tree = fs[d].tree
    PROVE  Installed' = [Installed EXCEPT ![c] = @ \cup {v}]
  <1>1. Installed'[c] = Installed[c] \cup {v}
    BY DEF Installed
  <1>2. \A d \in Components \ {c} : Installed'[d] = Installed[d]
    BY DEF Installed
  <1>. QED
    BY <1>1, <1>2 DEF Installed

LEMMA RemoveTree ==
    ASSUME NEW c \in Components, NEW v \in Versions,
           \A w \in Versions : fs'[c].tree[w] = "whole" <=> fs[c].tree[w] = "whole" /\ w # v,
           \A d \in Components \ {c} : fs'[d].tree = fs[d].tree
    PROVE  Installed' = [Installed EXCEPT ![c] = @ \ {v}]
  <1>1. Installed'[c] = Installed[c] \ {v}
    BY DEF Installed
  <1>2. \A d \in Components \ {c} : Installed'[d] = Installed[d]
    BY DEF Installed
  <1>. QED
    BY <1>1, <1>2 DEF Installed

LEMMA AddOld ==
    ASSUME NEW c \in Components, NEW v \in Versions,
           \A w \in Versions : fs'[c].old[w] = "whole" <=> fs[c].old[w] = "whole" \/ w = v,
           \A d \in Components \ {c} : fs'[d].old = fs[d].old
    PROVE  PutAside' = [PutAside EXCEPT ![c] = @ \cup {v}]
  <1>1. PutAside'[c] = PutAside[c] \cup {v}
    BY DEF PutAside
  <1>2. \A d \in Components \ {c} : PutAside'[d] = PutAside[d]
    BY DEF PutAside
  <1>. QED
    BY <1>1, <1>2 DEF PutAside

LEMMA RemoveOld ==
    ASSUME NEW c \in Components, NEW v \in Versions,
           \A w \in Versions : fs'[c].old[w] = "whole" <=> fs[c].old[w] = "whole" /\ w # v,
           \A d \in Components \ {c} : fs'[d].old = fs[d].old
    PROVE  PutAside' = [PutAside EXCEPT ![c] = @ \ {v}]
  <1>1. PutAside'[c] = PutAside[c] \ {v}
    BY DEF PutAside
  <1>2. \A d \in Components \ {c} : PutAside'[d] = PutAside[d]
    BY DEF PutAside
  <1>. QED
    BY <1>1, <1>2 DEF PutAside

\* Every step is a step of the abstract store or leaves it as it is.
LEMMA StoreStep ==
    ASSUME UpgradeInv, [Next]_vars
    PROVE  [Store!Next]_Store!store
  <1>t. fs \in [Components -> DirType]
    BY DEF UpgradeInv, TypeOK
  <1>1. CASE \A c \in Components : UNCHANGED View(c)
    <2>1. \A c \in Components : /\ fs'[c].tree = fs[c].tree /\ fs'[c].old = fs[c].old
                                /\ fs'[c].current = fs[c].current
                                /\ fs'[c].previous = fs[c].previous
      BY <1>1 DEF View
    <2>2. UNCHANGED <<Installed, PutAside, Active, Fallback>>
      BY <2>1 DEF Installed, PutAside, Active, Fallback
    <2>. QED
      BY <2>2 DEF Store!store
  <1>2. ASSUME NEW p \in Procs, Publish(p) PROVE Store!Next
    <2> DEFINE c == Key(p)  v == Target(p)
    <2>1. c \in Components /\ v \in Versions /\ v \notin Installed[c]
      BY <1>2, PublishView DEF Installed
    <2>2. /\ \A w \in Versions : fs'[c].tree[w] = "whole" <=> fs[c].tree[w] = "whole" \/ w = v
          /\ \A d \in Components \ {c} : fs'[d].tree = fs[d].tree
      BY <1>t, <1>2, PublishView DEF DirType
    <2>3. Installed' = [Installed EXCEPT ![c] = @ \cup {v}]
      BY <2>1, <2>2, AddTree
    <2>4. UNCHANGED <<PutAside, Active, Fallback>>
      BY <1>2, PublishView, SameOld, SameLinks
    <2>. QED
      BY <2>1, <2>3, <2>4 DEF Store!Install, Store!Next
  <1>3. ASSUME NEW p \in Procs, Aside(p), fs' # fs PROVE Store!Next
    <2> DEFINE c == Key(p)  v == Target(p)
    <2>1. /\ c \in Components /\ v \in Versions
          /\ v \in Installed[c] /\ v \notin PutAside[c] /\ v # Active[c]
      BY <1>3, AsideView DEF Installed, PutAside, Active
    <2>2. /\ fs'[c].tree = [fs[c].tree EXCEPT ![v] = "absent"]
          /\ fs'[c].old = [fs[c].old EXCEPT ![v] = "whole"]
          /\ \A d \in Components \ {c} : fs'[d] = fs[d]
      BY <1>3, AsideView
    <2>3. Installed' = [Installed EXCEPT ![c] = @ \ {v}]
      <3>1. \A w \in Versions : fs'[c].tree[w] = "whole" <=> fs[c].tree[w] = "whole" /\ w # v
        BY <1>t, <2>1, <2>2 DEF DirType
      <3>2. \A d \in Components \ {c} : fs'[d].tree = fs[d].tree
        BY <2>2
      <3>. QED
        BY <2>1, <3>1, <3>2, RemoveTree
    <2>4. PutAside' = [PutAside EXCEPT ![c] = @ \cup {v}]
      <3>1. \A w \in Versions : fs'[c].old[w] = "whole" <=> fs[c].old[w] = "whole" \/ w = v
        BY <1>t, <2>1, <2>2 DEF DirType
      <3>2. \A d \in Components \ {c} : fs'[d].old = fs[d].old
        BY <2>2
      <3>. QED
        BY <2>1, <3>1, <3>2, AddOld
    <2>5. UNCHANGED <<Active, Fallback>>
      BY <1>3, AsideView, SameLinks
    <2>. QED
      BY <2>1, <2>3, <2>4, <2>5 DEF Store!SetAside, Store!Next
  <1>4. ASSUME NEW p \in Procs, UndoOld(p), fs' # fs PROVE [Store!Next]_Store!store
    <2> DEFINE c == Key(p)  v == Target(p)
    <2>1. c \in Components /\ v \in Versions /\ v \notin Installed[c]
      BY <1>4, UndoOldView DEF Installed
    <2>2. UNCHANGED <<Active, Fallback>>
      BY <1>4, UndoOldView, SameLinks
    <2>3. /\ fs'[c].tree = [fs[c].tree EXCEPT ![v] = fs[c].old[v]]
          /\ fs'[c].old = [fs[c].old EXCEPT ![v] = "absent"]
          /\ fs[c].tree[v] = "absent"
          /\ \A d \in Components \ {c} : fs'[d] = fs[d]
      BY <1>4, UndoOldView
    <2>4. /\ \A d \in Components \ {c} : fs'[d].tree = fs[d].tree
          /\ \A d \in Components \ {c} : fs'[d].old = fs[d].old
      BY <2>3
    <2>5. CASE fs[c].old[v] = "whole"
      <3>1. v \in PutAside[c]
        BY <2>1, <2>5 DEF PutAside
      <3>2. \A w \in Versions : fs'[c].tree[w] = "whole" <=> fs[c].tree[w] = "whole" \/ w = v
        BY <1>t, <2>1, <2>3, <2>5 DEF DirType
      <3>3. \A w \in Versions : fs'[c].old[w] = "whole" <=> fs[c].old[w] = "whole" /\ w # v
        BY <1>t, <2>1, <2>3 DEF DirType
      <3>4. Installed' = [Installed EXCEPT ![c] = @ \cup {v}]
        BY <2>1, <2>4, <3>2, AddTree
      <3>5. PutAside' = [PutAside EXCEPT ![c] = @ \ {v}]
        BY <2>1, <2>4, <3>3, RemoveOld
      <3>. QED
        BY <2>1, <2>2, <3>1, <3>4, <3>5 DEF Store!PutBack, Store!Next
    <2>6. CASE fs[c].old[v] # "whole"
      <3>1. fs[c].old[v] = "absent"
        BY <1>t, <2>1, <2>6 DEF DirType
      <3>2. fs'[c].tree = fs[c].tree /\ fs'[c].old = fs[c].old
        BY <1>t, <2>1, <2>3, <3>1 DEF DirType
      <3>3. Installed' = Installed /\ PutAside' = PutAside
        BY <2>4, <3>2, SameTree, SameOld
      <3>. QED
        BY <2>2, <3>3 DEF Store!store
    <2>. QED
      BY <2>5, <2>6
  <1>5. ASSUME NEW p \in Procs, DropPrev(p) \/ KeepPrev(p) \/ Switch(p) PROVE Store!Next
    <2> DEFINE c == Key(p)
    <2>1. c \in Components /\ UNCHANGED <<Installed, PutAside>>
      BY <1>5, LinkView, SameTree, SameOld
    <2>2. CASE DropPrev(p)
      <3>1. Active' = Active /\ Fallback' = [Fallback EXCEPT ![c] = None]
        BY <2>2, LinkView DEF Active, Fallback
      <3>. QED
        BY <2>1, <3>1 DEF Store!DropFallback, Store!Next
    <2>3. CASE KeepPrev(p)
      <3>1. Fallback[c] = None /\ Active[c] # None
        BY <2>3, LinkView DEF Active, Fallback
      <3>2. Active' = Active /\ Fallback' = [Fallback EXCEPT ![c] = Active[c]]
        BY <2>3, LinkView DEF Active, Fallback
      <3>. QED
        BY <2>1, <3>1, <3>2 DEF Store!KeepFallback, Store!Next
    <2>4. CASE Switch(p)
      <3>1. Target(p) \in Versions /\ Target(p) \in Installed[c]
        BY <2>4, LinkView DEF Installed
      <3>2. Active' = [Active EXCEPT ![c] = Target(p)] /\ Fallback' = Fallback
        BY <2>4, LinkView DEF Active, Fallback
      <3>. QED
        BY <2>1, <3>1, <3>2 DEF Store!Activate, Store!Next
    <2>. QED
      BY <1>5, <2>2, <2>3, <2>4
  <1>. QED
    BY <1>1, <1>2, <1>3, <1>4, <1>5, Steps

\* `k3os upgrade` implements the abstract store, with any number of processes that
\* are killed, fail and start again: the invariants of VersionStore hold of it.
THEOREM Refinement == Spec => StoreSpec
  BY StoreInit, StoreStep, UpgradeInvariant, PTL DEF Spec, StoreSpec, Store!Spec
====
