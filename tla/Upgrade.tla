---- MODULE Upgrade ----
(***************************************************************************)
(* `k3os upgrade`: pkg/cli/upgrade/upgrade.go and pkg/system/component.go. *)
(*                                                                         *)
(* A run copies components (k3os, k3s, kernel) from the image it was       *)
(* started in to /k3os/system of the node, one system call after another,  *)
(* under a file lock.  Any call may fail, the process may be killed and    *)
(* the node may go down between any two calls; what is on the disk stays.  *)
(* One component directory holds                                           *)
(*                                                                         *)
(*    <version>/         a copy of that version                            *)
(*    <version>.old/     a copy that made room for a newer copy of itself  *)
(*    <version><random>/ the temporary directory of the copy in progress   *)
(*    current, previous  symbolic links to versions                        *)
(*    current.tmp        the link that will be renamed to `current`        *)
(*                                                                         *)
(* A name of a version stands for its content: two images that hold the    *)
(* same version of a component hold the same files.                        *)
(***************************************************************************)
EXTENDS Naturals, FiniteSets

CONSTANTS
    Procs,      \* the processes in which `k3os upgrade` may run
    Versions,   \* the names of the versions
    None,       \* no version: a link that does not exist
    NoProc,     \* the lock is free
    Releases,   \* the images: the version of each component, or None
    Requests,   \* the command lines
    Factory,    \* what the node was installed with; None: no such directory
    MaxKills,   \* bound on the runs cut short
    MaxFaults   \* bound on the system calls that fail

Components == {"k3os", "k3s", "kernel"}
Flags == {"k3os", "k3s", "kernel", "rootfs", "remount", "sync", "reboot"}
Content == {"absent", "partial", "whole"}

ASSUME UpgradeAssumption ==
    /\ None \notin Versions
    /\ NoProc \notin Procs
    /\ Releases \subseteq [Components -> Versions \cup {None}]
    /\ Requests \subseteq SUBSET Flags
    /\ Factory \in [Components -> Versions \cup {None}]
    /\ MaxKills \in Nat /\ MaxFaults \in Nat

VARIABLES
    fs,         \* fs[c]: the directory of component c on the node
    pc,         \* pc[p]: the next system call of process p
    run,        \* run[p]: the arguments and local variables of process p
    lock,       \* the process that holds upgrade.lock
    shutdown,   \* a reboot has been asked for and has not happened yet
    kills,      \* the runs cut short so far
    faults      \* the system calls failed so far

vars == <<fs, pc, run, lock, shutdown, kills, faults>>

----------------------------------------------------------------------------
\* The file system.

Absent == [v \in Versions |-> "absent"]
Alias == Versions \cup {None}

\* The directory of a component that was installed in version v.
FreshDir(v) ==
    [ tree     |-> [w \in Versions |-> IF w = v THEN "whole" ELSE "absent"],
      old      |-> Absent,
      current  |-> v,
      previous |-> None,
      tmp      |-> None,        \* where current.tmp points
      temp     |-> "absent",    \* the last temporary directory made here
      litter   |-> FALSE ]      \* whether older ones were left behind

\* An installation that shares its kernel with another distribution (the
\* overlay installation) has no kernel directory at all.
HasDir(c) == Factory[c] # None

\* A rename of <version> to <version>.old and back, and of the temporary
\* directory to <version>.
MovedAside(d, v) == [d EXCEPT !.old[v] = d.tree[v], !.tree[v] = "absent"]
MovedBack(d, v) == [d EXCEPT !.tree[v] = d.old[v], !.old[v] = "absent"]
Published(d, v) == [d EXCEPT !.tree[v] = d.temp, !.temp = "absent"]

SetDir(c, d) == fs' = [fs EXCEPT ![c] = d]

----------------------------------------------------------------------------
\* A run.

\* --rootfs stands for --k3os and --k3s; a run that wants nothing, or whose
\* source is its destination, exits before it looks at anything.
Wanted(req) ==
    (req \cap Components) \cup (IF "rootfs" \in req THEN {"k3os", "k3s"} ELSE {})

\* Run asks for k3os, then k3s, then kernel.
First(todo) ==
    IF "k3os" \in todo THEN "k3os" ELSE IF "k3s" \in todo THEN "k3s" ELSE "kernel"

\* The variables of a run that starts, its destination writable or not.
FreshRun(req, image, writable) ==
    [ req |-> req, image |-> image, todo |-> Wanted(req), key |-> "k3os",
      remount |-> "remount" \in req, copied |-> FALSE, rw |-> writable,
      moved |-> FALSE ]
IdleRun == FreshRun({}, [c \in Components |-> None], FALSE)

\* The component being copied, and its version in the image.
Key(p) == run[p].key
Target(p) == run[p].image[Key(p)]
Dir(p) == fs[Key(p)]

NeverUpToDate(c, v) == FALSE
UpToDateIfThere(c, v) == fs[c].tree[v] # "absent"

\* `current` resolves, and to the version the image holds.
UpToDate(c, v) == fs[c].current = v /\ fs[c].tree[v] # "absent"

\* Where an error of the call at hand leads: to the deferred calls that are
\* registered by then, last in first out, or just to a line in the log.
ErrorPath ==
    [ remount |-> "next", link |-> "next", mktemp |-> "undoLink",
      copy |-> "undoTemp", aside |-> "undoTemp", publish |-> "undoOld",
      dropPrev |-> "keepPrev", keepPrev |-> "switch", switch |-> "undoOld",
      undoOld |-> "undoTemp", undoTemp |-> "undoLink", undoLink |-> "next",
      reboot |-> "exit" ]

\* The calls that the state of the directory makes fail: no such directory, a
\* read-only mount, and the calls that do not replace what they would create.
Blocked(p) ==
    LET d == Dir(p) IN
    \/ pc[p] = "link" /\ (~HasDir(Key(p)) \/ ~run[p].rw \/ d.tmp # None)
    \/ pc[p] = "aside" /\ d.tree[Target(p)] # "absent" /\ d.old[Target(p)] # "absent"
    \/ pc[p] = "keepPrev" /\ (d.current = None \/ d.previous # None)
    \/ pc[p] = "undoOld" /\ run[p].moved /\ d.tree[Target(p)] # "absent"

Goto(p, l) == pc' = [pc EXCEPT ![p] = l]

\* The call `from` of p returns, without an error, and `to` comes next.
Call(p, from, to) ==
    /\ pc[p] = from /\ ~Blocked(p)
    /\ Goto(p, to)
    /\ UNCHANGED <<lock, shutdown, kills, faults>>

----------------------------------------------------------------------------
\* Run: upgrade.go.

Init ==
    /\ fs = [c \in Components |-> FreshDir(Factory[c])]
    /\ pc = [p \in Procs |-> "idle"]
    /\ run = [p \in Procs |-> IdleRun]
    /\ lock = NoProc
    /\ shutdown = FALSE
    /\ kills = 0 /\ faults = 0

LockIgnored == TRUE
LockFree == lock = NoProc

\* A run starts and gets the lock (LOCK_EX | LOCK_NB).  One that finds it taken
\* exits without touching anything, which is no step here.  Its destination may
\* be mounted read-only: /k3os/system is, on a node that booted from disk.
Begin(p, req, image) ==
    /\ pc[p] = "idle" /\ LockFree
    /\ Wanted(req) # {}
    /\ lock' = p
    /\ Goto(p, "next")
    /\ \E writable \in BOOLEAN :
           run' = [run EXCEPT ![p] = FreshRun(req, image, writable)]
    /\ UNCHANGED <<fs, shutdown, kills, faults>>

\* The variables of a run after its turn has come to component c.
ConsideredCounted(r, c) ==
    [r EXCEPT !.todo = @ \ {c}, !.key = c, !.moved = FALSE, !.copied = TRUE]
ConsideredUnmounted(r, c) ==
    [r EXCEPT !.todo = @ \ {c}, !.key = c, !.moved = FALSE, !.remount = FALSE]
Considered(r, c) == [r EXCEPT !.todo = @ \ {c}, !.key = c, !.moved = FALSE]

Turn(p, c) ==
    /\ pc[p] = "next" /\ run[p].todo # {}
    /\ c = First(run[p].todo)
    /\ run' = [run EXCEPT ![p] = Considered(run[p], c)]
    /\ UNCHANGED <<fs, lock, shutdown, kills, faults>>

\* The component is skipped when the image does not hold it or `current` is that
\* version already.
HasNews(p, c) == run[p].image[c] # None /\ ~UpToDate(c, run[p].image[c])

Skip(p) == \E c \in Components : Turn(p, c) /\ ~HasNews(p, c) /\ Goto(p, "next")

Take(p) == \E c \in Components :
    /\ Turn(p, c) /\ HasNews(p, c)
    /\ Goto(p, IF run[p].remount THEN "remount" ELSE "link")

\* All components considered.  unix.Sync changes nothing a running system sees.
Finish(p) ==
    /\ pc[p] = "next" /\ run[p].todo = {}
    /\ Goto(p, IF run[p].copied /\ "reboot" \in run[p].req THEN "reboot" ELSE "exit")
    /\ UNCHANGED <<fs, run, lock, shutdown, kills, faults>>

\* The node is told to reboot; it goes down some time later.
Reboot(p) ==
    /\ pc[p] = "reboot"
    /\ shutdown' = TRUE
    /\ Goto(p, "exit")
    /\ UNCHANGED <<fs, run, lock, kills, faults>>

\* The process ends and with it its hold on the lock.
Exit(p) ==
    /\ pc[p] = "exit"
    /\ lock' = NoProc
    /\ Goto(p, "idle")
    /\ run' = [run EXCEPT ![p] = IdleRun]
    /\ UNCHANGED <<fs, shutdown, kills, faults>>

----------------------------------------------------------------------------
\* CopyComponent: component.go, one action per system call.

Remount(p) ==
    /\ Call(p, "remount", "link")
    /\ run' = [run EXCEPT ![p].rw = TRUE]
    /\ UNCHANGED fs

Link(p) ==
    /\ Call(p, "link", "mktemp")
    /\ SetDir(Key(p), [Dir(p) EXCEPT !.tmp = Target(p)])
    /\ UNCHANGED run

MkTemp(p) ==
    /\ Call(p, "mktemp", "copy")
    /\ SetDir(Key(p), [Dir(p) EXCEPT !.temp = "partial",
                                     !.litter = @ \/ Dir(p).temp # "absent"])
    /\ UNCHANGED run

Copy(p) ==
    /\ Call(p, "copy", "aside")
    /\ SetDir(Key(p), [Dir(p) EXCEPT !.temp = "whole"])
    /\ UNCHANGED run

\* A copy of the version that is in the way is renamed to <version>.old.
AsideByRemoving(p) ==
    /\ Call(p, "aside", "publish")
    /\ SetDir(Key(p), [Dir(p) EXCEPT !.tree[Target(p)] = "absent"])
    /\ UNCHANGED run
Aside(p) ==
    /\ Call(p, "aside", "publish")
    /\ IF Dir(p).tree[Target(p)] = "absent"
       THEN UNCHANGED <<fs, run>>
       ELSE /\ SetDir(Key(p), MovedAside(Dir(p), Target(p)))
            /\ run' = [run EXCEPT ![p].moved = TRUE]

Publish(p) ==
    /\ Call(p, "publish", "dropPrev")
    /\ SetDir(Key(p), Published(Dir(p), Target(p)))
    /\ UNCHANGED run

DropPrevForgotten(p) ==
    /\ Call(p, "dropPrev", "keepPrev")
    /\ UNCHANGED <<fs, run>>
DropPrev(p) ==
    /\ Call(p, "dropPrev", "keepPrev")
    /\ SetDir(Key(p), [Dir(p) EXCEPT !.previous = None])
    /\ UNCHANGED run

\* copy.Copy of a symbolic link makes a link to the same name.
KeepPrev(p) ==
    /\ Call(p, "keepPrev", "switch")
    /\ SetDir(Key(p), [Dir(p) EXCEPT !.previous = Dir(p).current])
    /\ UNCHANGED run

\* The deferred calls run after a success too.
Switch(p) ==
    /\ Call(p, "switch", "undoOld")
    /\ SetDir(Key(p), [Dir(p) EXCEPT !.current = Dir(p).tmp, !.tmp = None])
    /\ run' = [run EXCEPT ![p] = [run[p] EXCEPT !.copied = TRUE, !.remount = FALSE]]

\* defer os.Rename(dstExist, dstPath): registered once something was moved.
UndoOldForgotten(p) ==
    /\ Call(p, "undoOld", "undoTemp")
    /\ UNCHANGED <<fs, run>>
UndoOld(p) ==
    /\ Call(p, "undoOld", "undoTemp")
    /\ IF run[p].moved
       THEN SetDir(Key(p), MovedBack(Dir(p), Target(p)))
       ELSE UNCHANGED fs
    /\ UNCHANGED run

UndoTemp(p) ==
    /\ Call(p, "undoTemp", "undoLink")
    /\ SetDir(Key(p), [Dir(p) EXCEPT !.temp = "absent"])
    /\ UNCHANGED run

UndoLinkForgotten(p) ==
    /\ Call(p, "undoLink", "next")
    /\ UNCHANGED <<fs, run>>
UndoLink(p) ==
    /\ Call(p, "undoLink", "next")
    /\ SetDir(Key(p), [Dir(p) EXCEPT !.tmp = None])
    /\ UNCHANGED run

----------------------------------------------------------------------------
\* What goes wrong.

\* A call returns an error, because it must or because the node is ill (no
\* space, an I/O error).
Error(p) ==
    /\ pc[p] \in DOMAIN ErrorPath
    /\ IF Blocked(p) THEN faults' = faults
                     ELSE faults < MaxFaults /\ faults' = faults + 1
    /\ Goto(p, ErrorPath[pc[p]])
    /\ UNCHANGED <<fs, run, lock, shutdown, kills>>

\* The process is killed: no deferred call runs, the kernel drops the lock.
Kill(p) ==
    /\ pc[p] # "idle" /\ kills < MaxKills
    /\ kills' = kills + 1
    /\ lock' = NoProc
    /\ Goto(p, "idle")
    /\ run' = [run EXCEPT ![p] = IdleRun]
    /\ UNCHANGED <<fs, shutdown, faults>>

\* The node goes down and comes up again, because it was told to or (a run being
\* cut short then counts as killed) because it lost power after the last sync.
Restart ==
    /\ shutdown \/ lock # NoProc
    /\ IF lock = NoProc THEN kills' = kills
                        ELSE kills < MaxKills /\ kills' = kills + 1
    /\ lock' = NoProc
    /\ shutdown' = FALSE
    /\ pc' = [p \in Procs |-> "idle"]
    /\ run' = [p \in Procs |-> IdleRun]
    /\ UNCHANGED <<fs, faults>>

----------------------------------------------------------------------------
Progress(p) ==
    \/ Skip(p) \/ Take(p) \/ Finish(p) \/ Reboot(p) \/ Exit(p)
    \/ Remount(p) \/ Link(p) \/ MkTemp(p) \/ Copy(p) \/ Aside(p) \/ Publish(p)
    \/ DropPrev(p) \/ KeepPrev(p) \/ Switch(p)
    \/ UndoOld(p) \/ UndoTemp(p) \/ UndoLink(p) \/ Error(p)

Next ==
    \/ \E p \in Procs :
           \/ \E req \in Requests, image \in Releases : Begin(p, req, image)
           \/ Progress(p)
           \/ Kill(p)
    \/ Restart

Spec == Init /\ [][Next]_vars

\* A process that runs is scheduled, and its system calls return.
FairSpec == Spec /\ \A p \in Procs : WF_vars(Progress(p))

----------------------------------------------------------------------------
\* Properties.

\* The calls before `current` moves, those made while current.tmp is in use, and
\* the deferred ones.
Preparing == {"remount", "link", "mktemp", "copy", "aside", "publish"}
Linked == {"mktemp", "copy", "aside", "publish", "dropPrev", "keepPrev", "switch"}
Undoing == {"undoOld", "undoTemp", "undoLink"}
Labels == {"idle", "next", "reboot", "exit"} \cup Preparing \cup Linked \cup Undoing

DirType ==
    [ tree : [Versions -> {"absent", "whole"}], old : [Versions -> {"absent", "whole"}],
      current : Alias, previous : Alias, tmp : Alias, temp : Content, litter : BOOLEAN ]

RunType ==
    [ req : SUBSET Flags, image : [Components -> Alias], todo : SUBSET Components,
      key : Components, remount : BOOLEAN, copied : BOOLEAN, rw : BOOLEAN,
      moved : BOOLEAN ]

\* The types.  They say that only a temporary directory is ever half a copy:
\* what has a version's name, or had it and is <version>.old, is complete,
\* although component.go copies file by file and may be cut short anywhere.
TypeOK ==
    /\ fs \in [Components -> DirType]
    /\ pc \in [Procs -> Labels]
    /\ run \in [Procs -> RunType]
    /\ lock \in Procs \cup {NoProc}
    /\ shutdown \in BOOLEAN
    /\ kills \in 0 .. MaxKills /\ faults \in 0 .. MaxFaults

\* At every instant, so whenever the node goes down, `current` of every
\* installed component leads to a complete version: the kernel and the initrd
\* that grub loads (install.sh, "k3OS Current") are there.
CurrentBoots ==
    \A c \in Components : HasDir(c) =>
        fs[c].current # None /\ fs[c].tree[fs[c].current] = "whole"

\* Whatever happened, the version `previous` names is still on the disk, if
\* only as <version>.old: component.go:89-95 may take it away from its name.
FallbackKept ==
    \A c \in Components : LET u == fs[c].previous IN
        u # None => "whole" \in {fs[c].tree[u], fs[c].old[u]}

\* When no run is at work, none was cut short and no more than one call failed,
\* "k3OS Previous" boots: a failed component.go:102 is undone by the deferred
\* rename of component.go:95.
FallbackBoots ==
    lock = NoProc /\ kills = 0 /\ faults <= 1 =>
        \A c \in Components : LET u == fs[c].previous IN
            u # None => fs[c].tree[u] = "whole"

\* A run that was not cut short and whose calls did not fail leaves neither
\* current.tmp nor a temporary directory (the deferred calls of component.go:74
\* and :81); what a skipped or refused component leaves is what it found.
NoLeftovers ==
    kills = 0 /\ faults = 0 => \A c \in Components :
        \/ fs[c].tmp = None /\ fs[c].temp = "absent" /\ ~fs[c].litter
        \/ \E p \in Procs : lock = p /\ Key(p) = c /\ ~fs[c].litter

AtEnd(p) == pc[p] \in {"reboot", "exit"}

\* What a run was asked to deliver and can: the destination has the component and
\* is writable, or the run was told to make it so.
Asked(p) ==
    {c \in Wanted(run[p].req) :
        /\ run[p].image[c] # None /\ HasDir(c)
        /\ run[p].rw \/ "remount" \in run[p].req}

\* upgrade.go logs the error of a component and goes on, and exits with 0.  When
\* a run ends that did not move `current` to the version of its image, then a
\* call failed, or a link of a run cut short or an older copy was in the way.
DeliveredOrObstructed ==
    \A p \in Procs : AtEnd(p) /\ faults = 0 => \A c \in Asked(p) :
        LET v == run[p].image[c] IN
        fs[c].current = v \/ fs[c].tmp # None \/ fs[c].old[v] # "absent"

\* component.go:46: CopyComponent moves `current` to the version from `src`;
\* README.md, "Automatic Upgrades": the job upgrades what is under /k3os/system
\* and the node comes back running that.  A run that ends has done so.
RunDelivers ==
    \A p \in Procs : AtEnd(p) =>
        \A c \in Asked(p) : fs[c].current = run[p].image[c]

\* What holds between two calls of a run.  With the types, CurrentBoots and
\* FallbackKept this is inductive: each line is what a later call relies on.
RunInv(p) == LET c == Key(p)  v == Target(p)  d == Dir(p) IN
    /\ pc[p] # "idle" <=> lock = p
    /\ pc[p] \in Preparing /\ HasDir(c) => v # d.current
    /\ pc[p] \in Preparing \cup Linked \cup Undoing => v # None
    /\ pc[p] \in Linked \cup Undoing => HasDir(c)
    /\ pc[p] \in Linked => d.tmp = v
    /\ pc[p] \in {"aside", "publish"} => d.temp = "whole"
    /\ pc[p] = "publish" => d.tree[v] = "absent"
    /\ pc[p] \in {"dropPrev", "keepPrev", "switch"} => d.tree[v] = "whole"
    /\ pc[p] = "keepPrev" /\ faults = 0 => d.previous = None
    /\ pc[p] = "switch" /\ faults = 0 => d.previous = d.current

UpgradeInv ==
    /\ TypeOK
    /\ CurrentBoots
    /\ FallbackKept
    /\ \A p \in Procs : RunInv(p)

\* A complete version is never destroyed, by no step of any run, kill or crash:
\* it keeps its name or is <version>.old.
Stored(c, v) == "whole" \in {fs[c].tree[v], fs[c].old[v]}
NothingDestroyed ==
    [][\A c \in Components, v \in Versions : Stored(c, v) => Stored(c, v)']_vars

\* Unless a call failed, `current` moves only when `previous` names what it is
\* moved away from: the operator can always go back one step.
SwitchKeepsFallback ==
    [][\A c \in Components :
        fs'[c].current # fs[c].current /\ faults = 0 =>
            fs'[c].previous = fs[c].current]_vars

\* The update of the node refines the promise of VersionStore: step by step,
\* with runs, kills and crashes interleaved, the directory a reader sees goes
\* through the states of the abstract store only.
Installed == [c \in Components |-> {v \in Versions : fs[c].tree[v] = "whole"}]
PutAside == [c \in Components |-> {v \in Versions : fs[c].old[v] = "whole"}]
Active == [c \in Components |-> fs[c].current]
Fallback == [c \in Components |-> fs[c].previous]

Store == INSTANCE VersionStore WITH
    installed <- Installed, aside <- PutAside, active <- Active, fallback <- Fallback
StoreSpec == Store!Spec

\* The job of an image that reboots the node runs again when the node is up: it
\* must find nothing to do.  With one image the reboots come to an end.
RebootsEnd == <>[][shutdown' => shutdown]_vars
====
