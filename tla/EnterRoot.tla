---- MODULE EnterRoot ----
(***************************************************************************)
(* Entering the root: pkg/enterchroot, called by initrd (main.go).  Mount  *)
(* attaches an image to a loop device and runs enter-root, in its place if *)
(* it is process 1, else in a child with its own mounts; a goroutine has   *)
(* the device released with its last user, three seconds later.  Loop      *)
(* devices are as the vendored go-losetup sets them up and the kernel has  *)
(* them; no other process makes any this early.                            *)
(***************************************************************************)
EXTENDS Naturals, FiniteSets

CONSTANTS MaxCuts,  \* bounds on the losses of power
          MaxFails  \* and on the steps that fail

ASSUME EnterRootAssumption == MaxCuts \in Nat /\ MaxFails \in Nat

VARIABLES
    first,    \* whether Mount runs in process 1
    image,    \* whether the root is an image, else it is a directory
    parent,   \* the next step of Mount, or its end
    timer,    \* the goroutine: "off", "asleep", "open" or "over"
    child,    \* the next step of run, or its end
    attached, \* the loop device has the image
    auto,     \* and loses it when it is closed for the last time
    usr,      \* what is mounted on usr of the data directory
    links,    \* the symbolic links in the data directory, which the disk keeps
    root,     \* the root directory of enter-root
    dropped,  \* failing calls whose errors Mount does not see: "attach", "detach" (seen by
              \* the properties only)
    fails, cuts

loop == <<attached, auto>>
mounts == <<usr, root>>
vars == <<first, image, parent, timer, child, loop, mounts, links, dropped, fails, cuts>>

Symlinks == {"lib", "bin", "sbin"}
Running == {"bind", "mount", "symlinks", "pivot", "exec", "system"}
Ended == {"failed", "left", "killed"}

Boots ==
    /\ first' \in BOOLEAN /\ image' \in BOOLEAN
    /\ parent' = "attach" /\ timer' = "off" /\ child' = "none"
    /\ attached' = FALSE /\ auto' = FALSE /\ usr' = "none" /\ root' = "old"
    /\ dropped' = {}
Init ==
    /\ first \in BOOLEAN /\ image \in BOOLEAN
    /\ parent = "attach" /\ timer = "off" /\ child = "none"
    /\ attached = FALSE /\ auto = FALSE /\ usr = "none" /\ root = "old"
    /\ links = {} /\ dropped = {} /\ fails = 0 /\ cuts = 0

\* What is left of the image when a user of the device goes.
Left(users) == attached /\ (auto => users # {})
Mounted == IF usr = "image" THEN {"mount"} ELSE {}
Opened == IF timer = "open" THEN {"timer"} ELSE {}

(***************************************************************************)
(* Mount.                                                                  *)
(***************************************************************************)

Fault == fails < MaxFails /\ fails' = fails + 1
Drops(call) == Fault /\ dropped' = dropped \cup {call}

\* losetup.Attach returns no error when LOOP_SET_FD fails.
SetFd ==
    \/ attached' = image /\ UNCHANGED <<dropped, fails>>
    \/ image /\ UNCHANGED attached /\ Drops("attach")

\* A process that is replaced takes no goroutine along, and no deferred call.
Attach ==
    /\ parent = "attach"
    /\ SetFd
    /\ parent' = IF first THEN "replaced" ELSE "wait"
    /\ timer' = IF first \/ ~image THEN "off" ELSE "asleep"
    /\ child' = "bind"
    /\ UNCHANGED <<first, image, auto, mounts, links, cuts>>

\* ensureloop, findRoot, the file or the device, the exec.  After a setInfo or an exec that
\* fails the device is to be cleared, and nobody sees when that fails too.
MountFails ==
    /\ parent = "attach" /\ parent' = "fatal"
    /\ \/ Fault /\ UNCHANGED <<attached, dropped>>
       \/ image /\ attached' = TRUE /\ Drops("detach")
    /\ UNCHANGED <<first, image, timer, child, auto, mounts, links, cuts>>

\* After three seconds GetInfo and SetInfo open the device and close it, if they can.
TimerOpens ==
    /\ timer = "asleep" /\ parent = "wait"
    /\ \/ timer' = "open" /\ auto' = attached /\ UNCHANGED fails
       \/ timer' = "over" /\ UNCHANGED auto /\ Fault
    /\ UNCHANGED <<first, image, parent, child, attached, mounts, links, dropped, cuts>>
TimerCloses ==
    /\ timer = "open"
    /\ timer' = "over" /\ attached' = Left(Mounted)
    /\ UNCHANGED <<first, image, parent, child, auto, mounts, links, dropped, fails, cuts>>

\* cmd.Run returned; Detach clears the device, or has it cleared if it is in use.  It may
\* fail to, which the defer drops.
ChildStarted == child # "none"
ChildEnded == child \in Ended
DetachForgotten(users) == UNCHANGED loop
Detached(users) == attached' = (attached /\ users # {}) /\ auto' = TRUE
Detach ==
    /\ parent = "wait" /\ ChildEnded
    /\ parent' = IF child = "left" THEN "returned" ELSE "fatal"
    /\ \/ Detached(Mounted \cup Opened) /\ UNCHANGED <<dropped, fails>>
       \/ image /\ UNCHANGED loop /\ Drops("detach")
    /\ UNCHANGED <<first, image, timer, child, mounts, links, cuts>>

\* Main returns; nothing waits for the goroutine.
Exit ==
    /\ parent \in {"returned", "fatal"} /\ timer \in {"asleep", "open"}
    /\ timer' = "over"
    /\ attached' = Left(Mounted)
    /\ UNCHANGED <<first, image, parent, child, auto, mounts, links, dropped, fails, cuts>>

(***************************************************************************)
(* run.                                                                    *)
(***************************************************************************)

Goes(from, to) == child = from /\ child' = to
Rest == <<first, image, parent, timer, dropped, fails, cuts>>

\* The data directory is mounted on itself, with the directories usr and .base in it.
Bind == Goes("bind", "mount") /\ UNCHANGED <<loop, mounts, links, Rest>>

\* A directory is bind mounted, an image from its device.
MountUsr ==
    /\ Goes("mount", "symlinks") /\ (image => attached)
    /\ usr' = IF image THEN "image" ELSE "directory"
    /\ UNCHANGED <<root, loop, links, Rest>>
DeviceLost ==
    /\ Goes("mount", "failed") /\ image /\ ~attached
    /\ UNCHANGED <<loop, mounts, links, Rest>>

\* Links that exist are left alone, one after the other.
AnyIsEnough == IF links = {} THEN Symlinks ELSE {}
Missing == Symlinks \ links
Symlink ==
    /\ child = "symlinks"
    /\ \E p \in Missing : links' = links \cup {p}
    /\ UNCHANGED <<child, loop, mounts, Rest>>
Pivot ==
    /\ child = "symlinks" /\ Missing \subseteq links
    /\ child' = "pivot" /\ root' = "data"
    /\ UNCHANGED <<usr, loop, links, Rest>>

\* Private mounts, chroot, and /usr/init of the image.
Chrooted == "exec"
Chroot ==
    /\ Goes("pivot", Chrooted) /\ root' = "/"
    /\ UNCHANGED <<usr, loop, links, Rest>>
Exec == Goes("exec", "system") /\ UNCHANGED <<loop, mounts, links, Rest>>

\* The mounts of a child end with it, and so does their use of the device.
Ends(how) ==
    /\ child' = how
    /\ usr' = IF first THEN usr ELSE "none"
    /\ attached' = IF first THEN attached ELSE Left(Opened)
    /\ UNCHANGED <<root, auto, links, first, image, timer, dropped>>
RunFails ==
    /\ child \in Running \ {"system"} /\ Fault
    /\ Ends("failed")
    /\ UNCHANGED <<parent, cuts>>
Leave == child = "system" /\ ~first /\ Ends("left") /\ UNCHANGED <<parent, fails, cuts>>

\* Pdeathsig: the child does not outlive Mount.
Kill ==
    /\ parent = "wait" /\ child \in Running /\ Fault
    /\ parent' = "dead" /\ Ends("killed")
    /\ UNCHANGED cuts

\* The disk keeps the data directory, the memory of a live system does not.
PowerCut ==
    /\ cuts < MaxCuts /\ cuts' = cuts + 1
    /\ Boots /\ links' \in {links, {}}
    /\ UNCHANGED fails

RunStep == Bind \/ MountUsr \/ DeviceLost \/ Symlink \/ Pivot \/ Chroot \/ Exec
Step == Attach \/ TimerOpens \/ TimerCloses \/ Detach \/ Exit \/ RunStep
Next == Step \/ MountFails \/ RunFails \/ Leave \/ Kill \/ PowerCut
Spec == Init /\ [][Next]_vars /\ WF_vars(Attach) /\ WF_vars(RunStep) /\ WF_vars(Detach)

----------------------------------------------------------------------------
\* Properties.

TypeOK ==
    /\ parent \in {"attach", "replaced", "wait", "returned", "fatal", "dead"}
    /\ timer \in {"off", "asleep", "open", "over"}
    /\ child \in {"none"} \cup Running \cup Ended
    /\ usr \in {"none", "image", "directory"} /\ root \in {"old", "data", "/"}
    /\ links \subseteq Symlinks
    /\ first \in BOOLEAN /\ image \in BOOLEAN /\ attached \in BOOLEAN /\ auto \in BOOLEAN
    /\ dropped \subseteq {"attach", "detach"}

\* The root is entered only when it is complete, whatever an earlier boot that lost its
\* power left in the data directory.
EntersComplete ==
    root # "old" /\ child \in Running =>
        usr # "none" /\ links = Symlinks /\ (image => attached)

\* The image is missing when enter-root wants it only if the three seconds were too short,
\* or it was never attached and losetup.Attach did not say so.
LostOnlyIfLate ==
    child = "mount" /\ image /\ ~attached => timer = "over" \/ "attach" \in dropped

\* The device is free again when everything ended, unless Mount was killed or the call that
\* frees it failed before the goroutine had the kernel see to it.
NoLeak ==
    parent \in {"returned", "fatal"} /\ timer \notin {"asleep", "open"} =>
        ~attached \/ ("detach" \in dropped /\ ~auto)

\* The system starts or Mount says that it does not.
Starts ==
    parent = "attach" ~> (child = "system" \/ child \in Ended \/ parent = "fatal")

\* enter.go: "Assume that after 3 seconds loop back device has been mounted".
MountedInTime == timer = "open" /\ child \in Running => usr # "none"
====
