---- MODULE StartProofs ----
(***************************************************************************)
(* What TLAPS proves of the first process of a boot.  Of entering the      *)
(* root, for any number of failures and losses of power: a root that is    *)
(* entered is complete, and the loop device is not lost too early nor kept *)
(* too long.  Of the search for the image, for any mark, any binary and    *)
(* any division into reads: what is found and what is overlooked.  Of      *)
(* moving the root, for any tree: no file is lost on the way.              *)
(***************************************************************************)
EXTENDS Start, FiniteSetTheorems, TLAPS

(***************************************************************************)
(* Entering the root.                                                      *)
(***************************************************************************)
\* The image is in use from its mount on, as long as the device keeps it.
HasUsr == usr = IF image THEN "image" ELSE "directory"
Usable == HasUsr /\ (image => attached)

\* What is mounted goes with where the child is; a child leaves no mounts.
MountsInv ==
    /\ child \in {"none", "bind", "mount"} => usr = "none" /\ root = "old"
    /\ child = "symlinks" => Usable /\ root = "old"
    /\ child \in {"pivot", "exec", "system"} => Usable /\ links = Symlinks
    /\ child \in Ended /\ ~first => usr = "none"

\* The parent waits for the child, or is replaced by it.
ParentInv ==
    /\ parent = "attach" => child = "none" /\ ~attached /\ timer = "off"
    /\ parent = "replaced" => first
    /\ parent \in {"wait", "dead"} => ~first
    /\ parent \in {"returned", "fatal"} => child \in Ended \cup {"none"}

\* Before its mount the image is lost only to the goroutine, or was never attached; a device
\* that is to be cleared has a user; and when Mount has ended it is only the goroutine that
\* still holds the device, unless the call that frees it failed.
DeviceInv ==
    /\ child \in {"bind", "mount"} /\ image /\ ~attached =>
           timer = "over" \/ "attach" \in dropped
    /\ parent = "attach" => ~auto
    /\ attached /\ auto => usr = "image" \/ timer = "open"
    /\ parent \in {"returned", "fatal"} /\ attached =>
           usr = "none" /\ (auto \/ "detach" \in dropped)

EnterInv == TypeOK /\ MountsInv /\ ParentInv /\ DeviceInv

LEMMA InitInv == Init => EnterInv
  BY DEF Init, EnterInv, TypeOK, MountsInv, ParentInv, DeviceInv, Running, Ended

\* What the steps of run have in common: the parent lives and does not take part.
LEMMA RunStepInv == ASSUME EnterInv, RunStep PROVE EnterInv'
  <1> USE DEF EnterInv, TypeOK, MountsInv, ParentInv, DeviceInv, Running, Ended, Goes, Rest,
              loop, mounts, Usable, HasUsr
  <1>1. CASE Bind
    BY <1>1 DEF Bind
  <1>2. CASE MountUsr
    BY <1>2 DEF MountUsr
  <1>3. CASE DeviceLost
    BY <1>3 DEF DeviceLost
  <1>4. CASE Symlink
    BY <1>4 DEF Symlink, Missing
  <1>5. CASE Pivot
    BY <1>5 DEF Pivot, Missing
  <1>6. CASE Chroot
    BY <1>6 DEF Chroot, Chrooted
  <1>7. CASE Exec
    BY <1>7 DEF Exec
  <1>. QED
    BY <1>1, <1>2, <1>3, <1>4, <1>5, <1>6, <1>7, RunStep DEF RunStep

\* The child ends, and its mounts with it unless it is process 1.
LEMMA EndsInv ==
    ASSUME EnterInv, NEW how \in Ended, child \in Running, Ends(how),
           parent' = parent \/ (parent = "wait" /\ parent' = "dead")
    PROVE  EnterInv'
  BY DEF Ends, Left, Opened, EnterInv, TypeOK, MountsInv, ParentInv, DeviceInv, Running, Ended

\* Mount and its goroutine.
LEMMA MountInv ==
    ASSUME EnterInv, Attach \/ MountFails \/ TimerOpens \/ TimerCloses \/ Detach \/ Exit
    PROVE  EnterInv'
  <1> USE DEF EnterInv, TypeOK, MountsInv, ParentInv, DeviceInv, Running, Ended, mounts,
              Usable, HasUsr, Left, Mounted, Opened
  <1>1. CASE Attach
    BY <1>1 DEF Attach, SetFd, Fault, Drops
  <1>2. CASE MountFails
    <2>1. /\ parent = "attach" /\ parent' = "fatal"
          /\ UNCHANGED <<first, image, timer, child, auto, mounts, links, cuts>>
      BY <1>2 DEF MountFails
    <2>2. CASE UNCHANGED <<attached, dropped>>
      BY <2>1, <2>2
    <2>3. CASE attached' = TRUE /\ Drops("detach")
      BY <2>1, <2>3 DEF Drops, Fault
    <2>. QED
      BY <1>2, <2>2, <2>3 DEF MountFails
  <1>3. CASE TimerOpens
    BY <1>3 DEF TimerOpens, Fault
  <1>4. CASE TimerCloses
    <2>1. attached' = (attached /\ (auto => usr = "image"))
      BY <1>4 DEF TimerCloses
    <2>2. /\ timer = "open" /\ timer' = "over"
          /\ UNCHANGED <<first, image, parent, child, auto, usr, root, links, dropped, fails, cuts>>
      BY <1>4 DEF TimerCloses
    <2>3. CASE usr = "image"
      <3>1. attached' = attached
        BY <2>1, <2>3
      <3>. QED
        BY <2>2, <2>3, <3>1
    <2>4. CASE usr # "image"
      <3>1. attached' = (attached /\ ~auto)
        BY <2>1, <2>4
      <3>2. TypeOK' /\ ParentInv'
        BY <2>2, <3>1
      <3>3. MountsInv'
        BY <2>2, <2>4
      <3>4. DeviceInv'
        BY <2>2, <3>1
      <3>. QED
        BY <3>2, <3>3, <3>4
    <2>. QED
      BY <2>3, <2>4
  <1>5. CASE Detach
    <2>1. /\ parent = "wait" /\ child \in Ended /\ parent' \in {"returned", "fatal"}
          /\ UNCHANGED <<first, image, timer, child, mounts, links, cuts>>
      BY <1>5 DEF Detach, ChildEnded
    <2>2. CASE Detached(Mounted \cup Opened) /\ UNCHANGED <<dropped, fails>>
      BY <2>1, <2>2 DEF Detached
    <2>3. CASE image /\ UNCHANGED loop /\ Drops("detach")
      BY <2>1, <2>3 DEF Drops, Fault, loop
    <2>. QED
      BY <1>5, <2>2, <2>3 DEF Detach
  <1>6. CASE Exit
    BY <1>6 DEF Exit
  <1>. QED
    BY <1>1, <1>2, <1>3, <1>4, <1>5, <1>6

LEMMA NextInv == EnterInv /\ [Next]_vars => EnterInv'
  <1> SUFFICES ASSUME EnterInv, [Next]_vars PROVE EnterInv'
    OBVIOUS
  <1>1. CASE Step
    BY <1>1, RunStepInv, MountInv DEF Step
  <1>2. CASE MountFails
    BY <1>2, MountInv
  <1>3. CASE RunFails
    BY <1>3, EndsInv DEF RunFails, Ended
  <1>4. CASE Leave
    BY <1>4, EndsInv DEF Leave, Ended, Running
  <1>5. CASE Kill
    BY <1>5, EndsInv DEF Kill, Ended
  <1>6. CASE PowerCut
    BY <1>6 DEF PowerCut, Boots, EnterInv, TypeOK, MountsInv, ParentInv, DeviceInv, Running, Ended
  <1>7. CASE UNCHANGED vars
    BY <1>7 DEF vars, loop, mounts, EnterInv, TypeOK, MountsInv, ParentInv, DeviceInv,
                Usable, HasUsr
  <1>. QED
    BY <1>1, <1>2, <1>3, <1>4, <1>5, <1>6, <1>7 DEF Next

\* The inductive invariant of every behaviour of Mount and enter-root.
THEOREM EnterInvariant == Spec => []EnterInv
  BY InitInv, NextInv, PTL DEF Spec

\* enter.go, run: the root is entered only with a mounted usr, all its links and an image
\* that the device still has, whatever was cut short before.
THEOREM EntersOnlyComplete == Spec => []EntersComplete
  <1>1. EnterInv => EntersComplete
    BY DEF EnterInv, TypeOK, MountsInv, Usable, HasUsr, Running, EntersComplete
  <1>. QED
    BY <1>1, EnterInvariant, PTL

\* enter.go, Mount: the image is gone before its mount only when the goroutine came first, or
\* losetup.Attach did not attach it and did not say so.
THEOREM LostOnlyByTheTimer == Spec => []LostOnlyIfLate
  <1>1. EnterInv => LostOnlyIfLate
    BY DEF EnterInv, DeviceInv, LostOnlyIfLate
  <1>. QED
    BY <1>1, EnterInvariant, PTL

\* enter.go, Mount: when it has returned, or failed, the device is free, unless the very call
\* that frees it failed.
THEOREM DeviceIsFreed == Spec => []NoLeak
  <1>1. EnterInv => NoLeak
    BY DEF EnterInv, DeviceInv, NoLeak
  <1>. QED
    BY <1>1, EnterInvariant, PTL

(***************************************************************************)
(* The search for the image.                                               *)
(***************************************************************************)

\* The n bytes up to a place are the first n of the mark.
EndsWith(n, place) == \A i \in 1 .. n : file[place - n + i] = Magic[i]

\* The code forgets what came before a byte that does not go on: it knows of the longest
\* beginning of a mark that it is in only if no other one ends where that starts.
FollowsInv ==
    result = FR!None =>
        /\ found < Len(Magic)
        /\ \A n \in 0 .. Len(Magic) - 1 :
               n <= pos /\ EndsWith(n, pos) /\ ~FR!Beginning(pos - n) => found = n

FindInv ==
    /\ pos \in Nat /\ found \in 0 .. Len(Magic)
    /\ FR!Sound /\ FR!Complete
    /\ FollowsInv

LEMMA MagicHasLength == Len(Magic) \in Nat \ {0} /\ DOMAIN Magic = 1 .. Len(Magic)
  BY StartAssumption

LEMMA FindInit == FR!Init => FindInv
  BY MagicHasLength DEF FR!Init, FR!None, FR!At, FR!Sound, FR!Complete, FollowsInv, FindInv

\* A beginning of the mark that ends at the next byte is one that ended at this byte, and was
\* known, and a byte that goes on.
LEMMA Continues ==
    ASSUME FindInv, result = FR!None, NEW n \in 1 .. Len(Magic), n <= pos + 1,
           EndsWith(n, pos + 1), ~FR!Beginning((pos + 1) - n)
    PROVE  found = n - 1 /\ FR!GoesOn
  <1>0. \A i \in 1 .. n : file[(pos + 1) - n + i] = Magic[i]
    BY DEF EndsWith
  <1>1. n - 1 \in 0 .. Len(Magic) - 1 /\ n - 1 <= pos /\ pos \in Nat
    BY MagicHasLength DEF FindInv
  <1>2. EndsWith(n - 1, pos)
    <2>1. ASSUME NEW i \in 1 .. n - 1 PROVE file[pos - (n - 1) + i] = Magic[i]
      <3>1. i \in 1 .. n /\ pos - (n - 1) + i = (pos + 1) - n + i
        BY <1>1
      <3>2. file[(pos + 1) - n + i] = Magic[i]
        BY <1>0, <3>1
      <3>. QED
        BY <3>1, <3>2
    <2>. QED
      BY <2>1 DEF EndsWith
  <1>3. pos - (n - 1) = (pos + 1) - n
    BY <1>1
  <1>4. found = n - 1
    BY <1>1, <1>2, <1>3 DEF FindInv, FollowsInv
  <1>5. n \in 1 .. n /\ (pos + 1) - n + n = pos + 1
    BY <1>1
  <1>6. file[pos + 1] = Magic[n]
    <2>1. file[(pos + 1) - n + n] = Magic[n]
      BY <1>0, <1>5
    <2>. QED
      BY <1>5, <2>1
  <1>. QED
    BY <1>4, <1>6 DEF FR!GoesOn

LEMMA ByteKeeps == ASSUME FindInv, FR!Byte PROVE FindInv'
  <1>1. /\ result = FR!None /\ pos' = pos + 1 /\ file' = file
        /\ found' = IF FR!GoesOn THEN found + 1 ELSE 0
        /\ result' = IF FR!GoesOn /\ found + 1 = Len(Magic)
                         THEN FR!At("file", pos + 1) ELSE FR!None
    BY DEF FR!Byte, FR!Searching
  <1>2. Len(Magic) \in Nat \ {0} /\ DOMAIN Magic = 1 .. Len(Magic)
    BY MagicHasLength
  <1>3. pos \in Nat /\ found \in Nat /\ found < Len(Magic) /\ found <= pos
    <2>1. found < Len(Magic)
      BY <1>1 DEF FindInv, FollowsInv
    <2>2. found <= pos
      BY DEF FindInv, FR!Sound
    <2>. QED
      BY <1>2, <2>1, <2>2 DEF FindInv
  <1>4. \A i \in 1 .. found : file[pos - found + i] = Magic[i]
    BY DEF FindInv, FR!Sound
  <1>5. /\ FR!At("file", pos + 1).where = "file" /\ FR!At("file", pos + 1).offset = pos + 1
        /\ FR!At("file", pos + 1) # FR!None /\ FR!None.where # "file"
    BY DEF FR!At, FR!None
  \* What is known to be there is there.
  <1>6. /\ found' \in 0 .. Len(Magic) /\ found' <= pos + 1
        /\ \A i \in 1 .. found' : file[(pos + 1) - found' + i] = Magic[i]
    <2>1. CASE FR!GoesOn
      <3>1. found' = found + 1
        BY <1>1, <2>1
      <3>2. ASSUME NEW i \in 1 .. found + 1
            PROVE  file[(pos + 1) - (found + 1) + i] = Magic[i]
        <4>1. CASE i = found + 1
          <5>1. (pos + 1) - (found + 1) + i = pos + 1
            BY <1>3, <4>1
          <5>. QED
            BY <2>1, <4>1, <5>1 DEF FR!GoesOn
        <4>2. CASE i # found + 1
          <5>1. i \in 1 .. found /\ (pos + 1) - (found + 1) + i = pos - found + i
            BY <1>3, <4>2
          <5>. QED
            BY <1>4, <5>1
        <4>. QED
          BY <4>1, <4>2
      <3>. QED
        BY <1>2, <1>3, <3>1, <3>2
    <2>2. CASE ~FR!GoesOn
      <3>1. found' = 0
        BY <1>1, <2>2
      <3>. QED
        BY <1>2, <1>3, <3>1
    <2>. QED
      BY <2>1, <2>2
  \* What is found is a mark.
  <1>7. FR!Sound'
    <2>1. CASE FR!GoesOn /\ found + 1 = Len(Magic)
      <3>1. /\ result' = FR!At("file", pos + 1) /\ found' = Len(Magic)
            /\ result'.where = "file" /\ result'.offset = pos + 1
        BY <1>1, <1>5, <2>1
      <3>. QED
        BY <1>1, <1>2, <1>3, <1>6, <3>1 DEF FR!Sound, FR!Mark
    <2>2. CASE ~(FR!GoesOn /\ found + 1 = Len(Magic))
      <3>1. result' = FR!None /\ result'.where # "file"
        BY <1>1, <1>5, <2>2
      <3>. QED
        BY <1>1, <1>6, <3>1 DEF FR!Sound
    <2>. QED
      BY <2>1, <2>2
  \* Nothing is overlooked but for a beginning that comes just before.
  <1>8. FR!Complete'
    <2> SUFFICES ASSUME NEW n \in 1 .. pos + 1, FR!Mark(n), ~FR!Beginning(n - Len(Magic))
                 PROVE  result'.where = "file" /\ result'.offset <= n
      BY <1>1 DEF FR!Complete, FR!Mark, FR!Beginning
    <2>1. n > pos
      BY <1>1, <1>3, <1>5 DEF FindInv, FR!Complete
    <2>2. n = pos + 1 /\ Len(Magic) <= pos + 1
      BY <1>3, <2>1 DEF FR!Mark
    <2>3. EndsWith(Len(Magic), pos + 1)
      BY <1>2, <2>2 DEF FR!Mark, EndsWith
    <2>4. found = Len(Magic) - 1 /\ FR!GoesOn
      BY <1>1, <1>2, <2>2, <2>3, Continues
    <2>. QED
      BY <1>1, <1>2, <1>5, <2>2, <2>4
  <1>9. FollowsInv'
    <2> SUFFICES ASSUME result' = FR!None
                 PROVE  /\ found' < Len(Magic)
                        /\ \A n \in 0 .. Len(Magic) - 1 :
                               n <= pos + 1 /\ EndsWith(n, pos + 1)
                               /\ ~FR!Beginning((pos + 1) - n) => found' = n
      BY <1>1 DEF FollowsInv, EndsWith, FR!Beginning
    <2>0. ~(FR!GoesOn /\ found + 1 = Len(Magic))
      BY <1>1, <1>5
    <2>1. found' < Len(Magic)
      <3>1. CASE FR!GoesOn
        <4>1. found' = found + 1
          BY <1>1, <3>1
        <4>2. found + 1 # Len(Magic)
          BY <2>0, <3>1
        <4>3. found + 1 < Len(Magic)
          <5>1. Len(Magic) \in Nat
            BY <1>2
          <5>2. found \in Nat /\ found < Len(Magic)
            BY <1>3
          <5>3. found \in Int /\ Len(Magic) \in Int
            BY <5>1, <5>2
          <5>. QED
            BY <5>2, <5>3, <4>2
        <4>. QED
          BY <4>1, <4>3
      <3>2. CASE ~FR!GoesOn
        BY <1>1, <1>2, <3>2
      <3>. QED
        BY <3>1, <3>2
    <2>2. ASSUME NEW n \in 1 .. Len(Magic) - 1, n <= pos + 1, EndsWith(n, pos + 1),
                 ~FR!Beginning((pos + 1) - n)
          PROVE  found' = n
      <3>1. n \in 1 .. Len(Magic)
        BY <1>2, <2>2
      <3>2. found = n - 1 /\ FR!GoesOn
        BY <1>1, <2>2, <3>1, Continues
      <3>. QED
        BY <1>1, <1>3, <3>1, <3>2
    <2>3. ASSUME ~FR!Beginning((pos + 1) - 0) PROVE found' = 0
      <3>1. (pos + 1) - 0 = pos + 1
        BY <1>3
      <3>2. ASSUME found' # 0 PROVE FALSE
        <4>1. found' \in 1 .. Len(Magic) - 1 /\ found' <= pos + 1
          BY <1>2, <1>3, <1>6, <2>1, <3>2
        <4>2. FR!Beginning(pos + 1)
          BY <1>6, <4>1 DEF FR!Beginning
        <4>. QED
          BY <2>3, <3>1, <4>2
      <3>. QED
        BY <3>2
    <2>. QED
      BY <1>2, <2>1, <2>2, <2>3
  <1>. QED
    BY <1>1, <1>3, <1>6, <1>7, <1>8, <1>9 DEF FindInv

\* The other steps do not look at a byte.
LEMMA FindKeeps == FindInv /\ (FR!Next \/ UNCHANGED findVars) => FindInv'
  <1> SUFFICES ASSUME FindInv, FR!Next \/ UNCHANGED findVars PROVE FindInv'
    OBVIOUS
  <1>1. CASE FR!Byte
    BY <1>1, ByteKeeps
  <1>2. ASSUME file' = file, pos' = pos, found' = found,
               \/ result' = result
               \/ result = FR!None /\ result'.where \notin {"none", "file"}
        PROVE  FindInv'
    <2>1. FR!None.where = "none"
      BY DEF FR!None, FR!At
    <2>2. FollowsInv'
      BY <1>2, <2>1 DEF FindInv, FollowsInv, EndsWith, FR!Beginning
    <2>3. FR!Sound'
      BY <1>2 DEF FindInv, FR!Sound, FR!Mark
    <2>4. FR!Complete'
      BY <1>2, <2>1 DEF FindInv, FR!Complete, FR!Mark, FR!Beginning
    <2>. QED
      BY <1>2, <2>2, <2>3, <2>4 DEF FindInv
  <1>3. CASE FR!FromEnvironment \/ FR!Beside \/ FR!End
    BY <1>2, <1>3 DEF FR!FromEnvironment, FR!Beside, FR!End, FR!Searching, FR!At
  <1>4. CASE FR!Read \/ FR!Done \/ UNCHANGED findVars
    BY <1>2, <1>4 DEF FR!Read, FR!Carried, FR!Done, FR!vars, findVars
  <1>. QED
    BY <1>1, <1>3, <1>4 DEF FR!Next

(***************************************************************************)
(* Moving the root.                                                        *)
(***************************************************************************)

\* An entry of the new root that is complete.
Whole(e) == data[e] = "whole" /\ new[e] \in {kind[e], TR!Made(kind[e])}

\* The files that take memory twice.
Twice == {f \in TR!Files : f \in old /\ new[f] = "file"}

MoveTypes ==
    /\ TR!TypeOK
    /\ kind \in [Entries -> TR!Kinds] /\ moveFails \in Nat
    /\ relocated => pc = "start"

\* Before the walk over the files nothing is gone; a directory that was visited is there.
DirsInv ==
    /\ pc = "start" /\ ~relocated => TR!Files \subseteq old /\ moving = "none"
    /\ pc = "dirs" =>
           /\ TR!Files \subseteq old /\ moving = "none" /\ todo \subseteq TR!Dirs
           /\ \A e \in TR!Dirs \ todo : Whole(e)

\* In the walk over the files one is under way, and those before it are there.
FilesInv ==
    pc = "files" =>
        /\ todo \cap TR!Dirs = {} /\ todo \cap TR!Files \subseteq old
        /\ \A e \in Entries : e \in todo \/ e = moving \/ Whole(e)
        /\ moving # "none" => moving \in old \ todo /\ new[moving] = "file"

\* What is deleted after the walks has been moved.
MovedInv == pc \in {"delete", "exec"} \/ relocated => \A e \in Entries : Whole(e)

\* Each file that is there twice, but the one that is being moved, is a removal that failed.
TwiceInv == Cardinality(Twice \ {moving}) <= moveFails

MoveInv == MoveTypes /\ DirsInv /\ FilesInv /\ MovedInv /\ TwiceInv /\ TR!NothingLost

\* Files are there twice only if they were before, or the one that is being moved.
LEMMA TwiceKeeps ==
    ASSUME MoveInv, moveFails' \in Nat, moveFails <= moveFails',
           Twice' \ {moving'} \subseteq Twice \ {moving}
    PROVE  TwiceInv'
  <1>1. IsFiniteSet(Twice \ {moving})
    <2>1. Twice \ {moving} \subseteq Entries
      BY DEF Twice, TR!Files
    <2>. QED
      BY <2>1, FS_Subset, StartAssumption
  <1>2. /\ Cardinality(Twice' \ {moving'}) \in Nat /\ Cardinality(Twice \ {moving}) \in Nat
        /\ Cardinality(Twice' \ {moving'}) <= Cardinality(Twice \ {moving})
    BY <1>1, FS_Subset, FS_CardinalityType
  <1>. QED
    BY <1>2 DEF MoveInv, MoveTypes, TwiceInv

LEMMA MoveInit == TR!Init => MoveInv
  <1> SUFFICES ASSUME TR!Init PROVE MoveInv
    OBVIOUS
  <1>1. Twice = {}
    BY DEF TR!Init, TR!All, Twice, TR!Files
  <1>2. Cardinality(Twice \ {moving}) = 0
    BY <1>1, FS_EmptySet
  <1>3. MoveTypes
    BY DEF TR!Init, TR!All, TR!TypeOK, MoveTypes
  <1>. QED
    BY <1>2, <1>3 DEF TR!Init, TR!Files, TR!NothingLost, MoveInv, DirsInv, FilesInv, MovedInv,
                      TwiceInv

\* The steps that change no entry of either root.
LEMMA WalkKeeps ==
    ASSUME MoveInv,
           TR!Relocate \/ TR!DirsCopied \/ TR!Socket \/ TR!FilesMoved \/ TR!Move
               \/ TR!Exec \/ TR!Fails
    PROVE  MoveInv'
  <1>1. /\ old' = old /\ new' = new /\ data' = data /\ kind' = kind /\ moving' = moving
        /\ memory' = memory /\ moveFails' \in Nat /\ moveFails <= moveFails'
    BY DEF TR!Relocate, TR!DirsCopied, TR!Socket, TR!FilesMoved, TR!Move, TR!Exec, TR!Fails,
           TR!entries, MoveInv, MoveTypes
  <1>2. TwiceInv'
    BY <1>1, TwiceKeeps DEF Twice, TR!Files
  <1> USE DEF MoveInv, MoveTypes, TR!TypeOK, TR!Files, TR!Dirs, TR!NothingLost, DirsInv, FilesInv,
              MovedInv, Whole, TR!Goes
  <1>3. CASE TR!Relocate
    BY <1>1, <1>2, <1>3 DEF TR!Relocate, TR!ToBeMoved
  <1>4. CASE TR!DirsCopied
    BY <1>1, <1>2, <1>4 DEF TR!DirsCopied
  <1>5. CASE TR!Socket
    BY <1>1, <1>2, <1>5 DEF TR!Socket
  <1>6. CASE TR!FilesMoved
    BY <1>1, <1>2, <1>6, StartAssumption DEF TR!FilesMoved
  <1>7. CASE TR!Move
    BY <1>1, <1>2, <1>7 DEF TR!Move
  <1>8. CASE TR!Exec
    BY <1>1, <1>2, <1>8 DEF TR!Exec, TR!Marked
  <1>9. CASE TR!Fails
    BY <1>1, <1>2, <1>9 DEF TR!Fails
  <1>. QED
    BY <1>3, <1>4, <1>5, <1>6, <1>7, <1>8, <1>9

\* An entry of another kind than a file: its copy is all there is to it.
LEMMA OtherKeeps == ASSUME MoveInv, TR!CopyDir \/ TR!MakeOther PROVE MoveInv'
  <1> USE DEF MoveInv, MoveTypes, TR!TypeOK, TR!Files, TR!Dirs, TR!NothingLost, DirsInv, FilesInv,
              MovedInv, Whole
  <1>1. PICK e \in todo \ TR!Files :
            /\ todo' = todo \ {e}
            /\ new' = [new EXCEPT ![e] = IF pc = "dirs" THEN "dir" ELSE TR!Made(kind[e])]
            /\ data' = [data EXCEPT ![e] = "whole"]
    <2>1. CASE TR!CopyDir
      BY <2>1 DEF TR!CopyDir
    <2>2. CASE TR!MakeOther
      BY <2>2 DEF TR!MakeOther
    <2>. QED
      BY <2>1, <2>2
  <1>2. /\ old' = old /\ kind' = kind /\ moving' = moving /\ memory' = memory /\ pc' = pc
        /\ relocated' = relocated /\ moveFails' = moveFails /\ pc \in {"dirs", "files"}
        /\ moving = "none"
    BY DEF TR!CopyDir, TR!MakeOther
  <1>3. e \in Entries /\ kind[e] \in TR!Kinds
    BY <1>1
  <1>4. Whole(e)'
    BY <1>1, <1>2, <1>3 DEF TR!Made
  <1>5. \A f \in Entries : f # e => Whole(f)' = Whole(f) /\ new'[f] = new[f] /\ data'[f] = data[f]
    BY <1>1, <1>2
  <1>6. MoveTypes'
    BY <1>1, <1>2, <1>3 DEF TR!Made, TR!Kinds
  <1>7. TwiceInv'
    <2>1. Twice' = Twice
      BY <1>1, <1>2, <1>5 DEF Twice
    <2>. QED
      BY <1>2, <2>1, TwiceKeeps
  <1>8. DirsInv' /\ MovedInv'
    BY <1>1, <1>2, <1>4, <1>5
  <1>9. FilesInv'
    BY <1>1, <1>2, <1>4, <1>5
  <1>10. TR!NothingLost'
    BY <1>1, <1>2, <1>5
  <1>. QED
    BY <1>6, <1>7, <1>8, <1>9, <1>10

LEMMA FileKeeps ==
    ASSUME MoveInv, TR!CreateFile \/ TR!CopyFile \/ TR!RemoveFile \/ TR!KeepFile
    PROVE  MoveInv'
  <1> USE DEF MoveInv, MoveTypes, TR!TypeOK, TR!Files, TR!Dirs, TR!NothingLost, DirsInv, FilesInv,
              MovedInv, Whole
  <1>1. CASE TR!CreateFile
    <2>1. PICK f \in todo \cap TR!Files :
              /\ todo' = todo \ {f} /\ moving' = f
              /\ new' = [new EXCEPT ![f] = "file"]
              /\ data' = [data EXCEPT ![f] = "part"]
      BY <1>1 DEF TR!CreateFile
    <2>2. /\ old' = old /\ kind' = kind /\ memory' = memory /\ pc' = pc /\ pc = "files"
          /\ relocated' = relocated /\ moveFails' = moveFails /\ moving = "none"
      BY <1>1 DEF TR!CreateFile
    <2>3. f \in old /\ f \in Entries /\ f # "none"
      BY <2>1, <2>2, StartAssumption
    <2>4. \A g \in Entries : g # f => Whole(g)' = Whole(g) /\ new'[g] = new[g] /\ data'[g] = data[g]
      BY <2>1, <2>2
    <2>5. MoveTypes'
      BY <2>1, <2>2, <2>3 DEF TR!Kinds
    <2>6. TwiceInv'
      BY <2>1, <2>2, <2>4, TwiceKeeps, StartAssumption DEF Twice
    <2>7. TR!NothingLost'
      BY <2>1, <2>2, <2>3, <2>4
    <2>8. FilesInv'
      BY <2>1, <2>2, <2>3, <2>4, <2>5, StartAssumption
    <2>. QED
      BY <2>2, <2>5, <2>6, <2>7, <2>8
  <1>2. CASE TR!CopyFile
    <2>1. /\ data' = [data EXCEPT ![moving] = "whole"] /\ new' = new /\ todo' = todo
          /\ moving' = moving /\ moving # "none"
          /\ old' = old /\ kind' = kind /\ memory' = memory /\ pc' = pc /\ pc = "files"
          /\ relocated' = relocated /\ moveFails' = moveFails
      BY <1>2 DEF TR!CopyFile
    <2>2. MoveTypes'
      BY <2>1
    <2>3. TwiceInv'
      BY <2>1, TwiceKeeps DEF Twice
    <2>4. \A g \in Entries : g # moving => Whole(g)' = Whole(g) /\ data'[g] = data[g]
      BY <2>1
    <2>. QED
      BY <2>1, <2>2, <2>3, <2>4
  <1>3. CASE TR!RemoveFile
    <2>1. /\ moving \in TR!Files /\ data[moving] = "whole" /\ old' = old \ {moving}
          /\ moving' = "none"
          /\ data' = data /\ new' = new /\ todo' = todo
          /\ kind' = kind /\ memory' = memory /\ pc' = pc /\ pc = "files"
          /\ relocated' = relocated /\ moveFails' = moveFails
      BY <1>3 DEF TR!RemoveFile, TR!CopiedInFull, TR!Removed
    <2>2. TwiceInv'
      BY <2>1, TwiceKeeps DEF Twice
    <2>3. moving # "none" /\ moving \notin todo /\ Whole(moving)
      BY <2>1, StartAssumption
    <2>. QED
      BY <2>1, <2>2, <2>3
  <1>4. CASE TR!KeepFile
    <2>1. /\ moving \in TR!Files /\ data[moving] = "whole" /\ moving # "none"
          /\ moving' = "none" /\ moveFails' = moveFails + 1
          /\ old' = old /\ data' = data /\ new' = new /\ todo' = todo
          /\ kind' = kind /\ memory' = memory /\ pc' = pc /\ pc = "files"
          /\ relocated' = relocated
      BY <1>4 DEF TR!KeepFile, TR!entries
    <2>2. TwiceInv'
      <3>1. IsFiniteSet(Twice \ {moving})
        <4>1. Twice \ {moving} \subseteq Entries
          BY DEF Twice
        <4>. QED
          BY <4>1, FS_Subset, StartAssumption
      <3>2. /\ IsFiniteSet((Twice \ {moving}) \cup {moving})
            /\ Cardinality((Twice \ {moving}) \cup {moving}) = Cardinality(Twice \ {moving}) + 1
        BY <3>1, FS_AddElement
      <3>3. Twice' \ {moving'} \subseteq (Twice \ {moving}) \cup {moving}
        BY <2>1 DEF Twice
      <3>4. Cardinality(Twice' \ {moving'}) <= Cardinality(Twice \ {moving}) + 1
        BY <3>2, <3>3, FS_Subset
      <3>5. /\ Cardinality(Twice' \ {moving'}) \in Nat
            /\ Cardinality(Twice \ {moving}) \in Nat
        BY <3>1, <3>2, <3>3, FS_Subset, FS_CardinalityType
      <3>. QED
        BY <2>1, <3>4, <3>5 DEF TwiceInv
    <2>3. Whole(moving)
      BY <2>1
    <2>. QED
      BY <2>1, <2>2, <2>3
  <1>. QED
    BY <1>1, <1>2, <1>3, <1>4

\* The last walk deletes of the old root what is in the new one.
LEMMA DeleteKeeps == ASSUME MoveInv, TR!Delete PROVE MoveInv'
  <1>1. /\ todo' \subseteq todo /\ old' \subseteq old /\ data' = data /\ new' = new
        /\ moving' = moving
        /\ kind' = kind /\ memory' = memory /\ pc' = pc /\ pc = "delete"
        /\ relocated' = relocated /\ moveFails' = moveFails
    BY DEF TR!Delete, TR!NewRoot
  <1>2. TwiceInv'
    BY <1>1, TwiceKeeps DEF Twice, TR!Files, MoveInv, MoveTypes
  <1>. QED
    BY <1>1, <1>2 DEF MoveInv, MoveTypes, TR!TypeOK, TR!Files, TR!NothingLost, DirsInv, FilesInv,
                      MovedInv, Whole

LEMMA MoveKeeps == MoveInv /\ (TR!Next \/ UNCHANGED moveVars) => MoveInv'
  <1> SUFFICES ASSUME MoveInv, TR!Next \/ UNCHANGED moveVars PROVE MoveInv'
    OBVIOUS
  <1>1. CASE UNCHANGED moveVars
    BY <1>1 DEF moveVars, MoveInv, MoveTypes, TR!TypeOK, TR!Files, TR!Dirs, TR!NothingLost,
                DirsInv, FilesInv, MovedInv, Whole, TwiceInv, Twice
  <1>. QED
    BY <1>1, WalkKeeps, OtherKeeps, FileKeeps, DeleteKeeps DEF TR!Next, TR!Step

(***************************************************************************)
(* The theorems.                                                           *)
(***************************************************************************)

StartInv ==
    /\ part \in {"find", "move", "enter"}
    /\ part = "find" => FindInv
    /\ part = "move" => MoveInv

\* The inductive invariant of the search and of the move.
THEOREM StartInvariant == StartSpec => []StartInv
  <1>1. StartInit => StartInv
    BY FindInit, MoveInit DEF StartInit, StartInv
  <1>2. StartInv /\ [StartNext]_<<part, findVars, moveVars, vars>> => StartInv'
    BY FindKeeps, MoveKeeps DEF StartNext, StartInv
  <1>. QED
    BY <1>1, <1>2, PTL DEF StartSpec

\* enter.go, inFile: whatever the mark, the binary and the reads are, what is taken for the
\* image begins right after a mark, and a mark that is overlooked comes right after the
\* beginning of another.
THEOREM FindsTheMark == StartSpec => []RootFound
  <1>1. StartInv => RootFound
    BY DEF StartInv, FindInv, RootFound
  <1>. QED
    BY <1>1, StartInvariant, PTL

\* transferroot.go: whatever the tree is and whichever steps fail, no file is lost, at most
\* one is there twice but for failed removals, and the new root is complete when it is run.
THEOREM NothingIsLostOnTheWay == StartSpec => []MovedWhole
  <1>1. MoveInv => TR!OneByOne
    <2>0. \A S : TR!Cardinality(S) = Cardinality(S)
      BY DEF TR!Cardinality, Cardinality
    <2> SUFFICES ASSUME MoveInv PROVE Cardinality(Twice) <= 1 + moveFails
      BY <2>0 DEF TR!OneByOne, Twice
    <2>1. IsFiniteSet(Twice)
      <3>1. Twice \subseteq Entries
        BY DEF Twice, TR!Files
      <3>. QED
        BY <3>1, FS_Subset, StartAssumption
    <2>2. Cardinality(Twice) <= Cardinality(Twice \ {moving}) + 1
      <3>1. Cardinality(Twice) \in Nat
        BY <2>1, FS_CardinalityType
      <3>. QED
        BY <2>1, <3>1, FS_RemoveElement
    <2>3. Cardinality(Twice) \in Nat /\ Cardinality(Twice \ {moving}) \in Nat
      BY <2>1, FS_RemoveElement, FS_CardinalityType
    <2>. QED
      BY <2>2, <2>3 DEF MoveInv, MoveTypes, TwiceInv
  <1>2. MoveInv => TR!NothingLost /\ TR!WholeAtExec
    BY DEF MoveInv, MovedInv, Whole, TR!WholeAtExec
  <1>3. StartInv => MovedWhole
    BY <1>1, <1>2 DEF StartInv, MovedWhole
  <1>. QED
    BY <1>3, StartInvariant, PTL
====
