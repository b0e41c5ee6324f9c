---- MODULE TransferRoot ----
(***************************************************************************)
(* pkg/transferroot: when the root is an initramfs, initrd (main.go) moves *)
(* it to a tmpfs on /mnt, moves that to / and runs /init again.  One       *)
(* process does it, in memory: what counts is that nothing is lost on the  *)
(* way and that no more than one file takes memory twice.                  *)
(***************************************************************************)
EXTENDS Naturals, FiniteSets

CONSTANTS Entries, \* what the initramfs has, "mnt" among it
          In,      \* the directory of an entry, "/" for the first of two levels
          MaxFails \* bounds the steps and the removals that fail

VARIABLES
    kind,      \* the kinds of the entries
    memory,    \* whether the root is an initramfs, else there is nothing to do
    relocated, \* K3OS_RELOCATED is in the environment
    pc,        \* where initrd is
    todo,      \* the entries that the walk has yet to visit
    moving,    \* the file that is being moved, or "none"
    old,       \* the entries that the initramfs has left
    new,       \* what the tmpfs has of them: the kind that was made,
    data,      \* and how much of the contents: "none", "part" or "whole"
    fails

entries == <<old, new, data>>
vars == <<kind, memory, relocated, pc, todo, moving, entries, fails>>

Kinds == {"dir", "file", "symlink", "device", "fifo", "socket"}
Dirs == {e \in Entries : kind[e] = "dir"}
Files == {e \in Entries : kind[e] = "file"}
All(x) == [e \in Entries |-> x]
Within(e) == {f \in Entries : f = e \/ In[f] = e}

Init ==
    /\ kind \in {k \in [Entries -> Kinds] :
                     k["mnt"] = "dir" /\ \A e \in Entries : In[e] # "/" => k[In[e]] = "dir"}
    /\ memory \in BOOLEAN /\ relocated = FALSE
    /\ pc = "start" /\ todo = {} /\ moving = "none"
    /\ old = Entries /\ new = All("none") /\ data = All("none")
    /\ fails = 0

Goes(from, to) == pc = from /\ pc' = to

\* Relocate: a root that is no initramfs, or was one, is entered as it is.
ToBeMoved == memory /\ ~relocated
Relocate ==
    /\ Goes("start", IF ToBeMoved THEN "dirs" ELSE "enter")
    /\ relocated' = FALSE
    /\ todo' = IF ToBeMoved THEN Dirs ELSE {}
    /\ UNCHANGED <<kind, memory, moving, entries, fails>>

\* The directories first; a walk visits a directory before what is in it.
CopyDir ==
    /\ pc = "dirs"
    /\ \E d \in todo :
           /\ In[d] \notin todo
           /\ todo' = todo \ {d}
           /\ new' = [new EXCEPT ![d] = "dir"]
           /\ data' = [data EXCEPT ![d] = "whole"]
    /\ UNCHANGED <<kind, memory, relocated, pc, moving, old, fails>>
DirsCopied ==
    /\ Goes("dirs", "files") /\ todo = {}
    /\ todo' = Entries \ Dirs
    /\ UNCHANGED <<kind, memory, relocated, moving, entries, fails>>

\* A file is created, copied and removed; owner, times and mode are left out.
CreateFile ==
    /\ pc = "files" /\ moving = "none"
    /\ \E f \in todo \cap Files :
           /\ In[f] # "/" => new[In[f]] = "dir"
           /\ todo' = todo \ {f} /\ moving' = f
           /\ new' = [new EXCEPT ![f] = "file"]
           /\ data' = [data EXCEPT ![f] = "part"]
    /\ UNCHANGED <<kind, memory, relocated, pc, old, fails>>
CopyFile ==
    /\ pc = "files" /\ moving # "none" /\ data[moving] = "part"
    /\ data' = [data EXCEPT ![moving] = "whole"]
    /\ UNCHANGED <<kind, memory, relocated, pc, todo, moving, old, new, fails>>

AtOnce(f) == moving = f
CopiedInFull(f) == moving = f /\ data[f] = "whole"
Removed(f) == old \ {f}
RemoveFile ==
    /\ pc = "files"
    /\ \E f \in Files :
           /\ CopiedInFull(f)
           /\ old' = Removed(f)
    /\ moving' = "none"
    /\ UNCHANGED <<kind, memory, relocated, pc, todo, new, data, fails>>

\* "it is ok if we do not remove all files now"
KeepFile ==
    /\ pc = "files" /\ moving # "none" /\ data[moving] = "whole"
    /\ fails < MaxFails /\ fails' = fails + 1
    /\ moving' = "none"
    /\ UNCHANGED <<kind, memory, relocated, pc, todo, entries>>

\* The other kinds are made anew.  The mode that Mknod gets is Go's: the bits that say
\* device are none of the sixteen that the kernel reads, and no type is a regular file.
Made(k) == IF k = "device" THEN "file" ELSE k
MakeOther ==
    /\ pc = "files" /\ moving = "none"
    /\ \E e \in todo \ Files :
           /\ kind[e] # "socket" /\ (In[e] # "/" => new[In[e]] = "dir")
           /\ todo' = todo \ {e}
           /\ new' = [new EXCEPT ![e] = Made(kind[e])]
           /\ data' = [data EXCEPT ![e] = "whole"]
    /\ UNCHANGED <<kind, memory, relocated, pc, moving, old, fails>>

\* "Unsupported socket on rootfs"
Socket ==
    /\ Goes("files", "fatal") /\ moving = "none" /\ \E e \in todo : kind[e] = "socket"
    /\ UNCHANGED <<kind, memory, relocated, todo, moving, entries, fails>>
FilesMoved ==
    /\ Goes("files", "delete") /\ todo = {} /\ moving = "none"
    /\ todo' = {e \in Entries : In[e] = "/"}
    /\ UNCHANGED <<kind, memory, relocated, moving, entries, fails>>

\* What is left is deleted, a directory with all that is in it, as far as it can be.
\* /mnt is another file system by now: to delete it would be to empty the new root.
NewRoot == {"mnt"}
Delete ==
    /\ pc = "delete"
    /\ \E e \in todo :
           /\ todo' = todo \ {e}
           /\ old' \in IF e \in NewRoot THEN {old}
                       ELSE {old \ gone : gone \in SUBSET (Within(e) \cap old)}
           /\ IF e = "mnt" /\ e \notin NewRoot
                  THEN new' = All("none") /\ data' = All("none")
                  ELSE UNCHANGED <<new, data>>
    /\ UNCHANGED <<kind, memory, relocated, pc, moving, fails>>

\* mount --move, chroot, chdir and exec.
Move ==
    /\ Goes("delete", "exec") /\ todo = {}
    /\ UNCHANGED <<kind, memory, relocated, todo, moving, entries, fails>>
NotMarked == FALSE
Marked == TRUE
Exec ==
    /\ Goes("exec", "start")
    /\ relocated' = Marked
    /\ UNCHANGED <<kind, memory, todo, moving, entries, fails>>

\* Any other error is the end of process 1.
Fails ==
    /\ pc \notin {"enter", "fatal"} /\ (pc = "start" => ~relocated)
    /\ fails < MaxFails /\ fails' = fails + 1
    /\ pc' = "fatal"
    /\ UNCHANGED <<kind, memory, relocated, todo, moving, entries>>

Step ==
    \/ Relocate \/ CopyDir \/ DirsCopied \/ CreateFile \/ CopyFile \/ RemoveFile
    \/ MakeOther \/ Socket \/ FilesMoved \/ Delete \/ Move \/ Exec
Next == Step \/ KeepFile \/ Fails
Spec == Init /\ [][Next]_vars /\ WF_vars(Step)

----------------------------------------------------------------------------
\* Properties.

TypeOK ==
    /\ pc \in {"start", "dirs", "files", "delete", "exec", "enter", "fatal"}
    /\ todo \subseteq Entries /\ old \subseteq Entries
    /\ moving \in Files \cup {"none"}
    /\ new \in [Entries -> Kinds \cup {"none"}]
    /\ data \in [Entries -> {"none", "part", "whole"}]
    /\ {memory, relocated} \subseteq BOOLEAN

\* No file is ever without a complete copy: the new one is complete before the old one goes.
NothingLost == \A f \in Files : f \in old \/ data[f] = "whole"

\* "using as little RAM as possible by moving files one by one": but for those whose removal
\* failed, at most one file is there twice while files are moved.
OneByOne == pc = "files" => Cardinality({f \in Files : f \in old /\ new[f] = "file"}) <= 1 + fails

\* What is run as /init has all that was there, in kind (devices: see EquivalentToCp).
WholeAtExec ==
    pc = "exec" \/ relocated =>
        \A e \in Entries : data[e] = "whole" /\ new[e] \in {kind[e], Made(kind[e])}

\* initrd goes on to enter the root, of which it is once more process 1, or it fails.
Ends == (pc = "start") ~> (pc \in {"enter", "fatal"} /\ ~relocated)

\* The comment on copyFS: "Equivalent to a more memory efficient version of /bin/cp -a / /mnt".
EquivalentToCp == pc = "exec" => new = kind
====
