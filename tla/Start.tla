---- MODULE Start ----
(***************************************************************************)
(* The first process of a boot, `initrd` of main.go: it moves the          *)
(* initramfs (TransferRoot), finds the root image (FindRoot) and enters it *)
(* (EnterRoot).  None of the three touches the state of another, so a      *)
(* behaviour goes through one of them, its `part`, from any state in which *)
(* that may begin, and the variables of the others are "unused".           *)
(***************************************************************************)
EXTENDS EnterRoot, Sequences

CONSTANTS Magic, Bytes, MaxFile, Buffer, \* of FindRoot
          Entries, In                    \* of TransferRoot

ASSUME StartAssumption ==
    /\ Magic \in Seq(Bytes) /\ Magic # <<>>
    /\ MaxFile \in Nat /\ Buffer \in Nat
    /\ IsFiniteSet(Entries) /\ "mnt" \in Entries /\ "none" \notin Entries
    /\ In \in [Entries -> Entries \cup {"/"}]

VARIABLES part,
          given, beside, file, piece, pos, found, result,
          kind, memory, relocated, pc, todo, moving, old, new, data, moveFails

FR == INSTANCE FindRoot WITH root <- given
TR == INSTANCE TransferRoot WITH fails <- moveFails

Unused(x) == x = "unused"
FindUnused ==
    /\ Unused(given) /\ Unused(beside) /\ Unused(file) /\ Unused(piece)
    /\ Unused(pos) /\ Unused(found) /\ Unused(result)
MoveUnused ==
    /\ Unused(kind) /\ Unused(memory) /\ Unused(relocated) /\ Unused(pc) /\ Unused(todo)
    /\ Unused(moving) /\ Unused(old) /\ Unused(new) /\ Unused(data) /\ Unused(moveFails)
EnterUnused ==
    /\ Unused(first) /\ Unused(image) /\ Unused(parent) /\ Unused(timer) /\ Unused(child)
    /\ Unused(attached) /\ Unused(auto) /\ Unused(usr) /\ Unused(links) /\ Unused(root)
    /\ Unused(dropped) /\ Unused(fails) /\ Unused(cuts)

findVars == <<given, beside, file, piece, pos, found, result>>
moveVars == <<kind, memory, relocated, pc, todo, moving, old, new, data, moveFails>>

StartInit ==
    \/ part = "find" /\ FR!Init /\ MoveUnused /\ EnterUnused
    \/ part = "move" /\ TR!Init /\ FindUnused /\ EnterUnused
    \/ part = "enter" /\ Init /\ FindUnused /\ MoveUnused

StartNext ==
    \/ part = "find" /\ FR!Next /\ UNCHANGED <<part, moveVars, vars>>
    \/ part = "move" /\ TR!Next /\ UNCHANGED <<part, findVars, vars>>
    \/ part = "enter" /\ Next /\ UNCHANGED <<part, findVars, moveVars>>

StartSpec ==
    /\ StartInit /\ [][StartNext]_<<part, findVars, moveVars, vars>>
    /\ WF_vars(part = "enter" /\ Attach) /\ WF_vars(part = "enter" /\ RunStep)
    /\ WF_vars(part = "enter" /\ Detach)
    /\ WF_moveVars(part = "move" /\ TR!Step)

----------------------------------------------------------------------------
\* Properties, beside those of EnterRoot.

\* inFile: what is taken for the image begins right after a mark, and a mark is found
\* however the reads divide it, but for one that the beginning of another comes before.
RootFound == part = "find" => FR!Sound /\ FR!Complete

\* moveFiles: at no moment is a file lost, or are two of them in memory twice, and the
\* new root is complete when /init runs in it, whatever was left or removed of the old.
MovedWhole == part = "move" => TR!NothingLost /\ TR!OneByOne /\ TR!WholeAtExec

\* Relocate: the root is moved once, and then init goes on or the node says why not.
\* Mount: the system of the image starts, or Mount or its child says that it does not.
StartEnds ==
    /\ (part = "move" /\ pc = "start") ~> (pc \in {"enter", "fatal"} /\ ~relocated)
    /\ Starts
====
