---- MODULE BootMode ----
(***************************************************************************)
(* How a booting node chooses what to run: overlay/init and                *)
(* libexec/k3os/mode, while the kernel is still finding its disks.         *)
(*                                                                         *)
(* A node with a K3OS_STATE partition boots in two passes.  The first runs *)
(* from the initrd, in mode `disk`: mode-disk pivots to the partition and  *)
(* runs init from there again with K3OS_MODE=local, the second pass.       *)
(***************************************************************************)
EXTENDS Naturals

CONSTANTS
    None,           \* no value
    CmdlineModes,   \* what k3os.mode= or rescue (which asks for `shell`) may say
    FallbackModes,  \* what k3os.fallback_mode= may say
    WaitSeconds     \* MODE_WAIT_SECONDS

\* The modes that have a script mode-<mode>.
Scripts == {"disk", "local", "live", "install", "shell"}

ASSUME BootModeAssumption ==
    /\ None \notin Scripts
    /\ {None} \subseteq CmdlineModes /\ {None} \subseteq FallbackModes
    /\ WaitSeconds \in Nat

VARIABLES
    node,       \* the node: its kernel command line, its root and its disk
    visible,    \* blkid -L K3OS_STATE finds the partition
    pass,       \* 1 from the initrd or the ISO, 2 from the partition
    env,        \* K3OS_MODE
    mode,       \* MODE
    wait,       \* MODE_WAIT_SECONDS, as it counts down
    pc

vars == <<node, visible, pass, env, mode, wait, pc>>

Nodes == [cmdline : CmdlineModes, fallback : FallbackModes, tmpfs : BOOLEAN,
          attached : BOOLEAN]

Init ==
    /\ node \in Nodes
    /\ visible \in BOOLEAN /\ (visible => node.attached)
    /\ pass = 1 /\ env = None
    /\ mode = None /\ wait = WaitSeconds
    /\ pc = "parse"

\* The driver has found the disk of the partition.
Appear ==
    /\ node.attached /\ ~visible
    /\ visible' = TRUE
    /\ UNCHANGED <<node, pass, env, mode, wait, pc>>

\* The loop over /proc/cmdline.
CmdlineMode == node.cmdline

Parse ==
    /\ pc = "parse"
    /\ mode' = CmdlineMode
    /\ wait' = WaitSeconds
    /\ pc' = "look"
    /\ UNCHANGED <<node, visible, pass, env>>

\* One turn of the loop: the first of these that is not None.
PickFallbackFirst ==
    IF node.fallback # None THEN node.fallback
    ELSE IF env # None THEN env
    ELSE IF visible THEN "disk"
    ELSE IF ~node.tmpfs THEN "local" ELSE None
PickDiskFirst ==
    IF visible THEN "disk"
    ELSE IF env # None THEN env
    ELSE IF node.fallback # None THEN node.fallback
    ELSE IF ~node.tmpfs THEN "local" ELSE None
Pick ==
    IF env # None THEN env
    ELSE IF visible THEN "disk"
    ELSE IF node.fallback # None THEN node.fallback
    ELSE IF ~node.tmpfs THEN "local" ELSE None

Looping == mode = None /\ wait > 0

Look ==
    /\ pc = "look" /\ Looping
    /\ mode' = Pick
    /\ pc' = IF Pick = None THEN "sleep" ELSE "look"
    /\ UNCHANGED <<node, visible, pass, env, wait>>

Sleep ==
    /\ pc = "sleep"
    /\ wait' = wait - 1
    /\ pc' = "look"
    /\ UNCHANGED <<node, visible, pass, env, mode>>

\* No mode, or one that has no script, ends in a shell: the trap of init.
GiveUp ==
    /\ pc = "look" /\ ~Looping
    /\ mode \notin Scripts
    /\ pc' = "rescue"
    /\ UNCHANGED <<node, visible, pass, env, mode, wait>>

\* init runs the script of a mode other than `disk` and then the system.
Run ==
    /\ pc = "look" /\ ~Looping
    /\ mode \in Scripts \ {"disk"}
    /\ pc' = "running"
    /\ UNCHANGED <<node, visible, pass, env, mode, wait>>

\* mode-disk mounts the partition by its label, which fails when it is not
\* there, and execs init from it.
EnterDisk ==
    /\ pc = "look" /\ ~Looping
    /\ mode = "disk"
    /\ IF visible
       THEN /\ pass' = 2 /\ env' = "local"
            /\ mode' = None
            /\ pc' = "parse"
       ELSE /\ pc' = "rescue"
            /\ UNCHANGED <<pass, env, mode>>
    /\ UNCHANGED <<node, visible, wait>>

\* A node that runs, or waits for its operator, has booted.
Booted ==
    /\ pc \in {"running", "rescue"}
    /\ UNCHANGED vars

Script == Parse \/ Look \/ Sleep \/ GiveUp \/ Run \/ EnterDisk

Next == Appear \/ Script \/ Booted

\* The scripts are the only process of the node.  Nothing is assumed of the
\* disk: it may take as long as it likes.
Spec == Init /\ [][Next]_vars /\ WF_vars(Script)

----------------------------------------------------------------------------
\* Properties.

TypeOK ==
    /\ node \in Nodes
    /\ visible \in BOOLEAN
    /\ pass \in {1, 2} /\ env \in {None, "local"}
    /\ mode \in CmdlineModes \cup FallbackModes \cup Scripts \cup {None}
    /\ wait \in 0 .. WaitSeconds
    /\ pc \in {"parse", "look", "sleep", "running", "rescue"}

\* A partition that is there while a turn of the loop is still to come is booted, by
\* the second pass in mode local, whatever the fallback is, if the command line does
\* not ask for something else.  The last second of the wait is not followed by a turn.
TurnAhead ==
    \/ pc = "parse"
    \/ pc = "look" /\ Looping
    \/ pc = "sleep" /\ wait > 1

BootsItsDisk ==
    pass = 1 /\ TurnAhead /\ visible /\ node.cmdline = None
        ~> pc = "running" /\ pass = 2 /\ mode = "local"

\* Every boot ends: in a running system or with a shell for the operator.  With
\* k3os.mode=disk the second pass obeys the command line again and the node enters
\* the partition over and over.
BootEnds == node.cmdline # "disk" ~> pc \in {"running", "rescue"}

\* README.md, "Automated Installation", k3os.fallback_mode: the installation, which
\* formats the disk, is run if a valid K3OS_STATE partition is not found.  `mode`
\* falls back in the first turn of its loop: it waits for the disk only if there is
\* no fallback.
FallbackOnlyWithoutState ==
    pc = "running" /\ mode = "install" /\ node.cmdline # "install" => ~node.attached
====
