---- MODULE NodeDisk ----
(***************************************************************************)
(* The K3OS_STATE partition of a node, as install.sh and mode-disk see it. *)
(*                                                                         *)
(* Everything that decides what a boot does is on the partition: its       *)
(* label, the three components, marker files and `sbin/init`.  The two     *)
(* scripts change it step by step, and the node may lose power after any   *)
(* step.                                                                   *)
(***************************************************************************)
EXTENDS Naturals

CONSTANTS MaxCuts,      \* bound on the power cuts
          Inits         \* what /sbin/init may be on a root that is taken over

Items == {"k3os", "k3s", "kernel"}
Markers == {"growpart", "takeover", "poweroff", "factory-reset", "ephemeral"}

\* The files of another distribution: top-level ones, top-level ones whose name
\* begins with a dot, the programs in /sbin, kernels and the like in /boot.
Foreign == {"tree", "dotfiles", "sbin", "boot"}

\* /sbin/init of another distribution is a file or a link that leads nowhere when
\* it is followed from the initrd (absolute) or that does lead to its target.
InitKinds == {"file", "absolute", "relative"}

ASSUME NodeDiskAssumption == MaxCuts \in Nat /\ Inits \subseteq InitKinds

VARIABLES
    node,   \* what the operator asked of the node
    part,   \* the partition
    at,     \* the next step of the script that runs, or what the node is doing
    cuts,   \* the power cuts so far
    again   \* install.sh was started over a finished installation and has not extracted
            \* everything since (seen by the properties only)

vars == <<node, part, at, cuts, again>>

\* takeover: install over a running root (--takeover --no-format), else format.
\* power: --poweroff.  config: --config.  iso: the ISO is in the drive, and the
\* node boots from it first.
Nodes == {n \in [takeover : BOOLEAN, power : BOOLEAN, config : BOOLEAN, iso : BOOLEAN] :
              n.takeover => ~n.iso}

Nothing == [file |-> "absent", linked |-> FALSE]
Complete == [file |-> "whole", linked |-> TRUE]

\* A file system that was just made, and one that holds another distribution.
Empty ==
    [ label |-> FALSE, items |-> [i \in Items |-> Nothing], grub |-> "none",
      config |-> FALSE, markers |-> {}, data |-> "none", foreign |-> {},
      sbin |-> "none", init |-> "none" ]
Distribution(sbin, init) ==
    [Empty EXCEPT !.grub = "foreign", !.foreign = Foreign, !.sbin = sbin,
                  !.init = init]

\* current/<program> exists.
Resolves(i) == part.items[i].linked /\ part.items[i].file # "absent"

Marked(m) == m \in part.markers

\* A script goes from one step to the next.
Leap(from, to) == at = from /\ at' = to /\ UNCHANGED <<node, cuts>>
Step(from, to) == Leap(from, to) /\ UNCHANGED again

\* Every file is on the disk, every link is in place.
Installed == \A i \in Items : part.items[i] = Complete
====
