---- MODULE VersionStore ----
(***************************************************************************)
(* What /k3os/system promises to the boot loader, to the boot scripts and  *)
(* to the operator, whoever writes to it and however that writer dies.     *)
(*                                                                         *)
(* Every component (k3os, k3s, kernel) has a set of installed versions,    *)
(* versions that were set aside under the name <version>.old, the version  *)
(* `current` names and the version `previous` names.  Only complete        *)
(* versions are ever installed, what is active is installed, and nothing   *)
(* is destroyed.                                                           *)
(***************************************************************************)
CONSTANTS Components,   \* names of the components
          Versions,     \* names of the versions
          None          \* no version, and so no member of Versions: no link

VARIABLES installed,    \* installed[c]: the versions found under their own name
          aside,        \* aside[c]: the versions kept as <version>.old
          active,       \* active[c]: where `current` points
          fallback      \* fallback[c]: where `previous` points

store == <<installed, aside, active, fallback>>

Init ==
    /\ installed \in [Components -> SUBSET Versions]
    /\ aside = [c \in Components |-> {}]
    /\ active \in [Components -> Versions \cup {None}]
    /\ \A c \in Components : active[c] # None => active[c] \in installed[c]
    /\ fallback = [c \in Components |-> None]

\* A complete copy of version v appears under its final name.
Install(c, v) ==
    /\ v \notin installed[c]
    /\ installed' = [installed EXCEPT ![c] = @ \cup {v}]
    /\ UNCHANGED <<aside, active, fallback>>

\* A version that is not active makes room for a new copy of itself.
SetAside(c, v) ==
    /\ v \in installed[c] /\ v \notin aside[c] /\ v # active[c]
    /\ installed' = [installed EXCEPT ![c] = @ \ {v}]
    /\ aside' = [aside EXCEPT ![c] = @ \cup {v}]
    /\ UNCHANGED <<active, fallback>>

\* The new copy could not be put in place: the version set aside returns.
PutBack(c, v) ==
    /\ v \in aside[c] /\ v \notin installed[c]
    /\ installed' = [installed EXCEPT ![c] = @ \cup {v}]
    /\ aside' = [aside EXCEPT ![c] = @ \ {v}]
    /\ UNCHANGED <<active, fallback>>

\* `previous` is renewed in two steps: it is missing in between.
DropFallback(c) ==
    /\ fallback' = [fallback EXCEPT ![c] = None]
    /\ UNCHANGED <<installed, aside, active>>

KeepFallback(c) ==
    /\ fallback[c] = None /\ active[c] # None
    /\ fallback' = [fallback EXCEPT ![c] = active[c]]
    /\ UNCHANGED <<installed, aside, active>>

\* `current` moves, in one step, to a version that is installed.
Activate(c, v) ==
    /\ v \in installed[c]
    /\ active' = [active EXCEPT ![c] = v]
    /\ UNCHANGED <<installed, aside, fallback>>

Next == \E c \in Components :
    \/ DropFallback(c)
    \/ KeepFallback(c)
    \/ \E v \in Versions :
           Install(c, v) \/ SetAside(c, v) \/ PutBack(c, v) \/ Activate(c, v)

Spec == Init /\ [][Next]_store
====
