---- MODULE MCUpgrade ----
(***************************************************************************)
(* Instances of Upgrade for TLC.  A release is written as the versions of  *)
(* k3os, k3s and kernel.                                                   *)
(***************************************************************************)
EXTENDS Upgrade, TLC

CONSTANTS v1, v2, v3, p1, p2

Image(k3os, k3s, kernel) ==
    [c \in Components |->
        CASE c = "k3os" -> k3os [] c = "k3s" -> k3s [] c = "kernel" -> kernel]

\* One component, three versions: upgrades, downgrades, and back again.
OneFactory == Image(v1, None, None)
OneReleases == {Image(v, None, None) : v \in {v1, v2, v3}}
OneRequests == {{"k3os"}, {"k3os", "remount", "sync", "reboot"}}

\* The three components of a node, or the two of an overlay installation, with
\* the arguments of the upgrade plan and of an operator.
OverlayFactory == Image(v1, v1, None)
PlanRequest == {"kernel", "rootfs", "remount", "sync", "reboot"}

\* One image, asked for again and again.
PlanReleases == {Image(v2, v2, v2)}
PlanRequests == {PlanRequest}
====
