---- MODULE DiskBoot ----
(***************************************************************************)
(* mode-disk: what the first pass of a boot from the K3OS_STATE partition  *)
(* does to it before it runs the second one from there.  It finds the      *)
(* partition in whatever state install.sh, an upgrade, the operator or an  *)
(* earlier boot that lost power left.                                      *)
(***************************************************************************)
EXTENDS NodeDisk

\* setup_mounts: growing the partition may fail, the marker goes all the same.
Grow ==
    /\ Step("mounts", "k3os")
    /\ part' = [part EXCEPT !.markers = @ \ {"growpart"}]

\* setup_k3os: a missing k3os is copied from the initrd, under another name first,
\* and then linked.
CopyK3os ==
    /\ ~Resolves("k3os") /\ part.items["k3os"].file = "absent"
    /\ Step("k3os", "k3os")
    /\ part' = [part EXCEPT !.items["k3os"].file = "whole"]

LinkK3os ==
    /\ ~Resolves("k3os") /\ part.items["k3os"].file # "absent"
    /\ Step("k3os", "init")
    /\ part' = [part EXCEPT !.items["k3os"].linked = TRUE]

KeepK3os ==
    /\ Resolves("k3os")
    /\ Step("k3os", "init")
    /\ UNCHANGED part

\* setup_init: -e follows the link, from the root of the initrd.
InitLinked == part.init # "none"
HasInit ==
    \/ part.init \in {"k3os", "file"}
    \/ part.init = "relative" /\ "tree" \in part.foreign

SetupInit ==
    /\ Step("init", "k3s")
    /\ part' = IF HasInit THEN part
               ELSE [part EXCEPT !.init = "k3os",
                                 !.sbin = IF @ = "none" THEN "directory" ELSE @]

\* setup_k3s: without a current k3s any version that is there is linked.
SetupK3s ==
    /\ Step("k3s", "takeover")
    /\ part' = [part EXCEPT !.items["k3s"].linked =
                    part.items["k3s"].linked \/ part.items["k3s"].file # "absent"]

\* takeover: everything but /boot, /k3os and parts of /sbin is deleted.  A /sbin that
\* is a link into /usr goes first and takes sbin/init with it.
TakeoverKeepsData == part
TakeoverForgetsData == [part EXCEPT !.markers = @ \cup {"factory-reset"}]

NoTakeover ==
    /\ ~Marked("takeover")
    /\ Step("takeover", "reset")
    /\ UNCHANGED part

BeginTakeover ==
    /\ Marked("takeover")
    /\ Step("takeover", "unlink")
    /\ part' = TakeoverForgetsData

UnlinkSbin ==
    /\ Step("unlink", "delete")
    /\ part' = IF part.sbin # "link" THEN part
               ELSE [part EXCEPT !.sbin = "none", !.init = "none", !.foreign = @ \ {"sbin"}]

\* The loops over the globs; a name that begins with a dot matches none.
Earlier == [tree |-> {}, sbin |-> {"tree"}, boot |-> {"tree", "sbin"}]
Delete(f) ==
    /\ f \in part.foreign /\ Earlier[f] \cap part.foreign = {}
    /\ Step("delete", "delete")
    /\ part' = [part EXCEPT !.foreign = @ \ {f}]

DeletedUnseen ==
    /\ Step("delete", "forget")
    /\ part' = [part EXCEPT !.markers = @ \ {"takeover"}]
Deleted ==
    /\ part.foreign \subseteq {"dotfiles"}
    /\ Step("delete", "forget")
    /\ part' = [part EXCEPT !.markers = @ \ {"takeover"}]

ForgetData ==
    /\ Step("forget", "finish")
    /\ part' = [part EXCEPT !.data = "none"]

FinishTakeover ==
    /\ Step("finish", IF Marked("poweroff") THEN "off" ELSE "reboot")
    /\ part' = [part EXCEPT !.markers = @ \ {"poweroff"}]

\* A reset, asked for or as after every boot of an ephemeral node: rm removes the
\* data and then the marker.
ToReset == part.markers \cap {"factory-reset", "ephemeral"} # {}

Reset ==
    /\ ToReset
    /\ Step("reset", "reset2")
    /\ part' = [part EXCEPT !.data = "none"]

DropFactoryReset ==
    /\ Step("reset2", "pivot")
    /\ part' = [part EXCEPT !.markers = @ \ {"factory-reset"}]

NoReset ==
    /\ ~ToReset
    /\ Step("reset", "pivot")
    /\ UNCHANGED part

\* pivot_root and exec of the init found there.  k3OS starts if its program is whole
\* and its kernel modules, when there are any, can be mounted (bootstrap).
Starts ==
    /\ part.init = "k3os" /\ part.items["k3os"].file = "whole"
    /\ part.items["kernel"].file # "partial"

Pivot ==
    /\ Step("pivot", IF Starts THEN "running" ELSE "stuck")
    /\ part' = IF Starts /\ part.data = "none" THEN [part EXCEPT !.data = "new"] ELSE part

BootStep ==
    \/ Grow
    \/ CopyK3os \/ LinkK3os \/ KeepK3os \/ SetupInit \/ SetupK3s
    \/ NoTakeover \/ BeginTakeover \/ UnlinkSbin
    \/ \E f \in DOMAIN Earlier : Delete(f)
    \/ Deleted \/ ForgetData \/ FinishTakeover
    \/ Reset \/ DropFactoryReset \/ NoReset \/ Pivot
====
