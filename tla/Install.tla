---- MODULE Install ----
(***************************************************************************)
(* install.sh: the order in which it makes, labels and fills the partition *)
(* and makes the node boot from it.  It runs on a live system (format) or  *)
(* on the root it will take over.                                          *)
(***************************************************************************)
EXTENDS NodeDisk

\* do_format: the partition table is overwritten, then the file system is made,
\* which gives it its label.  --no-format only sets the label.
Wipe ==
    /\ ~node.takeover
    /\ Step("format", "mkfs")
    /\ part' = Empty

Mkfs ==
    /\ Step("mkfs", "extract")
    /\ part' = [part EXCEPT !.label = TRUE]

Relabel ==
    /\ node.takeover
    /\ Step("format", "extract")
    /\ part' = [part EXCEPT !.label = TRUE]

\* do_copy: tar extracts the files and links of the components in any order, over
\* what an earlier attempt left: a file or link that is there is removed first.
ExtractFile(i) ==
    /\ Step("extract", "extract")
    /\ part' = [part EXCEPT !.items[i].file =
                    IF part.items[i].file = "partial" THEN "whole" ELSE "partial"]

ExtractLink(i) ==
    /\ Step("extract", "extract")
    /\ part' = [part EXCEPT !.items[i].linked = ~@]

ExtractedUnseen ==
    /\ Leap("extract", "config") /\ again' = FALSE
    /\ part' = [part EXCEPT !.markers = IF node.takeover THEN @ ELSE @ \cup {"growpart"}]
Extracted ==
    /\ Installed
    /\ Leap("extract", "config") /\ again' = FALSE
    /\ part' = [part EXCEPT !.markers = IF node.takeover THEN @ ELSE @ \cup {"growpart"}]

Configured ==
    /\ Step("config", "mark")
    /\ part' = [part EXCEPT !.config = node.config]

MarkTakeover ==
    /\ Step("mark", IF node.takeover /\ node.power THEN "markPower" ELSE "grub")
    /\ part' = [part EXCEPT !.markers = IF node.takeover THEN @ \cup {"takeover"} ELSE @]

MarkPowerOff ==
    /\ Step("markPower", "grub")
    /\ part' = [part EXCEPT !.markers = @ \cup {"poweroff"}]

\* install_grub: grub.cfg is overwritten in place; a format install then installs
\* grub itself.
OpenGrub ==
    /\ Step("grub", "grubWritten")
    /\ part' = [part EXCEPT !.grub = "partial"]

InstallGrub ==
    /\ Step("grubWritten", "opt")
    /\ part' = [part EXCEPT !.grub = "k3os"]

\* create_opt; then the script reboots the node or turns it off.  With the device as an
\* argument, or CTRL+C in the last five seconds, it ends and the node stays up.
CreateOpt ==
    /\ \E s \in {"off", "up"} : Step("opt", s)
    /\ part' = [part EXCEPT !.data = "new"]

\* set -e: whatever fails ends the script and leaves the node up with what was done so
\* far.  A download that get_url gave up on shows when chmod finds no file.
Installing == {"format", "mkfs", "extract", "config", "mark", "markPower", "grub", "grubWritten", "opt"}
InstallFails ==
    /\ \E s \in Installing : Step(s, "up")
    /\ UNCHANGED part

InstallStep ==
    \/ Wipe \/ Mkfs \/ Relabel
    \/ \E i \in Items : ExtractFile(i) \/ ExtractLink(i)
    \/ Extracted \/ Configured
    \/ MarkTakeover \/ MarkPowerOff \/ OpenGrub \/ InstallGrub \/ CreateOpt
    \/ InstallFails
====
