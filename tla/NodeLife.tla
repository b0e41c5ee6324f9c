---- MODULE NodeLife ----
(***************************************************************************)
(* The life of a node: it is installed (Install), boots from its partition *)
(* (DiskBoot), runs, is told to forget its data, is turned off, and loses  *)
(* power in between.                                                       *)
(***************************************************************************)
EXTENDS Install, DiskBoot

\* A node with an empty disk that booted the live system, or one that runs the
\* distribution it is to take over.
Init ==
    /\ node \in Nodes
    /\ IF node.takeover
       THEN \E sbin \in {"link", "directory"}, init \in Inits : part = Distribution(sbin, init)
       ELSE part = Empty
    /\ at = "up" /\ cuts = 0 /\ again = FALSE

\* The operator, or k3os.mode=install, starts install.sh, maybe not for the first time.
StartInstall ==
    /\ Leap("up", "format") /\ again' = (again \/ part.grub = "k3os")
    /\ UNCHANGED part

\* `up` may be turned off as well as `running`.
TurnOff ==
    /\ \E s \in {"up", "running"} : Step(s, "off")
    /\ UNCHANGED part

\* The operator marks the node to be reset, once or after every boot.
Request(m) ==
    /\ Step("running", "running")
    /\ part' = [part EXCEPT !.markers = @ \cup {m}]

LosePower ==
    /\ at \notin {"off", "reboot", "stuck"} /\ cuts < MaxCuts
    /\ at' = "off" /\ cuts' = cuts + 1
    /\ UNCHANGED <<node, part, again>>

\* What the boot loader finds: the ISO if there is one, else what grub.cfg names.  The
\* live system enters the partition too once it has its label (mode).
DistributionUp == part.grub = "foreign" /\ {"tree", "boot"} \subseteq part.foreign
KernelUp == part.grub = "k3os" /\ part.items["kernel"] = Complete
BootsTo ==
    IF node.iso THEN IF part.label THEN "mounts" ELSE "up"
    ELSE IF KernelUp THEN "mounts"
    ELSE IF DistributionUp THEN "up" ELSE "stuck"

\* Data that this boot is to forget is called old from here on.
PowerOn ==
    /\ \E s \in {"off", "reboot"} : Step(s, BootsTo)
    /\ part' = IF BootsTo = "mounts" /\ part.data = "new" /\ (ToReset \/ Marked("takeover"))
               THEN [part EXCEPT !.data = "old"] ELSE part

\* Nothing more happens until somebody repairs it.
Stuck == at = "stuck" /\ UNCHANGED vars

Next ==
    \/ StartInstall \/ InstallStep
    \/ PowerOn \/ BootStep
    \/ TurnOff \/ LosePower \/ Stuck
    \/ \E m \in {"factory-reset", "ephemeral"} : Request(m)

\* The boot scripts go on, and a node that is off is turned on some day.
Spec == Init /\ [][Next]_vars /\ WF_vars(BootStep) /\ WF_vars(PowerOn)

----------------------------------------------------------------------------
\* Properties.

ItemType == [file : {"absent", "partial", "whole"}, linked : BOOLEAN]

TypeOK ==
    /\ node \in Nodes /\ cuts \in 0 .. MaxCuts /\ again \in BOOLEAN
    /\ part \in
        [ label : BOOLEAN, items : [Items -> ItemType], grub : {"none", "foreign", "partial", "k3os"},
          config : BOOLEAN, markers : SUBSET Markers, data : {"none", "old", "new"},
          foreign : SUBSET Foreign, sbin : {"none", "link", "directory"},
          init : {"none", "k3os"} \cup InitKinds ]
    /\ part.sbin = "none" => part.init = "none" /\ "sbin" \notin part.foreign

\* What a boot was to forget is gone when the system runs, whenever power was lost
\* on the way (mode-disk:112, 137, 158-160).
ResetForgets == at = "running" => part.data # "old"

\* A file of the old distribution is deleted only when the node boots into k3OS and all
\* of k3OS is there to take its place: the marker alone does not delete (install.sh
\* writes grub.cfg last).  One case is excepted: a node that stayed up after a takeover
\* (install.sh:367-369) has the marker and k3OS's grub.cfg, so an install.sh that is run
\* again and ends while it extracts leaves a partial k3OS that the next boot takes over.
DeletesOnlyWhenInstalled ==
    [][part'.foreign # part.foreign => part.grub = "k3os" /\ (Installed \/ again)]_vars

\* A node that was taken over runs without the files of the distribution, unless
\* their names begin with a dot, and its init is the one of k3OS.
RunsAlone ==
    at = "running" => part.foreign \subseteq {"dotfiles"} /\ ~Marked("takeover")

\* A partition that holds all of k3OS leads to a running node, through a takeover
\* or a reset if there is one to do, whatever the power does.
CompleteRuns == at = "mounts" /\ Installed ~> at = "running"

\* README, "Takeover Installation": "will then delete all files on the root partition
\* that are not k3OS".
TakeoverDeletesAll == at = "running" => part.foreign = {}

\* README, "Takeover Installation": "and then shutdown".
TakeoverShutsDown == [][at = "finish" => at' = "off"]_vars

\* README, "Automated Installation": the installation is run if a *valid* K3OS_STATE
\* partition is not found; so what is booted as one is complete.
BootsOnlyInstalled == at = "running" => Installed /\ (node.config => part.config)
====
