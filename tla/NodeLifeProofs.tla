---- MODULE NodeLifeProofs ----
(***************************************************************************)
(* What TLAPS proves of the life of a node, for any number of power cuts   *)
(* and any /sbin/init of the distribution it takes over.                   *)
(***************************************************************************)
EXTENDS NodeLife, TLAPS

\* The steps of install.sh once all files are there, and those of a boot from the partition.
Filled == {"config", "mark", "markPower", "grub", "grubWritten", "opt"}
Booting == {"mounts", "k3os", "init", "k3s", "takeover", "unlink", "delete", "forget", "finish",
            "reset", "reset2", "pivot"}
Places == {"up", "format", "mkfs", "extract", "off", "reboot", "running", "stuck"}
          \cup Filled \cup Booting

\* A script does not go on before everything is on the disk.
FilledInv == at \in Places /\ (at \in Filled => Installed)

\* A disk that was formatted has nothing to take over.
FormatInv ==
    ~node.takeover => /\ part.foreign = {} /\ ~Marked("takeover")
                      /\ at \notin {"unlink", "delete", "forget", "finish"}

\* On a node that is taken over grub.cfg tells how far the installation got: only one of k3OS
\* boots the partition, and with it everything is there, unless install.sh began again, and
\* the takeover is over or marked.
TakeoverInv ==
    node.takeover =>
        /\ at \in {"format", "extract"} /\ part.grub = "k3os" => again
        /\ at \in {"markPower", "grub", "grubWritten"} => Marked("takeover")
        /\ at \in Booting \cup {"running"} => part.grub = "k3os"
        /\ part.grub = "k3os" =>
               /\ Installed \/ again
               /\ Marked("takeover") \/ part.foreign \subseteq {"dotfiles"}
        /\ at # "mkfs"

\* Where the marker of the takeover is gone, and where the one of the reset cannot be.
MarkerInv ==
    /\ at \in {"forget", "finish", "reset", "reset2", "pivot", "running"} => ~Marked("takeover")
    /\ at \in {"unlink", "delete", "forget"} => Marked("factory-reset")

\* Data that is to be forgotten is marked so until it is gone.
DataInv ==
    /\ part.data = "old" => ToReset \/ Marked("takeover")
    /\ at \in {"reset2", "pivot", "running"} => part.data # "old"

LifeInv == TypeOK /\ FilledInv /\ FormatInv /\ TakeoverInv /\ MarkerInv /\ DataInv

----------------------------------------------------------------------------

LEMMA InitInv == Init => LifeInv
  <1> SUFFICES ASSUME Init PROVE LifeInv
    OBVIOUS
  <1>1. node \in Nodes /\ cuts \in 0 .. MaxCuts /\ at = "up" /\ again = FALSE
    BY NodeDiskAssumption DEF Init
  <1>2. CASE node.takeover
    <2>1. PICK sbin \in {"link", "directory"}, init \in Inits : part = Distribution(sbin, init)
      BY <1>2 DEF Init
    <2>2. TypeOK /\ part.data = "none" /\ part.grub = "foreign"
      BY <1>1, <2>1, NodeDiskAssumption DEF TypeOK, Distribution, Empty, Nothing, ItemType, Items,
          Markers, Foreign, InitKinds
    <2>. QED
      BY <1>1, <1>2, <2>2 DEF LifeInv, FilledInv, FormatInv, TakeoverInv, MarkerInv, DataInv,
          Places, Filled, Booting
  <1>3. CASE ~node.takeover
    <2>1. part = Empty
      BY <1>3 DEF Init
    <2>2. TypeOK /\ part.data = "none" /\ part.foreign = {} /\ part.markers = {}
      BY <1>1, <2>1 DEF TypeOK, Empty, Nothing, ItemType, Items, Markers, Foreign, InitKinds
    <2>. QED
      BY <1>1, <1>3, <2>2 DEF LifeInv, FilledInv, FormatInv, TakeoverInv, MarkerInv, DataInv,
          Places, Filled, Booting, Marked
  <1>. QED
    BY <1>2, <1>3

\* Making the link to a component, or removing it.
LEMMA LinkType ==
    ASSUME NEW items \in [Items -> ItemType], NEW i \in Items, NEW b \in BOOLEAN
    PROVE  [items EXCEPT ![i].linked = b] \in [Items -> ItemType]
  BY DEF ItemType

\* The types.
LEMMA TypeStep == ASSUME TypeOK, [Next]_vars PROVE TypeOK'
  <1> USE NodeDiskAssumption DEF TypeOK, ItemType, Items, Markers, Foreign, InitKinds, Leap, Step
  <1>1. CASE Wipe
    BY <1>1 DEF Wipe, Empty, Nothing
  <1>2. CASE Mkfs
    BY <1>2 DEF Mkfs
  <1>3. CASE Relabel
    BY <1>3 DEF Relabel
  <1>4. ASSUME NEW i \in Items, ExtractFile(i) PROVE TypeOK'
    BY <1>4 DEF ExtractFile
  <1>5. ASSUME NEW i \in Items, ExtractLink(i) PROVE TypeOK'
    <2>1. part' = [part EXCEPT !.items[i].linked = ~@] /\ UNCHANGED <<node, cuts, again>>
      BY <1>5 DEF ExtractLink
    <2>2. part.items[i].linked \in BOOLEAN /\ part.items \in [Items -> ItemType]
      OBVIOUS
    <2>3. PICK b \in BOOLEAN : b = ~part.items[i].linked
      BY <2>2
    <2>4. part' = [part EXCEPT !.items[i].linked = b]
      BY <2>1, <2>3
    <2>5. part'.items = [part.items EXCEPT ![i].linked = b]
      BY <2>4
    <2>6. part'.items \in [Items -> ItemType]
      BY <2>2, <2>5, LinkType
    <2>. QED
      BY <2>1, <2>6
  <1>6. CASE Extracted
    BY <1>6 DEF Extracted
  <1>7. CASE Configured
    BY <1>7 DEF Configured, Nodes
  <1>8. CASE InstallFails
    BY <1>8 DEF InstallFails, Installing
  <1>9. CASE MarkTakeover
    BY <1>9 DEF MarkTakeover
  <1>10. CASE MarkPowerOff
    BY <1>10 DEF MarkPowerOff
  <1>11. CASE OpenGrub
    BY <1>11 DEF OpenGrub
  <1>12. CASE InstallGrub
    BY <1>12 DEF InstallGrub
  <1>13. CASE CreateOpt
    BY <1>13 DEF CreateOpt
  <1>14. CASE Grow
    BY <1>14 DEF Grow
  <1>15. CASE CopyK3os
    BY <1>15 DEF CopyK3os
  <1>16. CASE LinkK3os
    <2>1. /\ part' = [part EXCEPT !.items["k3os"].linked = TRUE]
          /\ UNCHANGED <<node, cuts, again>>
      BY <1>16 DEF LinkK3os
    <2>2. part'.items \in [Items -> ItemType]
      BY <2>1, LinkType
    <2>. QED
      BY <2>1, <2>2
  <1>17. CASE KeepK3os
    BY <1>17 DEF KeepK3os
  <1>18. CASE SetupInit
    BY <1>18 DEF SetupInit
  <1>19. CASE SetupK3s
    <2>1. PICK b \in BOOLEAN : part' = [part EXCEPT !.items["k3s"].linked = b]
      BY <1>19 DEF SetupK3s
    <2>. QED
      BY <1>19, <2>1 DEF SetupK3s
  <1>20. CASE NoTakeover
    BY <1>20 DEF NoTakeover
  <1>21. CASE BeginTakeover
    BY <1>21 DEF BeginTakeover, TakeoverForgetsData
  <1>22. CASE UnlinkSbin
    BY <1>22 DEF UnlinkSbin
  <1>23. ASSUME NEW f \in DOMAIN Earlier, Delete(f) PROVE TypeOK'
    BY <1>23 DEF Delete, Earlier
  <1>24. CASE Deleted
    BY <1>24 DEF Deleted
  <1>25. CASE ForgetData
    BY <1>25 DEF ForgetData
  <1>26. CASE FinishTakeover
    BY <1>26 DEF FinishTakeover
  <1>27. CASE Reset
    BY <1>27 DEF Reset
  <1>28. CASE DropFactoryReset
    BY <1>28 DEF DropFactoryReset
  <1>29. CASE NoReset
    BY <1>29 DEF NoReset
  <1>30. CASE Pivot
    BY <1>30 DEF Pivot
  <1>31. CASE StartInstall
    BY <1>31 DEF StartInstall
  <1>32. CASE PowerOn
    BY <1>32 DEF PowerOn
  <1>33. CASE TurnOff
    BY <1>33 DEF TurnOff
  <1>34. CASE LosePower
    BY <1>34 DEF LosePower
  <1>35. CASE Stuck
    BY <1>35 DEF Stuck, vars
  <1>36. ASSUME NEW m \in {"factory-reset", "ephemeral"}, Request(m) PROVE TypeOK'
    BY <1>36 DEF Request
  <1>37. CASE UNCHANGED vars
    BY <1>37 DEF vars
  <1>. QED
    BY <1>1, <1>2, <1>3, <1>4, <1>5, <1>6, <1>7, <1>8, <1>9, <1>10, <1>11, <1>12, <1>13, <1>14,
        <1>15, <1>16, <1>17, <1>18, <1>19, <1>20, <1>21, <1>22, <1>23, <1>24, <1>25, <1>26,
            <1>27, <1>28, <1>29, <1>30, <1>31, <1>32, <1>33, <1>34, <1>35, <1>36,
                <1>37 DEF Next, InstallStep, BootStep

\* install.sh.
LEMMA InstallInv == ASSUME LifeInv, TypeOK', InstallStep PROVE LifeInv'
  <1> USE DEF LifeInv, FilledInv, FormatInv, TakeoverInv, MarkerInv, DataInv, Places, Filled,
      Booting,
              Marked, ToReset, Installed, Leap, Step, TypeOK
  <1>1. CASE Wipe
    BY <1>1 DEF Wipe, Empty, Nothing
  <1>2. CASE Mkfs
    BY <1>2 DEF Mkfs
  <1>3. CASE Relabel
    BY <1>3 DEF Relabel
  <1>4. ASSUME NEW i \in Items, ExtractFile(i) PROVE LifeInv'
    BY <1>4 DEF ExtractFile
  <1>5. ASSUME NEW i \in Items, ExtractLink(i) PROVE LifeInv'
    BY <1>5 DEF ExtractLink
  <1>6. CASE Extracted
    BY <1>6 DEF Extracted
  <1>7. CASE Configured
    BY <1>7 DEF Configured, Nodes
  <1>8. CASE InstallFails
    BY <1>8 DEF InstallFails, Installing
  <1>9. CASE MarkTakeover
    BY <1>9 DEF MarkTakeover
  <1>10. CASE MarkPowerOff
    BY <1>10 DEF MarkPowerOff
  <1>11. CASE OpenGrub
    BY <1>11 DEF OpenGrub
  <1>12. CASE InstallGrub
    BY <1>12 DEF InstallGrub
  <1>13. CASE CreateOpt
    BY <1>13 DEF CreateOpt
  <1>. QED
    BY <1>1, <1>2, <1>3, <1>4, <1>5, <1>6, <1>7, <1>8, <1>9, <1>10, <1>11, <1>12,
        <1>13 DEF InstallStep

\* mode-disk.
LEMMA BootInv == ASSUME LifeInv, TypeOK', BootStep PROVE LifeInv'
  <1> USE DEF LifeInv, FilledInv, FormatInv, TakeoverInv, MarkerInv, DataInv, Places, Filled,
      Booting,
              Marked, ToReset, Installed, Leap, Step, TypeOK
  <1>1. CASE Grow
    BY <1>1 DEF Grow
  <1>2. CASE CopyK3os
    BY <1>2 DEF CopyK3os, Resolves, Complete, Items, ItemType
  <1>3. CASE LinkK3os
    BY <1>3 DEF LinkK3os, Resolves, Complete, Items, ItemType
  <1>4. CASE KeepK3os
    BY <1>4 DEF KeepK3os
  <1>5. CASE SetupInit
    BY <1>5 DEF SetupInit
  <1>6. CASE SetupK3s
    BY <1>6 DEF SetupK3s, Complete, Items, ItemType
  <1>7. CASE NoTakeover
    BY <1>7 DEF NoTakeover
  <1>8. CASE BeginTakeover
    BY <1>8 DEF BeginTakeover, TakeoverForgetsData
  <1>9. CASE UnlinkSbin
    BY <1>9 DEF UnlinkSbin
  <1>10. ASSUME NEW f \in DOMAIN Earlier, Delete(f) PROVE LifeInv'
    BY <1>10 DEF Delete, Earlier
  <1>11. CASE Deleted
    BY <1>11 DEF Deleted
  <1>12. CASE ForgetData
    BY <1>12 DEF ForgetData
  <1>13. CASE FinishTakeover
    BY <1>13 DEF FinishTakeover
  <1>14. CASE Reset
    BY <1>14 DEF Reset
  <1>15. CASE DropFactoryReset
    BY <1>15 DEF DropFactoryReset
  <1>16. CASE NoReset
    BY <1>16 DEF NoReset
  <1>17. CASE Pivot
    BY <1>17 DEF Pivot, Starts
  <1>. QED
    BY <1>1, <1>2, <1>3, <1>4, <1>5, <1>6, <1>7, <1>8, <1>9, <1>10, <1>11, <1>12, <1>13, <1>14,
        <1>15, <1>16, <1>17 DEF BootStep

\* The operator, the power and the boot loader.
LEMMA NodeInv ==
    ASSUME LifeInv, TypeOK',
           \/ StartInstall \/ PowerOn \/ TurnOff \/ LosePower \/ Stuck
           \/ \E m \in {"factory-reset", "ephemeral"} : Request(m)
    PROVE  LifeInv'
  <1> USE DEF LifeInv, FilledInv, FormatInv, TakeoverInv, MarkerInv, DataInv, Places, Filled,
      Booting,
              Marked, ToReset, Installed, Leap, Step, TypeOK
  <1>1. CASE StartInstall
    BY <1>1 DEF StartInstall
  <1>2. CASE PowerOn
    <2>1. /\ at \in {"off", "reboot"} /\ at' = BootsTo /\ UNCHANGED <<node, cuts, again>>
          /\ part' = [part EXCEPT !.data = "old"] \/ part' = part
          /\ part' # part => ToReset \/ Marked("takeover")
      BY <1>2 DEF PowerOn
    <2>2. /\ BootsTo \in {"mounts", "up", "stuck"}
          /\ node.takeover /\ BootsTo = "mounts" => part.grub = "k3os"
      BY DEF BootsTo, KernelUp, Nodes
    <2>3. /\ part'.items = part.items /\ part'.grub = part.grub /\ part'.markers = part.markers
          /\ part'.foreign = part.foreign
      BY <2>1
    <2>. QED
      BY <2>1, <2>2, <2>3
  <1>3. CASE TurnOff
    BY <1>3 DEF TurnOff
  <1>4. CASE LosePower
    BY <1>4 DEF LosePower
  <1>5. CASE Stuck
    BY <1>5 DEF Stuck, vars
  <1>6. ASSUME NEW m \in {"factory-reset", "ephemeral"}, Request(m) PROVE LifeInv'
    BY <1>6 DEF Request
  <1>. QED
    BY <1>1, <1>2, <1>3, <1>4, <1>5, <1>6

LEMMA NextInv == LifeInv /\ [Next]_vars => LifeInv'
  <1> SUFFICES ASSUME LifeInv, [Next]_vars PROVE LifeInv'
    OBVIOUS
  <1>1. TypeOK'
    BY TypeStep DEF LifeInv
  <1>2. CASE Next
    BY <1>1, <1>2, InstallInv, BootInv, NodeInv DEF Next
  <1>3. CASE UNCHANGED vars
    BY <1>3 DEF vars, LifeInv, TypeOK, FilledInv, FormatInv, TakeoverInv, MarkerInv, DataInv,
        Installed, Marked, ToReset
  <1>. QED
    BY <1>2, <1>3

\* Only three steps take a file away, and none before the node boots k3OS.
LEMMA DeletesStep ==
    ASSUME LifeInv, [Next]_vars, part'.foreign # part.foreign
    PROVE  part.grub = "k3os" /\ (Installed \/ again)
  <1>1. \/ Wipe \/ UnlinkSbin \/ \E f \in DOMAIN Earlier : Delete(f)
    <2> USE DEF Leap, Step, LifeInv, TypeOK
    <2>1. CASE InstallStep
      BY <2>1 DEF InstallStep, Mkfs, Relabel, Extracted, Configured, InstallFails, MarkTakeover,
          MarkPowerOff, OpenGrub, InstallGrub, CreateOpt, ExtractFile, ExtractLink
    <2>2. CASE BootStep
      BY <2>2 DEF BootStep, Grow, CopyK3os, LinkK3os, KeepK3os, SetupInit, SetupK3s, NoTakeover,
          BeginTakeover, Deleted, ForgetData, FinishTakeover, Reset, DropFactoryReset, NoReset,
              Pivot, TakeoverForgetsData
    <2>3. CASE StartInstall \/ PowerOn \/ TurnOff \/ LosePower \/ Stuck
                 \/ \E m \in {"factory-reset", "ephemeral"} : Request(m)
      BY <2>3 DEF StartInstall, PowerOn, TurnOff, LosePower, Stuck, Request, vars
    <2>4. CASE UNCHANGED vars
      BY <2>4 DEF vars
    <2>. QED
      BY <2>1, <2>2, <2>3, <2>4 DEF Next
  <1>2. CASE Wipe
    BY <1>2 DEF Wipe, Empty, LifeInv, FormatInv
  <1>3. CASE UnlinkSbin \/ \E f \in DOMAIN Earlier : Delete(f)
    <2>1. at \in {"unlink", "delete"}
      BY <1>3 DEF UnlinkSbin, Delete, Leap, Step
    <2>. QED
      BY <2>1 DEF LifeInv, FormatInv, TakeoverInv, Booting
  <1>. QED
    BY <1>1, <1>2, <1>3

----------------------------------------------------------------------------

\* The inductive invariant of the life of a node.
THEOREM LifeInvariant == Spec => []LifeInv
  BY InitInv, NextInv, PTL DEF Spec

\* mode-disk, factory-reset and takeover: data that a boot was to forget is gone when the
\* system runs, however often the power was lost on the way.
THEOREM ForgottenWhenReset == Spec => []ResetForgets
  <1>1. LifeInv => ResetForgets
    BY DEF LifeInv, DataInv, ResetForgets
  <1>. QED
    BY <1>1, LifeInvariant, PTL

\* mode-disk, takeover: a node that was taken over runs without the files of the distribution.
THEOREM AlwaysRunsAlone == Spec => []RunsAlone
  <1>1. LifeInv => RunsAlone
    BY DEF LifeInv, TypeOK, FormatInv, TakeoverInv, MarkerInv, Booting, RunsAlone
  <1>. QED
    BY <1>1, LifeInvariant, PTL

\* install.sh and mode-disk together: nothing of the distribution is deleted before the node
\* boots k3OS, and k3OS is all there unless a further install.sh was to replace it.
THEOREM DeletesWhenInstalled == Spec => DeletesOnlyWhenInstalled
  <1>1. LifeInv /\ [Next]_vars =>
            [part'.foreign # part.foreign => part.grub = "k3os" /\ (Installed \/ again)]_vars
    BY DeletesStep
  <1>. QED
    BY <1>1, LifeInvariant, PTL DEF Spec, DeletesOnlyWhenInstalled
====
