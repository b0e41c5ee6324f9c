---- MODULE ConfigPhases ----
(***************************************************************************)
(* `k3os config`: the configuration is read and applied in the initrd, in  *)
(* the boot and in the runtime phase of a boot, and when the operator asks *)
(* for it.  pkg/cli/config, pkg/cc, and what the appliers call: command,   *)
(* module, sysctl, hostname, writefile, mode.  The scripts between the     *)
(* phases are overlay/libexec/k3os/{bootstrap,mode-disk,boot} and OpenRC.  *)
(*                                                                         *)
(* A configuration gives each field a sequence of items: the entries of a  *)
(* list, or at most one value.  Applying an item either takes effect or    *)
(* fails.  What an item says is left out, except for k3s.                  *)
(***************************************************************************)
EXTENDS Naturals, FiniteSets, SequencesExt

CONSTANTS
    Image,       \* the configuration of the image and the kernel command line
    Locals,      \* the configurations that the disk may hold
    Userdatas,   \* and those that a cloud may hand out
    Modes,       \* the modes in which the node may boot
    MaxFails, MaxCuts, MaxAgain   \* bounds on failures, power cuts, reruns by hand

K3sFields == {"ServerURL", "Token", "K3sArgs"}
Fields == {"Modules", "Sysctls", "Hostname", "DNS", "Wifi", "Password", "SSHKeys",
           "DataSource", "WriteFiles", "Environment", "Initcmd", "Bootcmd", "Runcmd"}
          \cup K3sFields
Nothing == [f \in Fields |-> << >>]

ASSUME ConfigPhasesAssumption ==
    /\ Modes \subseteq {"local", "live", "install"}
    /\ {Image} \cup Locals \cup Userdatas \subseteq [Fields -> Seq(STRING)]
    /\ MaxFails \in Nat /\ MaxCuts \in Nat /\ MaxAgain \in Nat

VARIABLES
    mode,      \* /run/k3os/mode
    local,     \* config.yaml on the disk
    userdata,  \* /run/config/userdata
    at,        \* the phase that runs or ran last
    stage,     \* "fetch", "read", "apply" or "over"
    cfg,       \* what ReadConfig returned
    doing,     \* the appliers of the phase, from the one that runs
    todo,      \* its items that are left
    tmp,       \* whether a file is being written: its temporary file exists
    log,       \* what took effect in this phase, by applier and item
    failed,    \* what failed in it: appliers, and of WriteFiles the items
    done,      \* the items in effect, by applier; "Temps" are temporary files left behind
    disk,      \* those that outlive the boot
    service,   \* the k3s service file: no command or one
    running,   \* and what k3s runs with
    fails, cuts, again

node == <<mode, local, userdata>>
phase == <<at, stage, cfg>>
work == <<doing, todo, tmp, log, failed>>
effects == <<done, disk, service, running>>
budget == <<fails, cuts, again>>
vars == <<node, phase, work, effects, budget>>

\* RunApply, InstallApply, BootApply, InitApply.
Appliers(p) ==
    CASE p = "initrd" ->
           <<"Modules", "Sysctls", "Hostname", "WriteFiles", "Environment", "Initcmd">>
      [] p = "boot" ->
           <<"DataSource", "Modules", "Sysctls", "Hostname", "DNS", "Wifi", "Password",
             "SSHKeys", "K3SNoRestart", "WriteFiles", "Environment", "Bootcmd">>
      [] p = "runtime" ->
           <<"Modules", "SSHKeys", "WriteFiles", "Environment", "Runcmd", "Install",
             "K3SInstall">>
      [] p = "install" -> <<"K3SWithRestart">>
CommandsFirst(p) ==
    SelectSeq(Appliers(p), LAMBDA a : a \in {"Initcmd", "Bootcmd", "Runcmd"}) \o Appliers(p)
InOrder(p) == Appliers(p)
K3S == {"K3SNoRestart", "K3SInstall", "K3SWithRestart"}
Commands == {"Initcmd", "Bootcmd", "Runcmd"}

\* ReadConfig: a later source that has the field wins.  In the initrd phase of a boot
\* from disk the disk is not mounted yet.
Over(later, earlier) == [f \in Fields |-> IF later[f] = << >> THEN earlier[f] ELSE later[f]]
Visible ==
    IF at = "initrd" /\ mode = "local" THEN Image
    ELSE Over(userdata, Over(local, Image))

\* The command that ApplyK3S has the k3s installer set up.
K3SCommand(c) ==
    [args |-> IF c["K3sArgs"] # << >> THEN c["K3sArgs"]
              ELSE IF c["ServerURL"] = << >> THEN <<"server">> ELSE <<"agent">>,
     url |-> c["ServerURL"], token |-> c["Token"]]
K3SApplies == mode # "install"

\* The items of an applier.  The file for connman has defaults; modules that are loaded
\* are passed over; ApplyInstall opens the dialogue.
Items(c, a) ==
    CASE a \in K3S -> IF K3SApplies THEN <<"k3s">> ELSE << >>
      [] a = "Install" -> IF mode = "install" THEN <<"dialogue">> ELSE << >>
      [] a = "DNS" -> IF c["DNS"] = << >> THEN <<"8.8.8.8">> ELSE c["DNS"]
      [] a = "Modules" -> SelectSeq(c["Modules"], LAMBDA m : ~Contains(done["Modules"], m))
      [] OTHER -> c[a]

\* runApplies: the turn of the first of the appliers.
Turn(c, appliers) ==
    /\ doing' = appliers
    /\ todo' = IF appliers = << >> THEN << >> ELSE Items(c, Head(appliers))

Effects == (Fields \ K3sFields) \cup {"Install", "Temps"}
Fresh == [a \in Effects |-> << >>]

Init ==
    /\ mode \in Modes
    /\ local \in IF mode = "local" THEN Locals ELSE {Nothing}
    /\ userdata = Nothing
    /\ at = "initrd" /\ stage = "read" /\ cfg = Nothing
    /\ doing = << >> /\ todo = << >> /\ tmp = FALSE /\ log = << >> /\ failed = {}
    /\ done = Fresh /\ disk = Fresh /\ service = << >> /\ running = << >>
    /\ fails = 0 /\ cuts = 0 /\ again = 0

(***************************************************************************)
(* One phase: Main and runApplies.                                         *)
(***************************************************************************)

Read ==
    /\ stage = "read"
    /\ stage' = "apply" /\ cfg' = Visible
    /\ Turn(cfg', InOrder(at))
    /\ log' = << >> /\ failed' = {}
    /\ UNCHANGED <<at, tmp, node, effects, budget>>

\* Main gives up.
ReadFails ==
    /\ stage = "read" /\ fails < MaxFails /\ fails' = fails + 1
    /\ stage' = "over" /\ cfg' = Nothing
    /\ log' = << >> /\ failed' = {"ReadConfig"}
    /\ UNCHANGED <<at, doing, todo, tmp, cuts, again, node, effects>>

Applying == stage = "apply" /\ doing # << >>
Current == Head(doing)
InEffect(item) == [done EXCEPT ![Current] = Append(@, item)]
TookEffect(item) == log' = Append(log, <<Current, item>>) /\ done' = InEffect(item)

\* One item of any applier but WriteFiles and k3s.  Lists are taken in order, the
\* sysctls are a Go map.
MayBeNext(i) == i = 1 \/ Current = "Sysctls"
Apply ==
    /\ Applying /\ Current \notin K3S \cup {"WriteFiles"}
    /\ \E i \in DOMAIN todo :
          /\ MayBeNext(i)
          /\ TookEffect(todo[i])
          /\ todo' = RemoveAt(todo, i)
    /\ UNCHANGED <<doing, tmp, failed, disk, service, running, node, phase, budget>>

\* ApplyK3S: the installer writes the service and, if not told to skip that, starts k3s.
StartsAlways == TRUE
Starts == Current # "K3SNoRestart"
K3SInstaller ==
    /\ Applying /\ Current \in K3S /\ todo # << >>
    /\ service' = <<K3SCommand(cfg)>>
    /\ running' = IF Starts THEN service' ELSE running
    /\ todo' = Tail(todo)
    /\ UNCHANGED <<doing, tmp, log, failed, done, disk, node, phase, budget>>

\* An applier returns at the first item that fails, and the next one has its turn.
EndsPhase(appliers) == Turn(cfg, << >>)
After(appliers) == Turn(cfg, Tail(appliers))
Fail ==
    /\ Applying /\ todo # << >> /\ Current # "WriteFiles"
    /\ fails < MaxFails /\ fails' = fails + 1
    /\ failed' = failed \cup {Current}
    /\ After(doing)
    /\ UNCHANGED <<tmp, log, cuts, again, node, phase, effects>>

\* WriteFile: into a temporary file, which takes the place of the old one.
WriteTemp ==
    /\ Applying /\ Current = "WriteFiles" /\ todo # << >> /\ ~tmp
    /\ tmp' = TRUE
    /\ UNCHANGED <<doing, todo, log, failed, node, phase, effects, budget>>

Rename ==
    /\ tmp
    /\ TookEffect(Head(todo))
    /\ tmp' = FALSE /\ todo' = Tail(todo)
    /\ UNCHANGED <<doing, failed, disk, service, running, node, phase, budget>>

\* WriteFiles goes on after a failure.  Content, directory and permissions are looked at
\* before there is a temporary file; a later failure leaves it behind.
FilesAfter(files) == Tail(files)
FileFails ==
    /\ Applying /\ Current = "WriteFiles" /\ todo # << >>
    /\ fails < MaxFails /\ fails' = fails + 1
    /\ failed' = failed \cup {Head(todo)}
    /\ done' = IF tmp THEN [done EXCEPT !["Temps"] = Append(@, Head(todo))] ELSE done
    /\ tmp' = FALSE /\ todo' = FilesAfter(todo)
    /\ UNCHANGED <<doing, log, disk, service, running, cuts, again, node, phase>>

Advance ==
    /\ Applying /\ todo = << >>
    /\ After(doing)
    /\ UNCHANGED <<tmp, log, failed, node, phase, effects, budget>>

Finish ==
    /\ stage = "apply" /\ doing = << >>
    /\ stage' = "over"
    /\ UNCHANGED <<at, cfg, node, work, effects, budget>>

(***************************************************************************)
(* Between the phases.                                                     *)
(***************************************************************************)

\* A boot from disk enters a second root: /etc is new, the kernel is the same, and the
\* disk has what was written below /var and /home.
OfKernel == {"Modules", "Sysctls"}
Kept == {"Wifi", "SSHKeys", "WriteFiles", "Temps"}
SameRoot(d) == d
NewRoot(d) == [a \in Effects |->
                 IF a \in OfKernel THEN d[a] ELSE IF a \in Kept THEN disk[a] ELSE << >>]
EnterRoot ==
    /\ at = "initrd" /\ stage = "over"
    /\ at' = "boot" /\ stage' = "read"
    /\ done' = IF mode = "local" THEN NewRoot(done) ELSE done
    /\ UNCHANGED <<cfg, disk, service, running, node, work, budget>>

\* OpenRC: cloud-config, if the boot script found its settings, runs before ccapply.
Services ==
    /\ at = "boot" /\ stage = "over"
    /\ at' = "runtime"
    /\ stage' = IF done["DataSource"] = << >> THEN "read" ELSE "fetch"
    /\ UNCHANGED <<cfg, node, work, effects, budget>>

CloudConfig ==
    /\ stage = "fetch"
    /\ userdata' \in Userdatas \cup {Nothing}
    /\ stage' = "read"
    /\ UNCHANGED <<mode, local, at, cfg, work, effects, budget>>

\* The service k3s starts after ccapply.
Up == at \in {"runtime", "install"} /\ stage = "over"
StartK3S ==
    /\ Up /\ service # << >> /\ running = << >>
    /\ running' = service
    /\ UNCHANGED <<done, disk, service, node, phase, work, budget>>

\* The operator changes the configuration and has it applied: `k3os config`, or the
\* dialogue, which calls `k3os config --install`.
Again ==
    /\ Up /\ again < MaxAgain /\ again' = again + 1
    /\ local' \in Locals
    /\ at' \in {"runtime", "install"} /\ stage' = "read"
    /\ UNCHANGED <<mode, userdata, cfg, fails, cuts, work, effects>>

PowerCut ==
    /\ cuts < MaxCuts /\ cuts' = cuts + 1
    /\ disk' = IF mode = "local" /\ at # "initrd"
               THEN [done EXCEPT !["Temps"] = IF tmp THEN Append(@, Head(todo)) ELSE @]
               ELSE disk
    /\ local' = IF mode = "local" THEN local ELSE Nothing
    /\ userdata' = Nothing
    /\ at' = "initrd" /\ stage' = "read" /\ cfg' = Nothing
    /\ doing' = << >> /\ todo' = << >> /\ tmp' = FALSE /\ log' = << >> /\ failed' = {}
    /\ done' = Fresh /\ service' = << >> /\ running' = << >>
    /\ UNCHANGED <<mode, fails, again>>

Step == Read \/ Apply \/ K3SInstaller \/ WriteTemp \/ Rename \/ Advance \/ Finish
        \/ EnterRoot \/ Services \/ CloudConfig \/ StartK3S
Next == Step \/ ReadFails \/ Fail \/ FileFails \/ Again \/ PowerCut
Spec == Init /\ [][Next]_vars

----------------------------------------------------------------------------
\* Properties.

TypeOK ==
    /\ mode \in Modes /\ local \in Locals \cup {Nothing}
    /\ userdata \in Userdatas \cup {Nothing}
    /\ at \in {"initrd", "boot", "runtime", "install"}
    /\ stage \in {"fetch", "read", "apply", "over"}
    /\ cfg \in [Fields -> Seq(STRING)]
    /\ doing \in Seq(Effects \cup K3S) /\ todo \in Seq(STRING)
    /\ tmp => doing # << >> /\ Current = "WriteFiles" /\ todo # << >>
    /\ done \in [Effects -> Seq(STRING)] /\ disk \in [Effects -> Seq(STRING)]
    /\ Len(service) <= 1 /\ Len(running) <= 1

\* The entries of an applier in the log of this phase, among the first n, and their items.
Entries(a, n) == {i \in 1 .. n : log[i][1] = a}
Did(a) == {log[i][2] : i \in Entries(a, Len(log))}

\* README: "Commands are ran after `write_files`": a command finds every file of its phase
\* that could be written.  Commands run in the order of the configuration, and none after
\* one that failed.
FilesBeforeCommands ==
    \A i \in DOMAIN log : log[i][1] \in Commands =>
        \A f \in ToSet(cfg["WriteFiles"]) :
            f \in failed \/ \E j \in 1 .. i - 1 : log[j] = <<"WriteFiles", f>>
CommandsInOrder ==
    \A a \in Commands : \A i \in Entries(a, Len(log)) :
        LET n == Cardinality(Entries(a, i)) IN n <= Len(cfg[a]) /\ log[i][2] = cfg[a][n]
CommandsLast == FilesBeforeCommands /\ CommandsInOrder

\* A failure is confined: of the others in the phase every one does all it has to, and
\* of the files each one that can be written is.  Temporary files stay behind only because
\* of a file that failed or a loss of power.
Excused(a, item) == (IF a = "WriteFiles" THEN item ELSE a) \in failed
OthersGoOn ==
    stage = "over" /\ "ReadConfig" \notin failed =>
        \A a \in (ToSet(Appliers(at)) \cap Fields) \ {"Modules"} :
            /\ Did(a) \subseteq ToSet(Items(cfg, a))
            /\ \A item \in ToSet(Items(cfg, a)) : item \in Did(a) \/ Excused(a, item)
TempsFromFailures == Len(done["Temps"]) <= fails + cuts
FailuresConfined == OthersGoOn /\ TempsFromFailures

\* On a node with a disk the boot phase leaves in /etc what the configuration says, and
\* nothing of earlier boots or of the initrd phase.
EtcIsFresh ==
    at = "boot" /\ stage = "over" /\ mode = "local" /\ "ReadConfig" \notin failed =>
        \A a \in {"Hostname", "DNS", "Password", "DataSource"} \ failed :
            done[a] = Items(cfg, a)

\* Without a failure k3s runs in the end as configured, though the boot phase set it up
\* without what the cloud says, and not before there is a network; in the mode install
\* there is none.
K3SAsConfigured ==
    /\ Up /\ failed = {} /\ mode # "install" => running = <<K3SCommand(cfg)>>
    /\ mode = "install" => service = << >>
NotBeforeRuntime == running # << >> => at \in {"runtime", "install"}
K3SInTime == K3SAsConfigured /\ NotBeforeRuntime

\* README, table of the phases: what is marked for the runtime phase is in effect after
\* it, in particular what only the userdata of a cloud has.
DocumentedForRuntime ==
    {"SSHKeys", "WriteFiles", "Hostname", "Runcmd", "Modules", "Sysctls", "DNS", "Wifi",
     "Password", "Environment"}
DocumentedPhases ==
    Up /\ again = 0 /\ fails = 0 =>
        \A a \in DocumentedForRuntime : ToSet(cfg[a]) \subseteq ToSet(done[a])
====
