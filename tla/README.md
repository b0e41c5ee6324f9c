# A TLA+ model of k3OS

k3OS is a Linux distribution whose only purpose is to run k3s.  Its own code is small: a Go
program (`k3os`, with subcommands for upgrading, configuring and installing), the shell scripts
that run between the kernel and `/sbin/init`, and the installer.  Most of it runs once per boot
or once per installation, as root, with nobody watching, and much of it must work when the power
goes away in the middle.  This directory models that code in TLA+, checks the models with TLC
on small instances, and proves theorems about them with TLAPS.

Contents: [inventory](#inventory) · [plan](#plan) · [modules](#modules) · [runs](#runs) ·
[bounds](#bounds) · [fairness](#fairness) · [proofs](#proofs) · [findings](#findings) ·
[not modelled](#what-is-not-modelled)

## Inventory

Paths are relative to the repository.  "Right" says what makes a component correct.

| component | state it keeps | operations | hard parts |
|---|---|---|---|
| **system upgrade** `pkg/cli/upgrade`, `pkg/system` | `/k3os/system/<component>`: version directories, `current`, `previous`, `current.tmp`, `.old` and temporary directories; a lock file | copy k3os, k3s, kernel from an image; remount, sync, reboot | a crash or error between any two system calls; two runs; deferred undo actions; the job that repeats after its own reboot |
| **upgrade plan and controller** `overlay/share/rancher/k3s/server/manifests` | the Plan, its Jobs, node labels | start the upgrade job on nodes, one at a time, with retries and a deadline | retries of jobs cut short; a job killed by the reboot it asked for |
| **legacy upgrade scripts** `k3os-upgrade-kernel`, `k3os-upgrade-rootfs` | the same directories | download, unpack in place, move `current` | no lock, downloads that fail without an error, no temporary names |
| **boot mode selection** `overlay/init`, `libexec/k3os/mode*` | `MODE`, `K3OS_MODE`, the wait | choose disk, local, live, install or shell | a disk that appears late; two passes that read the same command line |
| **boot from disk** `libexec/k3os/mode-disk` | the K3OS_STATE partition: marker files (`growpart`, `takeover`, `factory-reset`, `ephemeral`, `poweroff`), `k3os/data`, `sbin/init`, links of k3os and k3s | grow, repair links, take over a foreign root, reset, pivot | power cuts between steps; several markers that mean something together |
| **boot environment** `libexec/k3os/{bootstrap,boot,live,functions}` | `/etc` in memory, the name of the node, service links | set up mounts, users, services, call `k3os config` | five steps that set one name in three places, and connman with a name from DHCP; a drawn name that is not flushed |
| **installer script** `install.sh` | the disk | partition, label, copy, write markers and grub.cfg | labelled before it is filled; download retries that end in success; any failing command ends it (`set -e`), with a device as argument it leaves the node up, and it may be run again |
| **installer dialogue** `pkg/cliinstall`, `pkg/questions` | the answers, `/etc/shadow` while a password is hashed, `config.yaml` or a temporary file | ask, write the configuration, call the script | answers and configured settings that stand in for each other; an end anywhere, with secrets on the disk |
| **configuration reading** `pkg/config` | maps from files, the command line and user data | read, rename, coerce, merge, write | the order of the sources; names and types that are converted for some spellings only; maps changed while they are iterated over |
| **configuration phases** `pkg/cc`, `pkg/cli/config`, `pkg/{command,module,sysctl,mode,writefile,hostname}` | the files and services of the running system | initrd, boot, runtime and install phases; which k3s to install and how | one step of several failing; the same step in several phases |
| **authorized keys** `pkg/ssh` | `authorized_keys`, its temporary copy, their owner | fetch and append keys | read, modify, write by two phases, an operator's run and the user's own editor, without a lock |
| **enter root** `pkg/enterchroot` | a loop device, mounts | find the image in the program file, mount it, start the child in it | automatic release of the loop device after a fixed time; errors of attaching and freeing it that nobody sees |
| **transfer root** `pkg/transferroot` | the root in memory | copy the initrd to tmpfs and delete the original | every file exists at least once |
| **rc** `pkg/cli/rc` | mounts, device nodes | early setup | none: a fixed sequence |
| **dispatch, build** `main.go`, `images`, `scripts`, `package` | none | choose the subcommand; build | none |

How they interact.  The installer writes the partition that *boot mode selection* looks for
and *boot from disk* enters; the markers it leaves there are orders to boot from disk.  Grub
loads kernel and initrd through `kernel/current` or `kernel/previous`, and init is
`k3os/current/k3os`: the two links, which *system upgrade* moves, are the interface of the
upgrade to everything that boots.  The controller starts upgrade as a job in a container that
sees the host's `/k3os/system`; the job asks the host to reboot, and starts again afterwards if it
was not recorded as finished.  Configuration runs from bootstrap (initrd phase), boot (boot phase) and
a service (runtime phase), and reads what the installer or an operator wrote.

What makes each part right:

- *system upgrade*: at any instant `current` leads to a complete version, `previous` to the one before;
  nothing is destroyed; a run delivers what it was asked for or says why; the repeated job stops.
- *boot mode selection*: a partition that is there is booted; a rescue boot leaves it alone; the boot ends.
- *boot from disk, installer*: whatever the moment of a power cut, the next boots reach the state that an
  undisturbed run would have reached; a reset forgets the data and keeps the system.
- *configuration*: the last source wins and nothing is dropped in silence but what contradicts an earlier word; a
  failing step does not undo or prevent the others; commands find the files they rely on; k3s runs as configured.
- *authorized keys*: a key is lost only to a write at the same time; the file does not grow and comes back to its user.
- *installer dialogue*: no disk is touched without consent; the installer gets what was asked; nothing secret stays
  unless the very call that would remove it fails.
- *enter root, transfer root*: the device stays until the mount holds it and is freed in the end; a root that is
  entered is complete; no file is lost.
- *the name of the node*: the configuration has the last word of the boot's steps and DHCP the one after it, the three places
  agree but for DHCP, a drawn name is kept.

The hazards of the code, each at its line and with the properties that watch it, are the list `hazards` of
`PROJECT.json`.

## Plan

The order is by what a failure costs: first the disk that a node boots from, then what starts and configures the node.

| step | modules | state |
|---|---|---|
| 1 | **Upgrade** over its abstract specification **VersionStore**; **UpgradeProofs**; **BootMode** | done |
| 2 | **NodeDisk**, **Install**, **DiskBoot**, composed by **NodeLife**; **NodeLifeProofs** | done |
| 3 | **FindRoot**, **TransferRoot**, **EnterRoot**, put together by **Start**; **StartProofs** | done |
| 4 | **Cmdline**, **ConfigRead**, **ConfigWrite**, put together by **Config**; **ConfigProofs**; **ConfigPhases** and **ConfigPhasesProofs** | done |
| 5 | **Hostname**, **AuthorizedKeys**, **InstallDialogue**, each with its proofs | done |
| 6 | every invariant and action property of a run that passes stated by a theorem | done |
| 7 | the moves of BootMode as a safety property (a rescue boot leaves the partition alone), with a proof | open |
| 8 | the upgrade controller with several nodes over VersionStore; DiskBoot composed with Upgrade, whose leftovers `setup_k3s` may pick up | open |

## Modules

### VersionStore: the promise

What `/k3os/system` is to a reader (grub, init, the operator): per component the versions that are
*installed* under their own name, those set *aside* as `<version>.old`, the *active* one (`current`) and the
*fallback* (`previous`).  Its actions are the only changes a reader may ever see: a complete version
appears, a version that is not active is set aside or put back, the fallback is dropped, or renewed from the
active one, and the active version changes in one step to one that is installed.

### Upgrade: the program

`pkg/cli/upgrade/upgrade.go` and `pkg/system/component.go`, one action per system call.

| model | code |
|---|---|
| `fs[c].tree[v]`, `.old[v]` | the directories `<version>` and `<version>.old` of component `c`: absent, partial or whole |
| `fs[c].current`, `.previous`, `.tmp` | where the links `current`, `previous`, `current.tmp` point |
| `fs[c].temp`, `.litter` | the temporary directory made last, and whether older ones were left |
| `pc[p]` | the next system call of process `p` |
| `run[p]` | its arguments, `doRemount`, `atLeastOneComponentCopied`, the component at hand (`key`), whether a deferred rename is registered (`moved`), whether its destination is writable (`rw`) |
| `lock` | `flock` on `--lock-file`, dropped by the kernel when the process dies |
| `shutdown` | `reboot` was called and the node is still up |

`Begin` takes the lock.  `Skip` and `Take` are the comparison at the start of `CopyComponent`; `Remount`, `Link`,
`MkTemp`, `Copy`, `Aside`, `Publish`, `DropPrev`, `KeepPrev` and `Switch` are its calls in order; `UndoOld`,
`UndoTemp` and `UndoLink` are the deferred ones, last in first out, after a success too.  `Finish`, `Reboot` and `Exit`
are the end of `Run`.  `Error` is any of these calls returning an error: because the state of the directory makes it
(`Blocked`: no such directory, read-only, the name exists) or because the node is ill; `ErrorPath` says where the
code goes on from there.  `Kill` ends the process between two calls without its deferred ones; `Restart`
takes the whole node down, on request or by a power cut.

Abstractions.  A version name stands for its content, as in the code, which compares names only.  Copying a tree is
one call that leaves `partial` while it is under way and when it fails.  `chmod` (its error is only logged) and
`sync` change nothing a running system sees.  A version's path is a directory whenever it exists; the branch of
component.go:97 for a plain file in its place is not in the model.  What is written is on the disk at once: the code
orders no data before its renames, so after the loss of unsynced data nothing could be promised.

### BootMode: what boots

`libexec/k3os/mode` with the parts of `overlay/init` and `mode-disk` that lead to it and from it.  `node` is what does
not change during a boot (command line, fallback, root file system, whether there is a state partition), `visible`
whether the kernel has found the partition yet: `Appear` may happen at any time or never.  `Parse`, `Look` and `Sleep`
are the loop of `mode`; `Run` and `GiveUp` its two ends; `EnterDisk` is mode `disk`, which starts the second pass.
Only the last mode given on the command line is modelled, as the script's loop keeps only that.

### NodeDisk, Install, DiskBoot, NodeLife: the partition

NodeDisk is the K3OS_STATE partition as both scripts see it: `part.items[i]` are the files of a component and its
`current` link, `part.markers` the marker files in `/k3os/system`, `part.foreign` what is left of another distribution,
`part.init` what `/sbin/init` is.  `part.data` is `/k3os/data`: it becomes `old` when a boot starts that is to
forget it.  `at` is the next step of the script that runs, or what the node is doing (`up`: a live system or the old
distribution; `running`: k3OS from the partition; `off`, `reboot`, `stuck`).  `again` is a history variable: a node that
stayed up after a takeover has install.sh at work again.

Install is `install.sh` from `do_format` on, both ways it is used: formatting a disk, and over a running root (`--takeover
--no-format`).  tar extracts files and links in any order, and removes what is there first when it runs again.
`InstallFails` is `set -e`: the script may end at any step, a download that failed included, and leaves the node up with
what was done; so it does at its end when the device is an argument (`CreateOpt`, install.sh:367), else the node goes down.  From
`up` the operator may start it again, turn the node off or let it be.
DiskBoot is `mode-disk`, one action per step that changes the disk.  NodeLife composes the two with the operator, the boot loader,
power-on and power cuts after any step.  A run whose `init` is a plain file rather than a link (`"file"`) is excluded by
`Inits`: mode-disk keeps such a file and the node cannot start.

Growing the partition is reduced to its marker.  The copy of a kernel squashfs (mode-disk:45-53) is left out: the initrd
that `images/40-kernel` builds has none.

### FindRoot, TransferRoot, EnterRoot: the first process

`initrd` of `main.go` moves an initramfs to a tmpfs and starts over, then finds the root image and enters it.

FindRoot is `findRoot` and `inFile`: the environment, the files beside the binary, then the binary itself, byte by
byte (`Byte`) in whatever pieces the reads return (`Read`).  `found` is the code's idea of how much of the mark it has
seen.  TransferRoot is `copyFS` and `Relocate`: the three walks (directories, then everything else, then the deletion), one
entry after the other, with each file created, filled and removed in steps of their own; errors end it where the code
returns them and are ignored where it ignores them.  `Made` is the kind of what `mknod` makes.

EnterRoot is `Mount` and `run`, with the vendored go-losetup.  Its state is the loop device (`attached`, `auto`: released with its last user), the
goroutine that sleeps three seconds and opens the device to set that flag (`timer`), the process (`parent`) and what runs
in the new root (`child`), which is the same process if it is process 1.  `usr`, `links`, `root` are what is mounted and linked;
`links` outlives a boot when the data directory does.  Two errors are not seen by `Mount`: `losetup.Attach` returns none when
LOOP_SET_FD fails (`SetFd`), so the child starts with a device that has no image, and the defer of enter.go:113 drops that of `Detach`.
The history variable `dropped` has which of them happened.  Of `ensureloop` only that it may fail is in the model.

### Cmdline, ConfigRead, ConfigWrite: the configuration as data

Cmdline is `readCmdline`: each word is split, looked up and put (`Add`, `Put`, `Ignore`), and the tree of settings is kept as its
leaves.  A key is the sequence of the names and signs it is written with.  ConfigRead is `ReadConfig` for one field:
the sources are read in the code's order, each is brought to the schema (`ToInternal`: names, then types), merged
(`Merged`, where two names of a field stay side by side) and decoded (`Fits`, `Decode`).  In what order a map's keys come is a choice.
ConfigWrite is `toYAMLKeys`, which renames the keys of a map while it iterates over it: a key that is added may or
may not be visited, which Go leaves open.  Config puts the three side by side, as described [below](#the-instances).

### ConfigPhases: the configuration applied

`pkg/cc` and what its appliers call, phase by phase.  `Appliers` are the lists of `apply.go`, `Items` what an applier has to do
with the configuration it got.  `Apply` is one item, `Fail` an applier's error, `WriteTemp` and `Rename` a file of
`write_files`; `Finish` the end of a phase.  `EnterRoot` is the change of root between the initrd and the boot phase and `NewRoot` what
outlives it; `CloudConfig` and `Services` are OpenRC; `Again` is the operator's rerun, `PowerCut` the next boot.  `Starts` is
whether the k3s installer is told to start the service.

### AuthorizedKeys: one file, several writers

`pkg/ssh/ssh.go` and `util.WriteFileAtomic`, one action per system call, by the boot phase, the runtime phase and an
operator's run, in any interleaving that OpenRC allows (the runtime phase starts after the boot phase ends).  `run[p]` has what the
process read; `came` is a history variable: the lines that others wrote since it looked.  `UserAppend` is the user's shell.

### InstallDialogue: the questions

`AskInstall` is a list of functions (`asks`), each of which may ask, skip because the setting is there or because of an
earlier answer, or add further functions (`First`, `Rest`).  A question that does not accept an answer is asked again.
After the last answer come the two ways out: `Truncate`, `Write`, `ConfigInstall` set up the running system;
`Summary`, `Temp`, `FillTemp`, `Installer` install to a disk.  `Shadow`, `Chpasswd`, `Hash`, `Restore` are the detour of the password
through `/etc/shadow`.  `Fails` is the error of any step, the end of the input included; `Killed` a signal.  Three calls that
clean up may fail as well: the write that puts `/etc/shadow` back (`PutBack`; its error is dropped, and it may leave a part of the file),
the `Close` before the removal is registered (`CloseFails`) and the removal (`Returns`).  `mishaps`, a history variable, has which did.

### Hostname: the name of a node

The five steps that set it (`rc`, `k3os config --initrd`, the boot script, `k3os config --boot`, OpenRC) and connman (`Dhcp`), which
the boot script has OpenRC start and whose `main.conf` (`ApplyDNS`) leaves its hostname updates on: it sets the kernel's
name to what DHCP supplies, at any time from then on, as README.md:441 of the repository says.  There are three
places (`kernel`, `etc`, `hosts`) and the saved one (`saved`, on the disk only once it is `flushed`).  `called`, `lost` and `leased` are history
variables: the names that neither the configuration nor DHCP gave the node, how often its disk lost one, and the last name from DHCP.

### The instances

MCUpgrade, MCBootMode, MCAuthorizedKeys, MCConfig, MCConfigPhases, MCInstallDialogue, MCHostname and MCStart give the constants
values; NodeLife needs none but those of its configuration file.  No definition of a model is replaced.
Start and Config are compositions of modules that follow each other but share no state: a behaviour goes through one of them,
and the variables of the others are `"unused"`.

### The proof modules

UpgradeProofs, NodeLifeProofs, StartProofs, ConfigProofs, ConfigPhasesProofs, HostnameProofs, AuthorizedKeysProofs and
InstallDialogueProofs each extend the module they are about, see [proofs](#proofs).

## Runs

| run | asks | shows |
|---|---|---|
| `upgrade_one` | one component, three versions, two processes, two runs cut short, two failing calls | All safety properties and the refinement of VersionStore hold at every interleaving: an upgrade may stop anywhere and the node still has its current version and its fallback; moves there and back end at a `<version>.old` that is in the way, and at nothing else. |
| `upgrade_rollout` | the job of one image repeated without end on an overlay installation, two processes, a kill and a failing call, under fairness | The node stops rebooting once it runs the image; a component that fails does not spoil the next, and what was not delivered has one of three known reasons. |
| `boot_mode` | all command lines, fallbacks and disks | A partition found while a turn of the loop is left is booted in the second pass; every boot ends unless the command line says `k3os.mode=disk`, which the second pass obeys too. |
| `node_life` | both ways to install, once or again, with the script ending at any step, all options, `/sbin` a directory or a link, absolute and relative init links, three power cuts, resets and ephemeral nodes | Data to be forgotten never survives; nothing foreign is deleted before k3OS is complete and the node boots it, unless install.sh was run again over a finished takeover; nothing foreign but dot files remains; a complete partition always leads to a running node. |
| `keys` | a key and a server that may not answer, three writers and the user, a power cut and a failing call | What is lost came while a run was writing; the file does not grow, has no litter but of cuts, and comes back to its user. |
| `config` | four words of a command line, one field in two of six sources, maps of two keys | The settings of the command line are a tree and what is dropped contradicts an earlier word; the last source decides, unless a name is in lower case; a written configuration reads back. |
| `phases` | every mode, two configurations on the disk, two from a cloud or none, a failure, a power cut, a rerun | A failure stays with its applier; commands come after files and in order; `/etc` is as configured and has nothing of earlier boots; k3s runs as configured and not before the runtime phase. |
| `dialogue` | six configurations, four modes, one or two disks, two wifi networks | Unless the configuration says otherwise, answers and configuration together make a system one can log in to, and an agent that can join; nothing is touched before the last answer, and what stays is due to a call that failed to clean it up; no disk without a yes. |
| `start` | every binary of up to seven bytes and division into reads; every assignment of kinds to five entries; process 1 or a child with an image or a directory, two power cuts; two failing calls, reported or not | What is found is a mark; no file is lost and the new root is whole; a root that is entered is complete; the device is missing only because of the timer or an unreported failure to attach it, and is freed in the end unless that fails unseen; the start ends. |
| `hostname` | from disk and live, names in the image, in the boot phase's configuration or nowhere, a name from DHCP at any time, a failing step, two cuts | The configuration wins over all but DHCP, and the places agree but for the kernel when it has DHCP's; each new name is due to a loss of the saved one. |
| `upgrade_retry` | a job is killed once and repeated | Violates `RunDelivers`: first finding. |
| `node_cut_short` | as `node_life` | Violates `BootsOnlyInstalled`: second finding. |

Each property is stated in words where it is defined.  Several are conjunctions of named parts that concern the
same piece of code, such as `FileInOrder` (the file does not grow, temporary files, the owner).  The `TypeOK` of each module describes its variables;
it is part of the inductive invariant wherever there is one.

For every property of a run that passes, `PROJECT.json` names a plausible bug of the code (`mutants`: a dropped
guard, a forgotten deferred call, a wrong order) with which the same run fails.  They are the operators named
`...Forgotten`, `...Ignored` and so on next to what they would replace; nothing else uses them.

## Bounds

- *Versions*: three in `upgrade_one`, so that the version being installed, the current and the previous one can all
  differ, and be installed again after having been set aside.  Two elsewhere.
- *Upgrade's processes*: two, enough for any race for the lock; a process that ended starts again, so the number of runs is
  not bounded.
- `MaxKills` and `MaxFaults` of Upgrade: two each where one component is checked, so that a run meets what an earlier one left
  and fails itself, or an undo fails after a failure; one each in `upgrade_rollout`.  Errors that the directory causes
  are not counted and not bounded.
- *Components*: the code treats each on its own, except for `doRemount`, the copied flag and the order; `upgrade_rollout` has
  an image of three on a node with two, `upgrade_one` only `k3os`, to afford the third version.
- `MaxCuts` of NodeLife: three, so that a boot that repairs what a cut left is cut again, twice.  More give no new states of the
  partition: a cut changes nothing on it.
- *Wait* of BootMode: three turns instead of thirty; what counts is a first, a middle and a last turn.
- `Procs` of AuthorizedKeys: the three that exist.  `Tries`: two instead of ten, a first and a last; one cut and one failing call, since a second
  meets the states that the first leaves.  A server answers with one line or none; the user has one line.
- `MaxWords`: four words out of twelve, so that two can repeat with another between them.  The keys repeat each other, continue each
  other and have an entry of a map; values are two.
- `MaxNames`, `MaxGiven` of ConfigRead: two of the three names in each of two sources; which of the six sources they are varies.  The values
  are one of each type, one more that becomes each type, and one that fits none.
- `MaxLength`, `MaxKeys` of ConfigWrite: keys of three letters of three kinds, two in a map, enough for two keys that are written alike.
- `MaxFails`, `MaxCuts`, `MaxAgain` of ConfigPhases: one each.  Every boot starts from the disk of the last, so one cut gives two boots.
- `MaxWifi` of InstallDialogue: two networks; the code has no bound.
- `MaxFile`: seven bytes, more than twice the mark of three (`_s_`, which begins and ends the same, as the real one does) and more
  than two reads of up to three bytes.
- `MovedEntries` of TransferRoot: a directory with two files, one entry of every kind, and `/mnt`, the target.
- `MaxFails` and `MaxCuts` of EnterRoot: two each, so that an image that was not attached meets a device that cannot be freed, and a
  boot what two others left.
- `MaxFails` and `MaxCuts` of Hostname: one and two; the names to draw are as many as there can be losses and one more.  DHCP supplies
  one name, which differs from all others.

The theorems hold for every value of these constants.  No symmetry is used.  Deadlock is checked except in `phases`, `start` and `hostname`, whose
behaviours end when the node is up, or down for good; a node that has booted stutters in BootMode (`Booted`), as does one that
cannot boot in NodeLife (`Stuck`).

## Fairness

`FairSpec` of Upgrade assumes weak fairness of `Progress(p)`: a process that has a call to make makes it or
gets an error.  The code is one goroutine with blocking system calls and no wait for others (the lock is taken
with `LOCK_NB`).  Nothing is assumed of `Begin`, `Kill` and `Restart`: no job ever has to start, and a requested reboot need
not happen.  `RebootsEnd` therefore says that finitely many reboots are *requested* however often the job is repeated.

BootMode assumes weak fairness of the scripts, the only process at that time, and nothing of the disk.
NodeLife assumes weak fairness of mode-disk and of `PowerOn`: somebody turns the node on again.  Nothing is assumed of
the operator, so no installation need ever start or, if its download fails, succeed.

Start assumes weak fairness of the steps of the one process that starts the node (moving the root; attaching,
entering and detaching), and nothing of the goroutine, of kills or of what runs in the end.  AuthorizedKeys assumes weak fairness of the
runs that OpenRC starts, and none of the operator's.  The other modules state safety only and no fairness.

## Proofs

All theorems hold for every value of the constants, from the assumption of the module alone: the types of the
constants; `None` is no version, `NoProc` no process; a drawn name is none that is configured; the mark is not empty; the tree to be
moved is finite and has a `/mnt`; a key has finitely many lines and the user finitely many.  Every invariant and every action
property of a run that passes is stated by one of them.

| module | theorem | property |
|---|---|---|
| `UpgradeProofs` | `UpgradeInvariant` | `[]UpgradeInv`, the inductive invariant |
| | `TypeCorrect` | `[]TypeOK` |
| | `CurrentAlwaysBoots` | `[]CurrentBoots` |
| | `FallbackAlwaysKept` | `[]FallbackKept` |
| | `NothingIsDestroyed` | `NothingDestroyed` |
| | `FallbackIsKept` | `SwitchKeepsFallback` |
| | `Refinement` | `StoreSpec`: every step is one of VersionStore or none |
| | `MildInvariant` | `[]MildInv`, an invariant relative to `UpgradeInv` |
| | `NothingLeftOver` | `[]NoLeftovers` |
| | `FallbackAlwaysBoots` | `[]FallbackBoots` |
| | `DeliveredUnlessObstructed` | `[]DeliveredOrObstructed` |
| `NodeLifeProofs` | `LifeInvariant` | `[]LifeInv`, the inductive invariant |
| | `ForgottenWhenReset` | `[]ResetForgets` |
| | `AlwaysRunsAlone` | `[]RunsAlone` |
| | `DeletesWhenInstalled` | `DeletesOnlyWhenInstalled` |
| `StartProofs` | `EnterInvariant` | `[]EnterInv`, the inductive invariant of entering |
| | `EntersOnlyComplete` | `[]EntersComplete` |
| | `LostOnlyByTheTimer` | `[]LostOnlyIfLate` |
| | `DeviceIsFreed` | `[]NoLeak` |
| | `StartInvariant` | `[]StartInv`, the inductive invariant of searching and moving |
| | `FindsTheMark` | `[]RootFound` |
| | `NothingIsLostOnTheWay` | `[]MovedWhole` |
| `ConfigProofs` | `KeptInvariant` | `[]KeptInv`, the inductive invariant of the command line |
| | `WordsAlwaysKept` | `[]WordsAreKept` |
| | `ValuesAlwaysKept` | `[]ValuesAreKept` |
| | `LastSourceDecides` | `[]LastWins` |
| | `WrittenIsRead` | `[]ReadsBack` |
| `ConfigPhasesProofs` | `PhasesInvariant` | `[]PhasesInv`, the inductive invariant |
| | `CommandsComeLast` | `[]CommandsLast` |
| | `FailuresStayConfined` | `[]FailuresConfined` |
| | `EtcStartsFresh` | `[]EtcIsFresh` |
| | `K3SComesInTime` | `[]K3SInTime` |
| `AuthorizedKeysProofs` | `KeysInvariant` | `[]KeysInv`, the inductive invariant |
| | `AuthorizedStays` | `[]KeysAuthorized` |
| | `OnlyRacesLoseLines` | `OnlyRacesLose` |
| | `FileStaysInOrder` | `[]FileInOrder` |
| `InstallDialogueProofs` | `DialogueInvariant` | `[]DialogueInv`, the inductive invariant |
| | `AnswersAreComplete` | `[]AnswersComplete` |
| | `NothingIsLeft` | `[]NothingLeft` |
| | `FileIsSafe` | `[]FileSafe` |
| | `InstalledAsAgreed` | `[]InstallsAsAgreed` |
| `HostnameProofs` | `HostnameInvariant` | `[]HostnameInv`, the inductive invariant |
| | `ConfigurationWins` | `[]NamedAsConfigured` |
| | `NameIsKept` | `[]NameKept` |

**Upgrade.**  `CurrentBoots` alone is not inductive: that `Switch` moves `current` to a complete version depends on
`current.tmp` still being the link this run made, on the version having been published from a temporary directory
that was complete, and on nobody having moved it since.  `RunInv(p)` states, for each value of `pc[p]`, what
the calls still to come rely on:

- the process at work is the one that holds the lock, so all others are idle (`OthersIdle`) and each step needs to be
  considered for one process only;
- until the version is published it is not the current one (`v # d.current`), so `Aside` never takes away what is
  running: this is why the comparison at the start of `CopyComponent` carries the whole proof;
- `current.tmp` names `v` from `Link` to `Switch`; the temporary directory is whole after `Copy`; the name is free at
  `Publish`; the version is whole at `Switch`;
- while no call failed, `previous` is gone before it is renewed, and equals `current` before `current` moves.

There is one lemma per action (`BeginInv`, ..., `RestartInv`) that it preserves `UpgradeInv`.  What the actions share is proved
once: `ProcStep` (a step of one process, with what has to be shown of it), `CallStep` (a call that succeeds), `SameFiles` and
`SetDirStep` (no directory, or one, changes), `Between` (no component at hand) and a lemma for each rename
(`MovedAsideDir`, `MovedBackDir`, `PublishedDir`).  A second group of lemmas (`PublishView`, ..., `LinkView`, `Steps`) says what a
step does to the directories as a reader sees them; `NothingDestroyed`, `SwitchKeepsFallback` and the refinement of
VersionStore follow from those and from the invariant in the state before the step.

Every action writes one directory with one update of `fs` (`SetDir`) and computes the new directory as a record: tlapm
1.4.5 mistranslates an EXCEPT with two updates below the same element (`![c].a = ..., ![c].b = ...`) and a nested `@`, so
neither form occurs in Upgrade.

`TypeOK` says more than the types: only
temporary directories are ever `partial`.

`MildInv` is what holds while little goes wrong, and stands on `UpgradeInv`.  `CleanInv`: without kills and failures the link
and the temporary directory of a component exist only while a process is at it.  `FallbackInv`: with at most one failing
call the fallback has its name, or it is the run that set it aside that is about to publish it or put it back, and the
second call cannot fail too.  `DeliverInv`: of the components a run was asked for, those not in `todo` any more were delivered or are
obstructed; the guard of `AtEnd` makes that all of them.  A step can break these for its own process and component only (`MildStep`).

**NodeLife.**  `RunsAlone` and `ResetForgets` are about the end of a chain of boots that may be cut anywhere, so the invariant
relates what is on the partition to how far the installer got.  On a node that is taken over only k3OS's grub.cfg boots the
partition.  Once it is there everything is installed, or install.sh began again (`again`), which is what
`DeletesOnlyWhenInstalled` has to except; and what is left of the distribution is marked for takeover or is only dot files
(`TakeoverInv`).  An `again` that is reset by the end of the extraction says that a second run that gets that far is no exception.  A marker is removed only after what it orders is done, or when another one still orders it (`MarkerInv`: the
takeover removes its own while `factory-reset` is set, which is why the code sets that one), so data to be forgotten
is always marked or gone (`DataInv`).

**EnterRoot.**  That the image is there when the root is entered is not inductive: it depends on who holds the loop device.
`EnterInv` adds where the mounts of the child are at each of its steps (`MountsInv`), that the parent waits
for it or was replaced by it (`ParentInv`), and that before the mount nothing but the goroutine can have released the
device, while after the end of `Mount` nothing but the goroutine can still hold it (`DeviceInv`), each unless the
call in question failed without `Mount` noticing.  The losses of power keep `links`, so
the invariant says nothing of them before the step that completes them.

**FindRoot, TransferRoot.**  `inFile` keeps one number, `found`, and starts again with every byte that does not go on, so the longest
beginning of a mark that ends at a byte is not always what it knows.  `FollowsInv` says when it is: whenever no other
beginning of a mark ends where that one starts.  From it follows that a mark can be overlooked only right after the beginning of
another (`Complete`); the real mark, `_sqmagic_`, can be.  Of the move, `DirsInv` and `FilesInv` say what each walk has done, `MovedInv` that
all is whole once something is deleted, and `TwiceInv` that what exists twice beside the file under way is as many as the failed removals.

**Config.**  `KeptInv` adds to `WordsAreKept` that every setting comes from a word: what is in the way of a word that is
dropped then comes from an earlier word.  A later word takes no setting away, so a word once decided stays decided (`StillDecided`).
`ValuesInv` counts the words about a setting.  `MergedInv` says of the merged configuration after any number of sources
what `LastWins` says at the end: what is under the field's name is from the last source that names it in any way, what is under
the name in lower case from the last that does so; `DecodedInv` is what the decoder makes of the two.
`WriteInv` is the state of the iteration that changes the map: each entry is a given key's or its new name's, none is
there twice, and none is gone but to a key that is written alike.  What `ToYAMLKey`, a fold, makes of a key is an
induction over its length (`FlattenedSingles`).

**ConfigPhases.**  The place of a phase is what is left of `doing`.  Before it each applier is finished (`TurnInv`), at it the log and `todo`
are together what was configured, behind it nothing is done (`LogInv`, `EtcInv`); `OrderInv` says that of the commands what is left follows
what has run.  `K3sInv` is about the last applier that installs k3s.  `Modules` is left out of `TurnInv`: what it loads
depends on the kernel too, and no property is about it.

**AuthorizedKeys.**  `RaceInv`: whatever is in the file is in what the run has read, or came since.  `KeptInv`: as long as the operator starts
nothing, every key that was authorized is in the file and in what the run at work has read, so that writing it back loses
none; `StageInv` keeps the two phases apart.  For `FileInOrder` the invariant is `GrownInv`: what is in the file, and
what any run has read of it, is no longer than some set of configured texts and some set of the user's lines together, each
counted once and each in the file.  A run adds a text only if it is not there, so the set grows with the file.

**InstallDialogue.**  `OpenInv`: a question is asked only while its setting is open, so no answer overwrites what is configured.  `LoginInv` and
`AgentInv` say from which question on somebody can log in and an agent knows its server and token; `TokenInv` that
a known server comes with a token, but for a configuration that has the server alone, of which ask.go:150 asks nothing.  `ShadowInv`, `FileInv` and
`TempInv` say at which steps `/etc/shadow`, `config.yaml` and the temporary file are anything but what they were, and which
of the `mishaps` is to blame otherwise.

**Hostname.**  `PlacesInv` is what each step of the boot finds in the three places; at the end the kernel has the name of
`/etc/hostname` or the one that DHCP supplied last in this boot.  For `NameKept`, `SavedInv` counts: the
names that the node was called by, without the saved one, are at most as many as the losses.  A draw replaces the
saved name only after a loss, and a boot adds to the names only the saved one.  `Beside` keeps the cardinality
behind one operator, and four lemmas on it are all that the actions need.

Inductions over data.  The library's induction theorems take an operator as a parameter, which the installed provers cannot
instantiate.  Two proofs need an induction all the same and go by a least counterexample: `LeastNat` (ConfigProofs) for the length of a key,
from `WFMin` and `NatLessThanWellFounded`, and `SmallestSet` (AuthorizedKeysProofs) for sums over finite sets of texts, from the
well-foundedness of strict inclusion.  They also prove that the folds of the community modules, which are `CHOOSE`s of a
recursive function, have such a function to choose (`CanFlatten`, `CanSum`).

Only model-checked are the liveness properties (`RebootsEnd`, `BootsItsDisk`, `BootEnds`, `CompleteRuns`, `Repaired`,
`StartEnds`), since fairness and ENABLED are beyond the prover; BootMode has no others, and therefore no theorem.

## Findings

1. **A run that was cut short blocks all later upgrades of that component** (`upgrade_retry`,
   `pkg/system/component.go:70`).  `os.Symlink` does not replace `current.tmp`; after a kill or a power cut the link is
   still there, and nothing but an operator removes it.  The error is logged, the run exits with 0, and when another
   component was copied the node reboots into a mix of two releases.  A `<version>.old` has the same effect
   (`component.go:92`): it stays after a success, and the next rename onto it fails because it is not empty, so a node
   that goes back and forth between releases is refused in the end.  `DeliveredOrObstructed` shows that these are the only such reasons.
2. **A labelled partition passes for an installed one** (`node_cut_short`, `install.sh:109`): after an installation that was cut
   short or could not fetch its configuration, the ISO boots what is there instead of installing again.

Further sentences of the documentation that the code does not keep are stated as definitions beside the
properties and are in no run; naming one as INVARIANT (`TakeoverShutsDown` as PROPERTY) in the configuration of its module's run, those of
ConfigWrite and TransferRoot through the instances in Config and Start, shows the counterexample.

| definition | documentation | code |
|---|---|---|
| `FallbackOnlyWithoutState` (BootMode) | README.md:108: the fallback mode is for when "a valid K3OS_STATE partition is not found" | `mode:31` falls back in its first turn, without waiting for a disk that is slow to appear |
| `TakeoverDeletesAll` (NodeLife) | README.md:167: "delete all files on the root partition that are not k3OS" | the globs of `mode-disk:118` match no name that begins with a dot |
| `TakeoverShutsDown` (NodeLife) | README.md:167: "and then shutdown" | `mode-disk:144` reboots unless `--poweroff` was given |
| `MapForm` (Cmdline) | README.md:288: "For map values the form `key[key]=value` form is used" | `read.go:177` splits at every dot and knows no brackets |
| `DocumentedPhases` (ConfigPhases) | README.md:304-324: the host name and others are applied in the runtime phase | `apply.go:27` has no such appliers in `RunApply`, so what only a cloud's userdata has never takes effect |
| `CurrentConfiguration` (ConfigWrite) | `pkg/cli/config/config.go:50`: "Print current configuration" | `write.go:46` rewrites the user's own keys too: HTTP_PROXY becomes http__p_r_o_x_y |
| `NotFromDisk` (InstallDialogue; with mode `local`) | README.md:90: "An installation to disk will not have `k3os install`" | the command is hidden, `cli/install/install.go:30`, but runs |
| `MountedInTime` (EnterRoot) | `enter.go:117`: "Assume that after 3 seconds loop back device has been mounted" | nothing relates the sleep to the mount |
| `EquivalentToCp` (TransferRoot) | `transferroot.go:26`: "Equivalent to a more memory efficient version of /bin/cp -a" | `mknod` gets Go's mode bits, so a device node becomes an empty file |

Three exceptions that properties make are no contradiction to any sentence of the repository, but a reader should know of them:

- After a takeover with the device as an argument, the command of README.md:172, the node stays up on the old distribution with the
  marker set and grub.cfg k3OS's.  An install.sh that is run again and ends while it extracts leaves a partial k3OS, and the next boot
  deletes the distribution all the same (`DeletesOnlyWhenInstalled`, `again`).
- An image that could not be attached is reported by `mount`, if at all, and a device that could not be freed by nobody
  (`LostOnlyIfLate`, `NoLeak`, `dropped`).
- `/etc/shadow` keeps the new password, or a part of the file, when the write that restores it fails, and the complete temporary
  file stays when its `Close` or its removal does; neither write nor removal says so (`NothingLeft`, `mishaps`).

## What is not modelled

Listed with the reason in `PROJECT.json`, `components`.

- *Left out for good*: the contents and wording of files, logging, the fixed sequences of mounts and device nodes in `rc`, `bootstrap`
  and `boot`, the dispatch of subcommands, packaging, and everything vendored except what the models rest on: the copy library (a link is copied as a
  link, and onto nothing), the mapper's `PutValue`, `merge` and `ToYAMLKey`, and go-losetup.
- *Abstracted*: growing the partition is its marker; an `rm` of the takeover that fails is left out; the k3s installer is one step; of `ensureloop` only that it may fail; ownership, times and modes in
  TransferRoot; the home directory and `/etc/passwd` in AuthorizedKeys; `ToEnv`, which flattens a configuration for the
  installer's environment, is what InstallDialogue's `env` has; that there is a k3s to install is assumed in ConfigPhases.
- *Left for later* (see the [plan](#plan)): the upgrade controller's back-off, deadline and several nodes; the legacy scripts
  `k3os-upgrade-kernel` and `k3os-upgrade-rootfs`, which take no lock and write in place, and so promise nothing that a
  property could hold them to; the loss of unsynced data after an upgrade.
