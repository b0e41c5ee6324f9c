---- MODULE Hostname ----
(***************************************************************************)
(* The name of the node through a boot: it is in the kernel, in            *)
(* /etc/hostname and in the 127.0.1.1 line of /etc/hosts, and who sets it, *)
(* in this order, is rc (doHostname), `k3os config --initrd`, the same rc  *)
(* again once the disk is the root, the boot script, `k3os config --boot`  *)
(* (pkg/hostname) and OpenRC's hostname service; connman, from when OpenRC *)
(* starts it on, gives the kernel the name that DHCP supplies.  The image  *)
(* has neither file, and each bootstrap begins with a new /etc.            *)
(***************************************************************************)
EXTENDS Naturals, FiniteSets

CONSTANTS
    Configured,  \* names that a configuration may give
    Randoms,     \* names that the boot script may draw
    Supplied,    \* names that DHCP may supply
    MaxFails, MaxCuts  \* bounds on failing system calls and on losses of power

ASSUME HostnameAssumption ==
    /\ Configured \cap Randoms = {} /\ MaxFails \in Nat /\ MaxCuts \in Nat
    /\ {"missing", "", "(none)", "k3os-mac"} \cap (Configured \cup Randoms) = {}
    /\ "" \notin Supplied

VARIABLES
    mode,     \* "disk", which bootstraps twice and keeps /var, or "live"
    image,    \* the name in the configuration of the image, or ""
    cloud,    \* the name in the configuration that the boot phase reads, or ""
    pc,       \* the step of the boot
    second,   \* whether this is the second bootstrap
    kernel,   \* the name in the kernel
    etc,      \* /etc/hostname, or "missing"
    hosts,    \* the name in /etc/hosts, or "missing"
    saved,    \* /var/lib/rancher/k3os/hostname, or "missing"
    flushed,  \* whether saved is on the disk
    failed,   \* whether a step of this boot failed
    lost,     \* how often the disk lost the saved name
    leased,   \* the last name from DHCP in this boot, or "" (seen by the properties only)
    called,   \* names that nobody configured nor DHCP supplied with which the node was up
    fails, cuts

given == <<mode, image, cloud>>
names == <<kernel, etc, hosts>>
store == <<saved, flushed, lost>>
history == <<leased, called, cuts>>
vars == <<given, pc, second, names, store, failed, history, fails>>

Boots ==
    /\ pc' = "bootstrap" /\ second' = FALSE
    /\ kernel' = "(none)" /\ etc' = "missing" /\ hosts' = "missing" /\ failed' = FALSE
    /\ leased' = ""
Init ==
    /\ mode \in {"disk", "live"} /\ image \in Configured \cup {""}
    /\ cloud \in Configured \cup {image}
    /\ pc = "bootstrap" /\ second = FALSE
    /\ kernel = "(none)" /\ etc = "missing" /\ hosts = "missing" /\ failed = FALSE
    /\ saved = "missing" /\ flushed = TRUE /\ lost = 0 /\ called = {}
    /\ leased = ""
    /\ fails = 0 /\ cuts = 0

Goes(from, to) == pc = from /\ pc' = to

\* setup_etc and doHostname: there is no /etc/hostname to read; without a name the kernel
\* gets one after the address of eth0, if that is there already.
Bootstrap ==
    /\ Goes("bootstrap", IF second THEN "hostname" ELSE "initrd")
    /\ etc' = "missing" /\ hosts' = "missing"
    /\ kernel' \in IF kernel = "(none)" THEN {"(none)", "k3os-mac"} ELSE {kernel}
    /\ UNCHANGED <<given, second, store, failed, history, fails>>

\* SetHostname and syncHostname; without /etc/hosts they fail when they come to it.
LineOf(name) == IF hosts = "missing" THEN "missing" ELSE name
SetUnlessNamed(name) ==
    IF name = "" \/ kernel # "(none)" THEN UNCHANGED names
    ELSE kernel' = name /\ etc' = name /\ hosts' = LineOf(name)
SetHostname(name) ==
    IF name = "" THEN UNCHANGED names
    ELSE kernel' = name /\ etc' = name /\ hosts' = LineOf(name)

\* With K3OS_MODE=local, which the first bootstrap sets for the second, nothing is applied.
Initrd ==
    /\ pc = "initrd"
    /\ SetHostname(image)
    /\ IF mode = "disk" THEN pc' = "bootstrap" /\ second' = TRUE
                        ELSE pc' = "hostname" /\ second' = second
    /\ UNCHANGED <<given, store, failed, history, fails>>

\* setup_hostname: the saved name if there is one, whatever it is.
DrawnAnew == Randoms
SavedOrDrawn == IF saved = "missing" THEN Randoms ELSE {saved}
SetupHostname ==
    /\ Goes("hostname", "hosts")
    /\ IF etc # "missing" THEN UNCHANGED <<etc, saved, flushed>>
       ELSE \E name \in SavedOrDrawn :
                /\ etc' = name /\ saved' = name
                /\ flushed' = (flushed /\ saved = name)
    /\ UNCHANGED <<given, second, kernel, hosts, lost, failed, history, fails>>

\* setup_hosts.
SetupHosts ==
    /\ Goes("hosts", "config")
    /\ hosts' = IF hosts = "missing" THEN etc ELSE hosts
    /\ UNCHANGED <<given, second, kernel, etc, store, failed, history, fails>>

Config ==
    /\ Goes("config", "openrc")
    /\ SetHostname(cloud)
    /\ UNCHANGED <<given, second, store, failed, history, fails>>

\* Sethostname, or one of the writes, fails and what comes after it is not done.
ConfigFails ==
    /\ Goes("config", "openrc") /\ cloud # ""
    /\ fails < MaxFails /\ fails' = fails + 1 /\ failed' = TRUE
    /\ kernel' \in {kernel, cloud}
    /\ etc' \in {etc, cloud} /\ (etc' # etc => kernel' = cloud)
    /\ UNCHANGED <<given, second, hosts, store, history>>

\* OpenRC takes over what /etc/hostname says, if it says anything.  Then k3s starts.
TakenOver == IF etc = "" THEN kernel ELSE etc
OpenRC ==
    /\ Goes("openrc", "up")
    /\ kernel' = TakenOver
    /\ called' = IF cloud = "" /\ etc # "" THEN called \cup {kernel'} ELSE called
    /\ UNCHANGED <<given, second, etc, hosts, store, failed, leased, cuts, fails>>

\* connman is left its AllowHostnameUpdates by main.conf (ApplyDNS) and sets the name of
\* the kernel only.
Dhcp ==
    /\ pc \in {"openrc", "up"}
    /\ \E name \in Supplied : kernel' = name /\ leased' = name
    /\ UNCHANGED <<given, pc, second, etc, hosts, store, failed, called, cuts, fails>>

Flush ==
    /\ ~flushed /\ flushed' = TRUE
    /\ UNCHANGED <<given, pc, second, names, saved, lost, failed, history, fails>>

\* Nothing syncs the saved name: a cut soon after may take it back, or leave an empty file.
\* What a live system saves is in memory.
PowerCut ==
    /\ cuts < MaxCuts /\ cuts' = cuts + 1
    /\ Boots
    /\ saved' \in IF mode = "live" THEN {"missing"}
                  ELSE IF flushed THEN {saved} ELSE {saved, "", "missing"}
    /\ flushed' = TRUE /\ lost' = IF saved' = saved THEN lost ELSE lost + 1
    /\ UNCHANGED <<given, called, fails>>

Step == Bootstrap \/ Initrd \/ SetupHostname \/ SetupHosts \/ Config \/ OpenRC
Next == Step \/ ConfigFails \/ Dhcp \/ Flush \/ PowerCut
Spec == Init /\ [][Next]_vars

----------------------------------------------------------------------------
\* Properties.

\* The places agree on the name when the node is up, whoever gave it, unless a step failed
\* or the disk has an empty name; and a name that the boot phase was configured with is the
\* one they have, over those of the initrd phase, of the network card, of the disk and of
\* chance.  Only DHCP overrides it, as README.md:441 says, in the kernel and so for k3s, but
\* in neither file.
NamedByDhcp == leased # "" /\ kernel = leased
Agree == pc = "up" /\ ~failed /\ etc # "" => hosts = etc /\ (kernel = etc \/ NamedByDhcp)
ConfiguredWins ==
    pc = "up" /\ cloud # "" /\ ~failed => etc = cloud /\ (kernel = cloud \/ NamedByDhcp)
NamedAsConfigured == Agree /\ ConfiguredWins

\* A node that nobody named keeps the name it drew, as long as its disk does: each name
\* but the first is due to a loss.
NameKept == Cardinality(called) <= 1 + lost
====
