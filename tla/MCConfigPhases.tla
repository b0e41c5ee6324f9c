---- MODULE MCConfigPhases ----
(***************************************************************************)
(* Instances of ConfigPhases for TLC.                                      *)
(***************************************************************************)
EXTENDS ConfigPhases

\* A configuration that has the given fields.
With(given) == [f \in Fields |-> IF f \in DOMAIN given THEN given[f] ELSE << >>]

OfImage == With([Hostname |-> <<"image">>, Initcmd |-> <<"init">>, WriteFiles |-> <<"i">>,
                 Modules |-> <<"overlay">>])
ServerDisk == With([Modules |-> <<"wireguard">>, Sysctls |-> <<"s1", "s2">>,
                    WriteFiles |-> <<"f1", "f2">>, Bootcmd |-> <<"b1", "b2">>,
                    Runcmd |-> <<"r1">>, DataSource |-> <<"aws">>])
AgentDisk == With([Hostname |-> <<"disk">>, Password |-> <<"p">>, Wifi |-> <<"w">>,
                   ServerURL |-> <<"url">>, Token |-> <<"t">>, WriteFiles |-> <<"f1">>,
                   SSHKeys |-> <<"k">>, Environment |-> <<"e">>])
Disks == {ServerDisk, AgentDisk}

CloudAgent == With([ServerURL |-> <<"cloud">>, Runcmd |-> <<"u1", "u2">>,
                    WriteFiles |-> <<"u">>])
CloudHost == With([Hostname |-> <<"cloud">>])
Clouds == {CloudAgent, CloudHost}
AllModes == {"local", "live", "install"}
====
