---- MODULE MCHostname ----
(***************************************************************************)
(* Instances of Hostname for TLC: two names to configure, three to draw,   *)
(* one for the first boot and one after each cut, and one from DHCP.       *)
(***************************************************************************)
EXTENDS Hostname

MCConfigured == {"image-name", "cloud-name"}
MCRandoms == {"k3os-1", "k3os-2", "k3os-3"}
MCSupplied == {"dhcp-name"}
====
