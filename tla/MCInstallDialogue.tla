---- MODULE MCInstallDialogue ----
(***************************************************************************)
(* Instances of InstallDialogue for TLC.                                   *)
(***************************************************************************)
EXTENDS InstallDialogue

SomeConfigs == {{}, {"device", "configUrl"}, {"device", "password"}, {"keys", "token"},
                {"serverUrl"}, {"wifi", "device"}}
LiveModes == {"", "live-server", "live-agent", "install"}
OneOrTwo == {1, 2}
====
