---- MODULE InstallDialogue ----
(***************************************************************************)
(* `k3os install`: the dialogue that completes the configuration and then  *)
(* installs to disk or sets up the running system.  pkg/cli/install,       *)
(* pkg/cliinstall, pkg/questions, util.PromptPassword, config.ToBytes and  *)
(* PrintInstall.  A setting is "none", from the "config" or an "answer".   *)
(***************************************************************************)
EXTENDS Naturals, SequencesExt

CONSTANTS Modes,     \* the contents of /run/k3os/mode
          Configs,   \* what the configuration may have of the settings
          Disks,     \* the possible numbers of disks
          MaxWifi    \* bound on the networks given in the dialogue

Settings == {"device", "configUrl", "keys", "password", "wifi", "serverUrl", "token"}
All(what) == [s \in Settings |-> what]
ConfigOf(settings) == [s \in Settings |-> IF s \in settings THEN "config" ELSE "none"]

ASSUME InstallDialogueAssumption ==
    /\ Modes \subseteq {"", "live", "live-server", "live-agent", "install", "local"}
    /\ Configs \subseteq SUBSET Settings
    /\ Disks \subseteq Nat /\ MaxWifi \in Nat

VARIABLES
    mode, disks, silent,  \* what the dialogue finds
    read,      \* the configuration as read
    cfg,       \* and as completed so far
    install,   \* install to disk, or set up the system: "unknown", "yes", "no"
    asks,      \* the functions whose turn is still to come
    at,        \* the question on the screen or the step that is next
    wifis,     \* networks given
    agent,     \* an agent was asked for
    agreed,    \* the summary was confirmed
    shadow,    \* the passwords of the running system
    file,      \* config.yaml of the running system
    temp,      \* /tmp/k3os.X, the configuration of the new one
    env,       \* what the installer gets in its environment
    mishaps    \* failing calls that leave something behind (seen by the properties only)

found == <<mode, disks, silent, read>>
answers == <<cfg, wifis, agent, agreed>>
outside == <<shadow, file, temp, env, mishaps>>
vars == <<found, answers, outside, install, asks, at>>

Init ==
    /\ mode \in Modes /\ disks \in Disks /\ silent \in BOOLEAN
    /\ read \in {ConfigOf(c) : c \in Configs} /\ cfg = read
    /\ install = "unknown" /\ asks = << >> /\ at = "start"
    /\ wifis = 0 /\ agent = FALSE /\ agreed = FALSE
    /\ shadow = "old" /\ file = All("old") /\ temp = All("missing") /\ env = All("missing")
    /\ mishaps = {}

Ended == {"error", "killed", "declined", "installed", "applied"}

(***************************************************************************)
(* The questions.                                                          *)
(***************************************************************************)

Turns(next) == at' = next /\ UNCHANGED <<found, answers, outside, install, asks>>

\* A token that is known is not asked for.
Unless(next) ==
    IF next \in {"token", "optional token"} /\ cfg["token"] # "none" THEN "next" ELSE next
Sets(setting, next) ==
    /\ cfg' = [cfg EXCEPT ![setting] = "answer"] /\ at' = next
    /\ UNCHANGED <<found, wifis, agent, agreed, outside, install, asks>>

\* Run and Ask; AskInstall asks nothing if the configuration says silent.
Asks(i) ==
    IF i = "no" THEN <<"AskServerAgent">>
    ELSE IF silent THEN << >>
    ELSE <<"AskInstallDevice", "AskConfigURL", "AskGithub", "AskPassword", "AskWifi",
           "AskServerAgent">>
Decided(i) ==
    /\ install' = i /\ asks' = Asks(i) /\ at' = "next"
    /\ UNCHANGED <<found, answers, outside>>

\* isInstall.
Start ==
    /\ at = "start"
    /\ \/ mode = "install" /\ Decided("yes")
       \/ mode \in {"live-server", "live-agent"} /\ Decided("no")
       \/ mode \notin {"install", "live-server", "live-agent"} /\ Turns("operation?")
Operation == at = "operation?" /\ \E i \in {"yes", "no"} : Decided(i)

\* What is configured is not asked.  A configuration from elsewhere replaces the answers
\* that would make one; keys and a password stand in for each other.
NoUrl == install = "yes" => cfg["configUrl"] = "none"
KeysFirst(f) == cfg["keys"] = "none" /\ cfg["password"] = "none" /\ f = "AskGithub"
NoLogin(f) == cfg["keys"] = "none" /\ cfg["password"] = "none"
Skipped(f) ==
    CASE f = "AskInstallDevice" -> cfg["device"] # "none"
      [] f = "AskConfigURL" -> cfg["configUrl"] # "none"
      [] f \in {"AskGithub", "AskPassword"} -> ~(NoUrl /\ NoLogin(f))
      [] f = "AskWifi" -> ~NoUrl \/ cfg["wifi"] # "none"
      [] f = "AskServerAgent" -> ~NoUrl \/ cfg["serverUrl"] # "none"

First(f) ==
    CASE f = "AskInstallDevice" -> "device"
      [] f = "AskConfigURL" -> "file?"
      [] f = "AskGithub" -> "github?"
      [] f = "AskPassword" -> "password"
      [] f = "AskWifi" -> "wifi?"
      [] f = "AskServerAgent" -> CASE mode = "live-server" -> Unless("optional token")
                                   [] mode = "live-agent" -> "url"
                                   [] OTHER -> "role?"

Rest(functions) == Tail(functions)
Ask ==
    /\ at = "next" /\ asks # << >>
    /\ asks' = Rest(asks)
    /\ at' = IF Skipped(Head(asks)) THEN "next" ELSE First(Head(asks))
    /\ agent' = (agent \/ at' = "url")
    /\ UNCHANGED <<found, cfg, wifis, agreed, outside, install>>

\* PromptOptions takes a single option unasked, and accepts no number when there is none.
Device == at = "device" /\ disks > 0 /\ Sets("device", "next")
File == \/ at = "file?" /\ (Turns("next") \/ Turns("file"))
        \/ at = "file" /\ Sets("configUrl", "next")
Github == \/ at = "github?" /\ (Turns("next") \/ Turns("users"))
          \/ at = "users" /\ Sets("keys", "next")

Wifi == at = "wifi?" /\ (Turns("next") \/ (wifis < MaxWifi /\ Turns("wifi")))
WifiName ==
    /\ at = "wifi"
    /\ cfg' = [cfg EXCEPT !["wifi"] = "answer"] /\ wifis' = wifis + 1 /\ at' = "wifi?"
    /\ UNCHANGED <<found, agent, agreed, outside, install, asks>>

Role ==
    /\ at = "role?"
    /\ \/ agent' = TRUE /\ at' = "url"
       \/ agent' = FALSE /\ at' = Unless("optional token")
    /\ UNCHANGED <<found, cfg, wifis, agreed, outside, install, asks>>
AgentToken == "token"
Url == at = "url" /\ Sets("serverUrl", Unless(AgentToken))
Token == \/ at \in {"token", "optional token"} /\ Sets("token", "next")
         \/ at = "optional token" /\ Turns("next")

\* AskPassword: once it was entered twice the same, the system hashes it as the password
\* of the running system, which is put back when the function returns.  That write may
\* fail, or leave a part of the file: its error is dropped.
Shadow(new, next) ==
    /\ shadow' = new /\ at' = next
    /\ UNCHANGED <<found, answers, file, temp, env, mishaps, install, asks>>
Kept == shadow
Old == "old"
PutBack(next) ==
    \/ Shadow(Old, next)
    \/ /\ shadow' \in {"new", "partial"} /\ mishaps' = mishaps \cup {"restore"} /\ at' = next
       /\ UNCHANGED <<found, answers, file, temp, env, install, asks>>
Password == at = "password" /\ (Turns("password") \/ Turns("chpasswd"))
Chpasswd == at = "chpasswd" /\ Shadow("new", "hash")
Hash == at = "hash" /\ Sets("password", "restore")
Restore == at = "restore" /\ PutBack("next")

(***************************************************************************)
(* What follows them.                                                      *)
(***************************************************************************)

Begun == at = "next"
Answered == at = "next" /\ asks = << >>

\* ToBytes: where to install to is no part of a configuration that is written.
NoInstall(c) == [c EXCEPT !["device"] = "none", !["configUrl"] = "none"]

\* Run: config.yaml is truncated, written and applied by `k3os config --install`.
Writes(content, next) ==
    /\ file' = content /\ at' = next
    /\ UNCHANGED <<found, answers, shadow, temp, env, mishaps, install, asks>>
Truncate == install = "no" /\ Answered /\ Writes(All("partial"), "write")
Write == at = "write" /\ Writes(NoInstall(cfg), "apply")
ConfigInstall == at = "apply" /\ Turns("applied")

\* runInstall: the summary is shown, unless the configuration says silent.
NoSummary == silent \/ cfg["device"] = "config"
Unattended == silent
Summary ==
    /\ install = "yes" /\ Answered
    /\ Turns(IF Unattended THEN "temp" ELSE "continue?")
Continue ==
    /\ at = "continue?"
    /\ agreed' \in BOOLEAN /\ at' = IF agreed' THEN "temp" ELSE "declined"
    /\ UNCHANGED <<found, cfg, wifis, agent, outside, install, asks>>

\* Without a configuration from elsewhere it is taken from a temporary file.  The section
\* install goes to the environment only, and is dropped before the file is written.
Whole(c) == c
Temp ==
    /\ at = "temp"
    /\ temp' = IF cfg["configUrl"] = "none" THEN All("partial") ELSE temp
    /\ env' = Whole([cfg EXCEPT !["configUrl"] = IF @ = "none" THEN "temp" ELSE @])
    /\ at' = "installer"
    /\ UNCHANGED <<found, answers, shadow, file, mishaps, install, asks>>
FillTemp ==
    /\ at = "installer" /\ temp = All("partial")
    /\ temp' = NoInstall(cfg)
    /\ UNCHANGED <<found, answers, shadow, file, env, mishaps, install, asks, at>>

\* A Close that fails after the whole file was written returns before the os.Remove is
\* deferred.
CloseFails ==
    /\ at = "installer" /\ temp = All("partial")
    /\ temp' = NoInstall(cfg) /\ mishaps' = mishaps \cup {"close"} /\ at' = "error"
    /\ UNCHANGED <<found, answers, shadow, file, env, install, asks>>

\* The deferred os.Remove, whose error is dropped.
Removed == All("missing")
Returns(end) ==
    /\ \/ temp' = Removed /\ UNCHANGED mishaps
       \/ temp # All("missing") /\ UNCHANGED temp /\ mishaps' = mishaps \cup {"remove"}
    /\ at' = end
    /\ UNCHANGED <<found, answers, shadow, file, env, install, asks>>
Installer == at = "installer" /\ temp # All("partial") /\ Returns("installed")

\* What may go wrong: the input ends or a step fails, which leaves what was written; the
\* process is killed.
Questions == {"operation?", "device", "file?", "file", "github?", "users", "password", "wifi?",
              "wifi", "role?", "url", "token", "optional token", "continue?"}
Fails ==
    \/ at \in Questions /\ ~(at = "device" /\ disks = 1) /\ Turns("error")
    \/ at \in {"start", "write", "apply", "temp"} /\ Turns("error")
    \/ at \in {"chpasswd", "hash"} /\ PutBack("error")
    \/ at = "installer" /\ temp = All("partial") /\ Turns("error")
    \/ CloseFails
    \/ at = "installer" /\ temp # All("partial") /\ Returns("error")
Killed == at \notin Ended /\ Turns("killed")
Done == at \in Ended /\ UNCHANGED vars

Step == \/ Start \/ Operation \/ Ask \/ Device \/ File \/ Github \/ Wifi \/ WifiName
        \/ Role \/ Url \/ Token \/ Chpasswd \/ Hash \/ Restore
        \/ Truncate \/ Write \/ ConfigInstall
        \/ Summary \/ Continue \/ Temp \/ FillTemp \/ Installer
Next == Step \/ Password \/ Fails \/ Killed \/ Done

Spec == Init /\ [][Next]_vars

----------------------------------------------------------------------------
\* Properties.

TypeOK ==
    /\ {cfg, read} \subseteq [Settings -> {"none", "config", "answer"}]
    /\ install \in {"unknown", "yes", "no"}
    /\ at \in Ended \cup Questions \cup {"start", "next", "chpasswd", "hash", "restore",
                                         "write", "apply", "temp", "installer"}
    /\ wifis \in 0 .. MaxWifi /\ shadow \in {"old", "new", "partial"}
    /\ mishaps \subseteq {"restore", "close", "remove"}

\* What the configuration says stands, the dialogue only adds to it.  A system that is
\* installed can be logged in to, unless the configuration says silent or where another one
\* is.  One that is asked to be an agent knows its server, and whatever knows a server has
\* a token, unless the configuration gives the server alone (ask.go:150 asks nothing then).
OnlyAdds == \A s \in Settings : read[s] = "config" => cfg[s] = "config"
CanLogIn ==
    at \in {"continue?", "temp", "installer"} /\ ~silent /\ cfg["configUrl"] = "none" =>
        cfg["keys"] # "none" \/ cfg["password"] # "none"
AgentIsComplete ==
    at \in {"continue?", "temp", "write"} =>
        /\ agent => cfg["serverUrl"] # "none"
        /\ cfg["serverUrl"] # "none" =>
               cfg["token"] # "none" \/ (read["serverUrl"] = "config" /\ read["token"] = "none")
AnswersComplete == OnlyAdds /\ CanLogIn /\ AgentIsComplete

\* However the dialogue ends, short of being killed, the password of the running system is
\* what it was, unless the write that puts it back fails; and the file with the secrets of
\* the new one is gone if it was complete, unless its Close or its removal fails.
ShadowRestored == at \in Ended \ {"killed"} => shadow = "old" \/ "restore" \in mishaps
SecretsRemoved ==
    at \in Ended \ {"killed"} =>
        temp \in {All("missing"), All("partial")} \/ mishaps \cap {"close", "remove"} # {}
NothingLeft == ShadowRestored /\ SecretsRemoved

\* An end before the last answer leaves config.yaml as it was, and from then on it is
\* complete, unless it is cut off in the one write.
FileSafe ==
    /\ file # All("old") => asks = << >> /\ at \notin Questions
    /\ at = "applied" => file = NoInstall(cfg)

\* No disk is formatted without a yes, or the word of the configuration; and the installer
\* that does it gets all that was asked: the disk and where to find a configuration in its
\* environment, and the rest in that configuration.
Consent == env # All("missing") => agreed \/ silent
NothingLost ==
    at = "installer" /\ temp # All("partial") =>
        /\ env["device"] = cfg["device"] /\ env["configUrl"] # "none"
        /\ (temp = All("missing")) <=> (cfg["configUrl"] # "none")
        /\ temp # All("missing") => \A s \in Settings \ {"device", "configUrl"} : temp[s] = cfg[s]
InstallsAsAgreed == Consent /\ NothingLost

\* README: "An installation to disk will not have `k3os install`."
NotFromDisk == mode = "local" => at = "start"
====
