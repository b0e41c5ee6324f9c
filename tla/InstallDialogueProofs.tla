---- MODULE InstallDialogueProofs ----
(***************************************************************************)
(* What TLAPS proves of `k3os install`, for any configuration, mode, disks *)
(* and any number of networks, wherever the dialogue ends.                 *)
(***************************************************************************)
EXTENDS InstallDialogue, TLAPS

\* What is left of the functions of AskInstall, and of those that follow AskPassword.
AfterPassword == {<<"AskWifi", "AskServerAgent">>, <<"AskServerAgent">>, << >>}
Pending ==
    { <<"AskInstallDevice", "AskConfigURL", "AskGithub", "AskPassword", "AskWifi",
        "AskServerAgent">>,
      <<"AskConfigURL", "AskGithub", "AskPassword", "AskWifi", "AskServerAgent">>,
      <<"AskGithub", "AskPassword", "AskWifi", "AskServerAgent">>,
      <<"AskPassword", "AskWifi", "AskServerAgent">> } \cup AfterPassword

Functions == {"AskInstallDevice", "AskConfigURL", "AskGithub", "AskPassword", "AskWifi",
              "AskServerAgent"}
Steps == {"start", "next", "chpasswd", "hash", "restore", "write", "apply", "temp", "installer"}

TypeInv ==
    /\ cfg \in [Settings -> {"none", "config", "answer"}]
    /\ at \in Ended \cup Questions \cup Steps
    /\ asks \in Pending /\ silent \in BOOLEAN /\ agreed \in BOOLEAN
    /\ install \in {"unknown", "yes", "no"}
    /\ at \in {"start", "operation?"} => asks = << >>

\* A question is only asked while its setting is open, except for further networks.
OpenInv ==
    /\ at = "device" => cfg["device"] = "none"
    /\ at \in {"file?", "file"} => cfg["configUrl"] = "none"
    /\ at \in {"github?", "users"} => cfg["keys"] = "none"
    /\ at \in {"password", "chpasswd", "hash"} => cfg["password"] = "none"
    /\ at \in {"wifi?", "wifi"} => cfg["wifi"] # "config"
    /\ at \in {"role?", "url"} => cfg["serverUrl"] = "none"
    /\ at \in {"token", "optional token"} => cfg["token"] = "none"

\* Once the turn of AskPassword is over somebody can log in.
LoginInv ==
    install = "yes" /\ ~silent /\ asks \in AfterPassword
        /\ at \notin Ended \cup {"start", "operation?", "password", "chpasswd", "hash"} =>
        cfg["configUrl"] # "none" \/ cfg["keys"] # "none" \/ cfg["password"] # "none"

\* An agent knows its server, and with a server there is a token or it is asked for, unless
\* the configuration has the server alone.
AgentInv ==
    agent /\ at \notin {"url", "error", "killed"} =>
        cfg["serverUrl"] # "none" /\ (at = "token" \/ cfg["token"] # "none")
TokenInv ==
    cfg["serverUrl"] # "none" /\ at \notin {"token", "error", "killed"} =>
        cfg["token"] # "none" \/ (read["serverUrl"] = "config" /\ read["token"] = "none")

\* What follows the questions.
EndInv ==
    /\ at \in {"continue?", "temp", "installer", "installed", "declined"} =>
           install = "yes" /\ asks = << >>
    /\ at = "continue?" => ~silent
    /\ at \in {"write", "apply", "applied"} => asks = << >>
    /\ at \in {"temp", "installer"} => agreed \/ silent

\* What the dialogue changes outside of itself, and where.
ShadowInv ==
    at \notin {"hash", "restore", "killed"} => shadow = "old" \/ "restore" \in mishaps
FileInv ==
    /\ at \notin {"write", "apply", "applied", "error", "killed"} => file = All("old")
    /\ file # All("old") => asks = << >>
    /\ at \in {"apply", "applied"} => file = NoInstall(cfg)
TempInv ==
    /\ at \notin Ended \cup {"installer"} => temp = All("missing") /\ env = All("missing")
    /\ at \in Ended \ {"killed"} =>
           temp \in {All("missing"), All("partial")} \/ mishaps \cap {"close", "remove"} # {}
    /\ env # All("missing") => agreed \/ silent
    /\ at = "installer" =>
           /\ env["device"] = cfg["device"] /\ env["configUrl"] # "none"
           /\ IF cfg["configUrl"] # "none" THEN temp = All("missing")
              ELSE temp \in {All("partial"), NoInstall(cfg)}

DialogueInv ==
    /\ TypeInv /\ OnlyAdds /\ OpenInv /\ LoginInv /\ AgentInv /\ TokenInv /\ EndInv
    /\ ShadowInv /\ FileInv /\ TempInv

----------------------------------------------------------------------------

\* The functions come off the list one by one, and AskPassword before those after it.
LEMMA RestPending ==
    ASSUME asks \in Pending, asks # << >>
    PROVE  /\ Head(asks) \in Functions /\ Tail(asks) \in Pending
           /\ Tail(asks) \in AfterPassword => asks \in AfterPassword \/ Head(asks) = "AskPassword"
           /\ asks \in AfterPassword => Tail(asks) \in AfterPassword
  <1> USE DEF Pending, AfterPassword, Functions
  <1>1. CASE Head(asks) = "AskInstallDevice"
    <2>1. asks = <<"AskInstallDevice", "AskConfigURL", "AskGithub", "AskPassword", "AskWifi",
        "AskServerAgent">>
      BY <1>1
    <2>2. Tail(asks) = <<"AskConfigURL", "AskGithub", "AskPassword", "AskWifi", "AskServerAgent">>
      BY <2>1
    <2>. QED
      BY <2>1, <2>2
  <1>2. CASE Head(asks) = "AskConfigURL"
    <2>1. asks = <<"AskConfigURL", "AskGithub", "AskPassword", "AskWifi", "AskServerAgent">>
      BY <1>2
    <2>2. Tail(asks) = <<"AskGithub", "AskPassword", "AskWifi", "AskServerAgent">>
      BY <2>1
    <2>. QED
      BY <2>1, <2>2
  <1>3. CASE Head(asks) = "AskGithub"
    <2>1. asks = <<"AskGithub", "AskPassword", "AskWifi", "AskServerAgent">>
      BY <1>3
    <2>2. Tail(asks) = <<"AskPassword", "AskWifi", "AskServerAgent">>
      BY <2>1
    <2>. QED
      BY <2>1, <2>2
  <1>4. CASE Head(asks) = "AskPassword"
    <2>1. asks = <<"AskPassword", "AskWifi", "AskServerAgent">>
      BY <1>4
    <2>2. Tail(asks) = <<"AskWifi", "AskServerAgent">>
      BY <2>1
    <2>. QED
      BY <2>1, <2>2
  <1>5. CASE Head(asks) = "AskWifi"
    <2>1. asks = <<"AskWifi", "AskServerAgent">>
      BY <1>5
    <2>2. Tail(asks) = <<"AskServerAgent">>
      BY <2>1
    <2>. QED
      BY <2>1, <2>2
  <1>6. CASE Head(asks) = "AskServerAgent"
    <2>1. asks = <<"AskServerAgent">>
      BY <1>6
    <2>2. Tail(asks) = << >>
      BY <2>1
    <2>. QED
      BY <2>1, <2>2
  <1>. QED
    BY <1>1, <1>2, <1>3, <1>4, <1>5, <1>6

LEMMA InitInv == Init => DialogueInv
  <1> SUFFICES ASSUME Init PROVE DialogueInv
    OBVIOUS
  <1>1. PICK c \in Configs : cfg = ConfigOf(c) /\ read = cfg
    BY DEF Init
  <1>2. cfg \in [Settings -> {"none", "config", "answer"}]
    BY <1>1 DEF ConfigOf
  <1>3. << >> \in Pending
    BY DEF Pending, AfterPassword
  <1>4. OnlyAdds /\ TokenInv
    BY <1>1 DEF ConfigOf, OnlyAdds, TokenInv, Settings
  <1>. QED
    BY <1>2, <1>3, <1>4 DEF Init, DialogueInv, TypeInv, OpenInv, LoginInv, AgentInv, EndInv,
        ShadowInv, FileInv, TempInv, Ended, Questions, Steps

\* Deciding what to do, and the turns of the functions.
LEMMA DecideInv == ASSUME DialogueInv, Start \/ Operation PROVE DialogueInv'
  <1> USE DEF DialogueInv, TypeInv, Ended, Questions, Steps, found, answers, outside
  <1>1. ASSUME NEW i \in {"yes", "no"}, at \in {"start", "operation?"}, Decided(i)
        PROVE  DialogueInv'
    <2>1. asks' \in Pending /\ (i = "no" => asks' \in AfterPassword)
      BY <1>1 DEF Decided, Asks, Pending, AfterPassword
    <2>2. asks' \in AfterPassword => i = "no" \/ silent
      BY <1>1 DEF Decided, Asks, AfterPassword
    <2>. QED
      BY <1>1, <2>1, <2>2 DEF Decided, OnlyAdds, OpenInv, LoginInv, AgentInv, TokenInv, EndInv,
          ShadowInv,
          FileInv, TempInv
  <1>2. CASE at = "start" /\ Turns("operation?")
    BY <1>2 DEF Turns, OnlyAdds, OpenInv, LoginInv, AgentInv, TokenInv, EndInv, ShadowInv,
        FileInv, TempInv
  <1>. QED
    BY <1>1, <1>2 DEF Start, Operation

LEMMA AskInv == ASSUME DialogueInv, Ask PROVE DialogueInv'
  <1> USE DEF DialogueInv, TypeInv, Ended, Questions, Steps, found, answers, outside
  <1>1. /\ Head(asks) \in Functions /\ asks' \in Pending
        /\ asks' \in AfterPassword => asks \in AfterPassword \/ Head(asks) = "AskPassword"
    BY RestPending DEF Ask, Rest
  <1>2. /\ at = "next" /\ asks # << >>
        /\ at' = IF Skipped(Head(asks)) THEN "next" ELSE First(Head(asks))
        /\ agent' = (agent \/ at' = "url")
        /\ UNCHANGED <<found, cfg, wifis, agreed, outside, install>>
    BY DEF Ask
  <1>3. at' \in {"next", "device", "file?", "github?", "password", "wifi?", "role?", "url",
                 "optional token"}
    BY <1>1, <1>2 DEF First, Functions, Unless
  <1>4. OpenInv'
    <2>1. CASE Skipped(Head(asks))
      BY <1>2, <2>1 DEF OpenInv
    <2>2. CASE ~Skipped(Head(asks))
      <3>1. at' = First(Head(asks)) /\ UNCHANGED cfg
        BY <1>2, <2>2
      <3>. QED
        BY <1>1, <2>2, <3>1 DEF Skipped, First, Functions, Unless, NoUrl, NoLogin, OpenInv
    <2>. QED
      BY <2>1, <2>2
  <1>5. LoginInv'
    BY <1>1, <1>2 DEF Skipped, First, Functions, Unless, NoUrl, NoLogin, LoginInv
  <1>6. AgentInv' /\ TokenInv'
    BY <1>2, <1>3 DEF AgentInv, TokenInv
  <1>. QED
    BY <1>1, <1>2, <1>3, <1>4, <1>5, <1>6 DEF OnlyAdds, EndInv, ShadowInv, FileInv, TempInv

\* Between questions nothing of what follows them happens.
Prompts == Questions \ {"operation?", "continue?"}
LEMMA StillAsking ==
    ASSUME DialogueInv, at \in Prompts, at' \in Prompts \cup {"next", "chpasswd"},
           cfg' \in [Settings -> {"none", "config", "answer"}],
           UNCHANGED <<silent, agreed, outside, install, asks>>
    PROVE  TypeInv' /\ EndInv' /\ ShadowInv' /\ FileInv' /\ TempInv'
  <1> USE DEF Prompts, Questions, Steps, Ended
  <1>1. TypeInv'
    BY DEF DialogueInv, TypeInv
  <1>2. UNCHANGED <<shadow, file, temp, env, mishaps>>
    BY DEF outside
  <1>3. EndInv' /\ ShadowInv'
    BY <1>2 DEF DialogueInv, EndInv, ShadowInv
  <1>4. FileInv'
    BY <1>2 DEF DialogueInv, FileInv
  <1>5. TempInv'
    BY <1>2 DEF DialogueInv, TempInv
  <1>. QED
    BY <1>1, <1>3, <1>4, <1>5

\* An answer that is given only adds to the configuration.
LEMMA AnswerInv ==
    ASSUME DialogueInv, at \in Prompts, at' \in Prompts \cup {"next"},
           NEW s \in Settings, cfg[s] # "config", cfg' = [cfg EXCEPT ![s] = "answer"],
           UNCHANGED <<silent, read, agreed, outside, install, asks>>
    PROVE  /\ TypeInv' /\ OnlyAdds' /\ EndInv' /\ ShadowInv' /\ FileInv' /\ TempInv'
           /\ at # "password" => LoginInv'
           /\ cfg'[s] = "answer" /\ \A t \in Settings \ {s} : cfg'[t] = cfg[t]
  <1>1. cfg \in [Settings -> {"none", "config", "answer"}]
    BY DEF DialogueInv, TypeInv
  <1>2. cfg' \in [Settings -> {"none", "config", "answer"}]
    BY <1>1
  <1>3. cfg'[s] = "answer" /\ \A t \in Settings \ {s} : cfg'[t] = cfg[t]
    BY <1>1
  <1>4. OnlyAdds'
    BY <1>3 DEF DialogueInv, OnlyAdds
  <1>5. at # "password" => LoginInv'
    BY <1>3 DEF DialogueInv, LoginInv, Prompts, Questions, Ended, Settings
  <1>. QED
    BY <1>2, <1>3, <1>4, <1>5, StillAsking

\* The questions.
LEMMA QuestionInv ==
    ASSUME DialogueInv,
           Device \/ File \/ Github \/ Wifi \/ WifiName \/ Role \/ Url \/ Token
    PROVE  DialogueInv'
  <1>1. ASSUME Turns(at'), at \in Prompts, at' \in Prompts \cup {"next"}, at # "password",
               OpenInv', AgentInv', TokenInv'
        PROVE  DialogueInv'
    <2>1. cfg' = cfg /\ read' = read /\ UNCHANGED <<silent, agreed, outside, install, asks>>
      BY <1>1 DEF Turns, found, answers
    <2>2. OnlyAdds' /\ cfg' \in [Settings -> {"none", "config", "answer"}]
      BY <2>1 DEF OnlyAdds, DialogueInv, TypeInv
    <2>3. LoginInv'
      BY <1>1, <2>1 DEF DialogueInv, LoginInv, Prompts, Questions, Ended
    <2>. QED
      BY <1>1, <2>1, <2>2, <2>3, StillAsking DEF DialogueInv
  <1>2. ASSUME NEW s \in Settings, cfg[s] # "config", Sets(s, at'),
               at \in Prompts, at' \in Prompts \cup {"next"}, at # "password",
               OpenInv', AgentInv', TokenInv'
        PROVE  DialogueInv'
    BY <1>2, AnswerInv DEF Sets, DialogueInv, found, outside
  <1> USE DEF DialogueInv, TypeInv, OpenInv, AgentInv, TokenInv, Turns, Sets, Unless, found,
      answers,
              Prompts, Questions, Settings
  <1>3. CASE Device
    BY <1>2, <1>3 DEF Device
  <1>4. CASE File
    <2>1. CASE at = "file?" /\ (Turns("next") \/ Turns("file"))
      BY <1>1, <2>1
    <2>2. CASE at = "file" /\ Sets("configUrl", "next")
      BY <1>2, <2>2
    <2>. QED
      BY <1>4, <2>1, <2>2 DEF File
  <1>5. CASE Github
    <2>1. CASE at = "github?" /\ (Turns("next") \/ Turns("users"))
      BY <1>1, <2>1
    <2>2. CASE at = "users" /\ Sets("keys", "next")
      BY <1>2, <2>2
    <2>. QED
      BY <1>5, <2>1, <2>2 DEF Github
  <1>6. CASE Wifi
    BY <1>1, <1>6 DEF Wifi
  <1>7. CASE WifiName
    BY <1>7, AnswerInv DEF WifiName
  <1>8. CASE Role
    <2>1. /\ at = "role?" /\ at' \in {"url", "optional token", "next"}
          /\ UNCHANGED <<cfg, read, silent, agreed, outside, install, asks>>
      BY <1>8 DEF Role
    <2>2. TypeInv' /\ EndInv' /\ ShadowInv' /\ FileInv' /\ TempInv'
      BY <2>1, StillAsking
    <2>3. OpenInv' /\ AgentInv' /\ TokenInv'
      BY <1>8, <2>1 DEF Role
    <2>4. OnlyAdds' /\ LoginInv'
      BY <2>1 DEF OnlyAdds, LoginInv, Ended
    <2>. QED
      BY <2>2, <2>3, <2>4
  <1>9. CASE Url
    BY <1>2, <1>9 DEF Url, AgentToken
  <1>10. CASE Token
    <2>1. CASE at \in {"token", "optional token"} /\ Sets("token", "next")
      BY <1>2, <2>1
    <2>2. CASE at = "optional token" /\ Turns("next")
      BY <1>1, <2>2
    <2>. QED
      BY <1>10, <2>1, <2>2 DEF Token
  <1>. QED
    BY <1>3, <1>4, <1>5, <1>6, <1>7, <1>8, <1>9, <1>10

\* AskPassword: the one answer that changes something outside, and undoes it.
LEMMA PasswordInv ==
    ASSUME DialogueInv, Password \/ Chpasswd \/ Hash \/ Restore
    PROVE  DialogueInv'
  <1> USE DEF DialogueInv, TypeInv, OnlyAdds, OpenInv, LoginInv, AgentInv, TokenInv, EndInv,
      ShadowInv,
              FileInv, TempInv, Ended, Questions, Steps, found, answers, outside
  <1>1. CASE Password
    <2>1. /\ at = "password" /\ at' \in {"password", "chpasswd"}
          /\ UNCHANGED <<found, answers, outside, install, asks>>
      BY <1>1 DEF Password, Turns
    <2>2. TypeInv' /\ EndInv' /\ ShadowInv' /\ FileInv' /\ TempInv'
      BY <2>1, StillAsking DEF Prompts
    <2>3. OpenInv' /\ AgentInv' /\ TokenInv'
      BY <2>1
    <2>4. OnlyAdds' /\ LoginInv'
      BY <2>1
    <2>. QED
      BY <2>2, <2>3, <2>4
  <1>2. CASE Chpasswd
    BY <1>2 DEF Chpasswd, Shadow
  <1>3. CASE Hash
    BY <1>3 DEF Hash, Sets, Settings
  <1>4. CASE Restore
    <2>1. /\ at = "restore" /\ at' = "next"
          /\ UNCHANGED <<found, answers, file, temp, env, install, asks>>
          /\ mishaps \subseteq mishaps'
      BY <1>4 DEF Restore, PutBack, Shadow
    <2>2. ShadowInv'
      BY <1>4 DEF Restore, PutBack, Shadow, Old
    <2>. QED
      BY <2>1, <2>2
  <1>. QED
    BY <1>1, <1>2, <1>3, <1>4

\* Setting up the running system.
LEMMA ApplyInv ==
    ASSUME DialogueInv, Truncate \/ Write \/ ConfigInstall
    PROVE  DialogueInv'
  <1> USE DEF DialogueInv, TypeInv, OnlyAdds, OpenInv, LoginInv, AgentInv, TokenInv, EndInv,
      ShadowInv,
              FileInv, TempInv, Ended, Questions, Steps, found, answers, outside
  <1>1. CASE Truncate
    BY <1>1 DEF Truncate, Answered, Writes
  <1>2. CASE Write
    BY <1>2 DEF Write, Writes
  <1>3. CASE ConfigInstall
    BY <1>3 DEF ConfigInstall, Turns
  <1>. QED
    BY <1>1, <1>2, <1>3

\* What is written is none of the two marks for a file that is not there, or not complete.
LEMMA Contents ==
    /\ All("missing") # All("partial")
    /\ cfg \in [Settings -> {"none", "config", "answer"}] =>
           NoInstall(cfg) \notin {All("missing"), All("partial")}
  <1>1. "device" \in Settings
    BY DEF Settings
  <1>2. All("missing")["device"] = "missing" /\ All("partial")["device"] = "partial"
    BY <1>1 DEF All
  <1>3. cfg \in [Settings -> {"none", "config", "answer"}] => NoInstall(cfg)["device"] = "none"
    BY <1>1 DEF NoInstall, Settings
  <1>. QED
    BY <1>2, <1>3

\* Installing to disk.
LEMMA InstallInv ==
    ASSUME DialogueInv, Summary \/ Continue \/ Temp \/ FillTemp \/ Installer
    PROVE  DialogueInv'
  <1> USE DEF DialogueInv, TypeInv, OnlyAdds, OpenInv, LoginInv, AgentInv, TokenInv, EndInv,
      ShadowInv,
              FileInv, TempInv, Ended, Questions, Steps, found, answers, outside
  <1>1. CASE Summary
    BY <1>1 DEF Summary, Answered, Unattended, Turns, AfterPassword
  <1>2. CASE Continue
    BY <1>2 DEF Continue
  <1>3. CASE Temp
    BY <1>3, Contents DEF Temp, Whole, Settings
  <1>4. CASE FillTemp
    BY <1>4, Contents DEF FillTemp
  <1>5. CASE Installer
    BY <1>5, Contents DEF Installer, Returns, Removed
  <1>. QED
    BY <1>1, <1>2, <1>3, <1>4, <1>5

\* An end before the end.
LEMMA EndedInv ==
    ASSUME DialogueInv, Fails \/ Killed
    PROVE  DialogueInv'
  <1> USE DEF DialogueInv, TypeInv, OnlyAdds, OpenInv, LoginInv, AgentInv, TokenInv, EndInv,
      ShadowInv,
              FileInv, TempInv, Ended, Questions, Steps, found, answers, outside
  <1>1. CASE Killed
    BY <1>1 DEF Killed, Turns
  <1>2. CASE Turns("error") /\ at \in Questions \cup {"start", "write", "apply", "temp"}
    <2>1. at' = "error" /\ UNCHANGED <<found, answers, outside, install, asks>>
      BY <1>2 DEF Turns
    <2>. QED
      BY <1>2, <2>1
  <1>3. CASE at \in {"chpasswd", "hash"} /\ PutBack("error")
    BY <1>3 DEF PutBack, Shadow, Old
  <1>4. CASE at = "installer" /\ temp = All("partial") /\ Turns("error")
    BY <1>4 DEF Turns
  <1>5. CASE at = "installer" /\ Returns("error")
    BY <1>5 DEF Returns, Removed
  <1>6. CASE CloseFails
    BY <1>6 DEF CloseFails
  <1>. QED
    BY <1>1, <1>2, <1>3, <1>4, <1>5, <1>6 DEF Fails

LEMMA NextInv == DialogueInv /\ [Next]_vars => DialogueInv'
  <1> SUFFICES ASSUME DialogueInv, [Next]_vars PROVE DialogueInv'
    OBVIOUS
  <1>1. CASE Step
    BY <1>1, DecideInv, AskInv, QuestionInv, PasswordInv, ApplyInv, InstallInv DEF Step
  <1>2. CASE Password
    BY <1>2, PasswordInv
  <1>3. CASE Fails \/ Killed
    BY <1>3, EndedInv
  <1>4. CASE UNCHANGED vars
    <2>1. UNCHANGED <<cfg, read, at, asks, silent, agreed, agent, install, shadow, file, temp, env,
                     mishaps>>
      BY <1>4 DEF vars, found, answers, outside
    <2>2. TypeInv' /\ OnlyAdds'
      BY <2>1 DEF DialogueInv, TypeInv, OnlyAdds
    <2>3. OpenInv' /\ LoginInv'
      BY <2>1 DEF DialogueInv, OpenInv, LoginInv
    <2>4. AgentInv' /\ TokenInv' /\ EndInv' /\ ShadowInv'
      BY <2>1 DEF DialogueInv, AgentInv, TokenInv, EndInv, ShadowInv
    <2>5. NoInstall(cfg)' = NoInstall(cfg)
      BY <2>1 DEF NoInstall
    <2>6. FileInv'
      BY <2>1, <2>5 DEF DialogueInv, FileInv
    <2>7. TempInv'
      BY <2>1, <2>5 DEF DialogueInv, TempInv
    <2>. QED
      BY <2>2, <2>3, <2>4, <2>6, <2>7 DEF DialogueInv
  <1>. QED
    BY <1>1, <1>2, <1>3, <1>4 DEF Next, Done

----------------------------------------------------------------------------

\* The inductive invariant of every run of `k3os install`.
THEOREM DialogueInvariant == Spec => []DialogueInv
  BY InitInv, NextInv, PTL DEF Spec

\* What was configured stands.  A system that is installed can be logged in to, unless the
\* configuration says silent or is elsewhere, and one that knows its server has a token,
\* unless the configuration gives the server alone (ask.go: AskInstall, AskServerAgent).
THEOREM AnswersAreComplete == Spec => []AnswersComplete
  <1>1. DialogueInv => AnswersComplete
    BY DEF DialogueInv, LoginInv, AgentInv, TokenInv, EndInv, AfterPassword, Ended,
           AnswersComplete, CanLogIn, AgentIsComplete
  <1>. QED
    BY <1>1, DialogueInvariant, PTL

\* The running system gets its password back, and the file with the secrets of the new one is
\* removed (ask.go:199, install.go: the deferred calls), unless the process is killed or the
\* very call that does it fails.
THEOREM NothingIsLeft == Spec => []NothingLeft
  <1>1. DialogueInv => NothingLeft
    BY DEF DialogueInv, ShadowInv, TempInv, Ended, NothingLeft, ShadowRestored, SecretsRemoved
  <1>. QED
    BY <1>1, DialogueInvariant, PTL

\* config.yaml is as it was until the last answer, and complete when it is applied.
THEOREM FileIsSafe == Spec => []FileSafe
  <1>1. DialogueInv => FileSafe
    BY DEF DialogueInv, TypeInv, FileInv, FileSafe, Ended, Questions, Steps
  <1>. QED
    BY <1>1, DialogueInvariant, PTL

\* The disk is formatted only with consent, by an installer that has all the answers
\* (install.go: runInstall).
THEOREM InstalledAsAgreed == Spec => []InstallsAsAgreed
  <1>1. ASSUME DialogueInv PROVE InstallsAsAgreed
    <2>1. Consent
      BY <1>1 DEF DialogueInv, TempInv, Consent
    <2>2. \A s \in Settings \ {"device", "configUrl"} : NoInstall(cfg)[s] = cfg[s]
      BY <1>1 DEF DialogueInv, TypeInv, NoInstall
    <2>3. NothingLost
      BY <1>1, <2>2, Contents DEF DialogueInv, TypeInv, TempInv, NothingLost
    <2>. QED
      BY <2>1, <2>3 DEF InstallsAsAgreed
  <1>. QED
    BY <1>1, DialogueInvariant, PTL
====
