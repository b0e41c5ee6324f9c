---- MODULE AuthorizedKeys ----
(***************************************************************************)
(* ~/.ssh/authorized_keys of the user rancher, which `k3os config` extends *)
(* in the boot phase, without network, and in the runtime phase, with it,  *)
(* while the user appends to it: pkg/ssh/ssh.go, util.WriteFileAtomic.     *)
(*                                                                         *)
(* /home is on the state partition: the file outlives the boots.           *)
(***************************************************************************)
EXTENDS Naturals, FiniteSets, SequencesExt

CONSTANTS
    Config,     \* ssh_authorized_keys: a sequence of entries
    Bodies,     \* what a server may answer: sequences of lines
    UserLines,  \* lines the user may append
    Procs,      \* the processes that run SetAuthorizedKeys
    Tries,      \* attempts to reach a server, 10 in the code
    MaxCuts,    \* bounds on the losses of power
    MaxFaults   \* and on the system calls that fail

\* An entry is a key or, if it has a URL scheme, names a server.
Entry(text) == [url |-> FALSE, text |-> text]
Server == [url |-> TRUE, text |-> << >>]
Texts == {Config[i].text : i \in DOMAIN Config} \cup Bodies
Lines == (UNION {Range(t) : t \in Texts}) \cup UserLines

ASSUME AuthorizedKeysAssumption ==
    /\ "boot" \in Procs /\ Procs \subseteq {"boot", "ccapply", "operator"}
    /\ Config \in Seq([url : BOOLEAN, text : Texts])
    /\ IsFiniteSet(Texts) /\ IsFiniteSet(UserLines)
    /\ \A t \in Texts : t \in Seq(Lines)
    /\ Tries \in Nat \ {0} /\ MaxCuts \in Nat /\ MaxFaults \in Nat

VARIABLES
    stage,  \* "boot", then "runlevel"
    dir,    \* ~/.ssh: "none", of "root" or of "rancher"
    file,   \* authorized_keys
    temps,  \* temporary files that nobody will remove
    pc, run,
    cuts, faults

vars == <<stage, dir, file, temps, pc, run, cuts, faults>>

NoFile == [here |-> FALSE, lines |-> << >>, private |-> FALSE, owned |-> FALSE]

\* A run of SetAuthorizedKeys: the entry it is at, the attempts to reach its server,
\* the text to add, what was read of the file and its mode.  Of the others it does
\* not know which lines came since it looked at the file, and whether they replaced
\* the file it has created.
IdleRun == [i |-> 1, tries |-> 0, text |-> << >>, seen |-> << >>, private |-> FALSE,
            came |-> {}, mine |-> FALSE, added |-> {}]

Init ==
    /\ stage = "boot" /\ dir = "none" /\ file = NoFile /\ temps = 0
    /\ pc = [p \in Procs |-> "idle"]
    /\ run = [p \in Procs |-> IdleRun]
    /\ cuts = 0 /\ faults = 0

Goto(p, from, to) == pc[p] = from /\ pc' = [pc EXCEPT ![p] = to]
Known(p, r) == run' = [run EXCEPT ![p] = r]

\* The file becomes f.  The other runs have not seen the lines that came with it, and
\* no longer hold it if it is another file.
Becomes(p, f, another, r) ==
    /\ file' = f
    /\ run' = [q \in Procs |->
          IF q = p THEN r
          ELSE [run[q] EXCEPT !.came = @ \cup (Range(f.lines) \ Range(file.lines)),
                              !.mine = @ /\ ~another]]

\* The boot phase precedes the services: ccapply, and the operator's shell.
Start(p) ==
    /\ stage = IF p = "boot" THEN "boot" ELSE "runlevel"
    /\ Goto(p, "idle", "dir")
    /\ UNCHANGED <<stage, dir, file, temps, run, cuts, faults>>

BootDone ==
    /\ stage = "boot" /\ pc["boot"] = "done"
    /\ stage' = "runlevel"
    /\ UNCHANGED <<dir, file, temps, pc, run, cuts, faults>>

MakeDir(p) ==
    /\ Goto(p, "dir", "chowndir")
    /\ dir' = IF dir = "none" THEN "root" ELSE dir
    /\ UNCHANGED <<stage, file, temps, run, cuts, faults>>

ChownDir(p) ==
    /\ Goto(p, "chowndir", "key")
    /\ dir' = "rancher"
    /\ UNCHANGED <<stage, file, temps, run, cuts, faults>>

\* The entry is done with, successfully or not; or there is a text to authorize.
Skip(p, added) ==
    [IdleRun EXCEPT !.i = run[p].i + 1, !.added = run[p].added \cup added]
Give(p, text) == [run[p] EXCEPT !.text = text, !.came = {}]

Key(p) ==
    /\ IF run[p].i > Len(Config) THEN Goto(p, "key", "done") /\ UNCHANGED run
       ELSE LET e == Config[run[p].i] IN
            IF ~e.url THEN Goto(p, "key", "stat") /\ Known(p, Give(p, e.text))
            ELSE IF p = "boot" THEN Goto(p, "key", "key") /\ Known(p, Skip(p, {}))
            ELSE Goto(p, "key", "fetch") /\ UNCHANGED run
    /\ UNCHANGED <<stage, dir, file, temps, cuts, faults>>

\* The server answers with keys, perhaps none.
Fetched(p) ==
    /\ \E body \in Bodies :
         IF body = << >> THEN Goto(p, "fetch", "key") /\ Known(p, Skip(p, {}))
         ELSE Goto(p, "fetch", "stat") /\ Known(p, Give(p, body))
    /\ UNCHANGED <<stage, dir, file, temps, cuts, faults>>

\* It is not reached, at the last attempt for good; or it answers with an error.
TryAgain(p) == run[p].tries + 1 < Tries

NotFetched(p) ==
    /\ \/ /\ TryAgain(p)
          /\ Goto(p, "fetch", "fetch")
          /\ Known(p, [run[p] EXCEPT !.tries = @ + 1])
       \/ Goto(p, "fetch", "key") /\ Known(p, Skip(p, {}))
    /\ UNCHANGED <<stage, dir, file, temps, cuts, faults>>

\* authorizeSSHKey: the mode of the file, if there is one.
StatForgotten(p) ==
    /\ Goto(p, "stat", "create")
    /\ UNCHANGED <<stage, dir, file, temps, run, cuts, faults>>
Stat(p) ==
    /\ IF file.here
       THEN Goto(p, "stat", "read") /\ Known(p, [run[p] EXCEPT !.private = file.private])
       ELSE Goto(p, "stat", "create") /\ UNCHANGED run
    /\ UNCHANGED <<stage, dir, file, temps, cuts, faults>>

\* A file with the mode the umask gives.  os.Create empties one that somebody has
\* created in the meantime.
Create(p) ==
    /\ Goto(p, "create", "chmod")
    /\ Becomes(p, IF file.here THEN [file EXCEPT !.lines = << >>] ELSE [NoFile EXCEPT !.here = TRUE],
               FALSE, [run[p] EXCEPT !.mine = TRUE])
    /\ UNCHANGED <<stage, dir, temps, cuts, faults>>

\* The mode is set through the descriptor, and read back through the name.
Chmod(p) ==
    /\ Goto(p, "chmod", "read")
    /\ file' = [file EXCEPT !.private = @ \/ run[p].mine]
    /\ Known(p, [run[p] EXCEPT !.private = file'.private])
    /\ UNCHANGED <<stage, dir, temps, cuts, faults>>

ReadAndReturnIfThere(p) ==
    /\ IF run[p].text \in SubSeqs(file.lines)
       THEN Goto(p, "read", "key") /\ Known(p, Skip(p, {}))
       ELSE Goto(p, "read", "temp") /\ Known(p, [run[p] EXCEPT !.seen = file.lines])
    /\ UNCHANGED <<stage, dir, file, temps, cuts, faults>>
Read(p) ==
    /\ Goto(p, "read", "temp")
    /\ Known(p, [run[p] EXCEPT !.seen = file.lines])
    /\ UNCHANGED <<stage, dir, file, temps, cuts, faults>>

\* WriteFileAtomic: a complete temporary file of root, with the mode of the old file,
\* takes its place.
Temp(p) ==
    /\ Goto(p, "temp", "rename")
    /\ UNCHANGED <<stage, dir, file, temps, run, cuts, faults>>

ExtendedForgotten(r) == r.text
ExtendedAgain(r) == r.seen \o r.text
Extended(r) == IF r.text \in SubSeqs(r.seen) THEN r.seen ELSE r.seen \o r.text

Rename(p) ==
    /\ Goto(p, "rename", "chown")
    /\ Becomes(p, [here |-> TRUE, lines |-> Extended(run[p]), private |-> run[p].private,
                   owned |-> FALSE], TRUE, run[p])
    /\ UNCHANGED <<stage, dir, temps, cuts, faults>>

Chowned(p) == [file EXCEPT !.owned = TRUE]

Chown(p) ==
    /\ Goto(p, "chown", "key")
    /\ file' = Chowned(p)
    /\ Known(p, Skip(p, {run[p].text}))
    /\ UNCHANGED <<stage, dir, temps, cuts, faults>>

\* A failing call ends the run or, once there is a text, only what is done for its
\* entry.  The temporary file is removed.
LeftBehind(p) == 0

Fail(p) ==
    /\ faults < MaxFaults /\ faults' = faults + 1
    /\ \/ \E l \in {"dir", "chowndir"} : Goto(p, l, "done") /\ UNCHANGED run
       \/ /\ \E l \in {"create", "chmod", "read", "temp", "rename", "chown"} : Goto(p, l, "key")
          /\ Known(p, Skip(p, {}))
    /\ temps' = temps + LeftBehind(p)
    /\ UNCHANGED <<stage, dir, file, cuts>>

\* The user appends to the file (`>>`), which must be writable for him.
UserAppend(line) ==
    /\ stage = "runlevel" /\ dir = "rancher"
    /\ file.here => file.owned
    /\ line \notin Range(file.lines)
    /\ Becomes("user", [file EXCEPT !.here = TRUE, !.owned = TRUE, !.lines = Append(@, line)],
               FALSE, IdleRun)
    /\ UNCHANGED <<stage, dir, temps, pc, cuts, faults>>

\* A loss of power, or a reboot in the middle of it all.
LosePower ==
    /\ cuts < MaxCuts /\ cuts' = cuts + 1
    /\ stage' = "boot"
    /\ temps' = temps + Cardinality({p \in Procs : pc[p] = "rename"})
    /\ pc' = [p \in Procs |-> "idle"]
    /\ run' = [p \in Procs |-> IdleRun]
    /\ UNCHANGED <<dir, file, faults>>

\* Everything is authorized and nobody has anything to add.
Settled ==
    /\ stage = "runlevel" /\ \A p \in Procs : pc[p] = "done"
    /\ UNCHANGED vars

Step(p) ==
    \/ Start(p) \/ MakeDir(p) \/ ChownDir(p) \/ Key(p) \/ Fetched(p) \/ NotFetched(p)
    \/ Stat(p) \/ Create(p) \/ Chmod(p) \/ Read(p) \/ Temp(p) \/ Rename(p) \/ Chown(p)

Next ==
    \/ \E p \in Procs : Step(p) \/ Fail(p)
    \/ BootDone \/ LosePower \/ Settled
    \/ \E line \in UserLines : UserAppend(line)

\* init runs the boot phase and OpenRC ccapply; neither is kept from going on.
Spec ==
    /\ Init /\ [][Next]_vars
    /\ WF_vars(BootDone) /\ \A p \in Procs \ {"operator"} : WF_vars(Step(p))

----------------------------------------------------------------------------
\* Properties.

Labels == {"idle", "dir", "chowndir", "key", "fetch", "stat", "create", "chmod", "read",
           "temp", "rename", "chown", "done"}

FileType == [here : BOOLEAN, lines : Seq(Lines), private : BOOLEAN, owned : BOOLEAN]
RunType ==
    [i : Nat \ {0}, tries : 0 .. Tries - 1, text : Seq(Lines), seen : Seq(Lines),
     private : BOOLEAN, came : SUBSET Lines, mine : BOOLEAN, added : SUBSET Seq(Lines)]

TypeOK ==
    /\ stage \in {"boot", "runlevel"} /\ dir \in {"none", "root", "rancher"}
    /\ file \in FileType
    /\ temps \in Nat
    /\ pc \in [Procs -> Labels]
    /\ run \in [Procs -> RunType]
    /\ cuts \in 0 .. MaxCuts /\ faults \in 0 .. MaxFaults

\* A key is lost only if it came while the run that drops it was writing its own: what
\* was there when the run looked at the file stays, and the seconds of waiting for a
\* server are not in between (authorizeSSHKey calls getKey before it looks).
OnlyRacesLose ==
    [][\A p \in Procs : pc[p] \in {"create", "rename"} /\ pc'[p] \in {"chmod", "chown"}
          => Range(file.lines) \ Range(file'.lines) \subseteq run[p].came]_vars

\* As long as the operator runs nothing beside it, what a phase has authorized stays in the
\* file until the next loss of power and the user's editing does not undo it.
KeysAuthorized ==
    ("operator" \in Procs => pc["operator"] = "idle") =>
    \A p \in Procs : \A t \in run[p].added : t \in SubSeqs(file.lines)

\* However often and in whatever order the phases run, a text is in the file once, so that
\* it does not grow with the boots; a temporary file beside it that nobody will remove was
\* left by a loss of power; and unless something went wrong or a run is about to see to it,
\* the file belongs to rancher, who could not log in with it otherwise.
GrowsWithConfigOnly ==
    Len(file.lines) <= MapThenSumSet(Len, Texts) + Cardinality(UserLines)
TempsFromCutsOnly == temps <= cuts * Cardinality(Procs)
Writing == {"create", "chmod", "read", "temp", "rename", "chown"}
UsableWhenIdle ==
    file.here /\ cuts = 0 /\ faults = 0 /\ (\A p \in Procs : pc[p] \notin Writing)
        => file.owned
FileInOrder == GrowsWithConfigOnly /\ TempsFromCutsOnly /\ UsableWhenIdle

\* A file that a loss of power left to root, before its chown, comes back to rancher
\* unless a call fails or a run of the operator stops halfway: each phase that has a key
\* to add, new or not, rewrites it.
HalfWay == "operator" \in Procs /\ pc["operator"] \notin {"idle", "done"}
Repaired == file.here /\ ~file.owned ~> file.owned \/ faults > 0 \/ HalfWay
====
