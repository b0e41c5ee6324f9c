---- MODULE Config ----
(***************************************************************************)
(* How a configuration is read and written: the kernel command line        *)
(* (Cmdline), the merging of the sources (ConfigRead) and the file that    *)
(* the dialogue writes (ConfigWrite).  They are functions without state of *)
(* their own, so a behaviour goes through one of them, its `part`, and the *)
(* variables of the others are "unused".                                   *)
(***************************************************************************)
EXTENDS Cmdline

CONSTANTS Written, MaxNames, MaxGiven,  \* of ConfigRead
          MaxLength, MaxKeys            \* of ConfigWrite

VARIABLES part,
          kind, sources, merged, result, status,
          given, map, todo

CR == INSTANCE ConfigRead WITH given <- sources, data <- merged
CW == INSTANCE ConfigWrite WITH data <- map

Unused(x) == x = "unused"
CmdlineUnused == words = << >> /\ data = << >>
ReadUnused ==
    Unused(kind) /\ Unused(sources) /\ Unused(merged) /\ Unused(result) /\ Unused(status)
WriteUnused == Unused(given) /\ Unused(map) /\ Unused(todo)

readVars == <<kind, sources, merged, result, status>>
writeVars == <<given, map, todo>>

ConfigInit ==
    \/ part = "cmdline" /\ Init /\ ReadUnused /\ WriteUnused
    \/ part = "read" /\ CR!Init /\ CmdlineUnused /\ WriteUnused
    \/ part = "write" /\ CW!Init /\ CmdlineUnused /\ ReadUnused

ConfigNext ==
    \/ part = "cmdline" /\ Next /\ UNCHANGED <<part, readVars, writeVars>>
    \/ part = "read" /\ CR!Next /\ UNCHANGED <<part, vars, writeVars>>
    \/ part = "write" /\ CW!Next /\ UNCHANGED <<part, vars, readVars>>

ConfigSpec == ConfigInit /\ [][ConfigNext]_<<part, vars, readVars, writeVars>>

----------------------------------------------------------------------------
\* Properties, beside those of Cmdline.

\* ReadConfig: the last source that names a field decides it, in whatever order the names
\* of a source are visited; a name in lower case decides it over every other one.  A
\* string will do for any field, and a mistake that a later source corrects does no harm.
LastWins ==
    part = "read" => CR!LastSourceWins /\ CR!LowerCaseSticks /\ CR!StringsAreCoerced

\* toYAMLKeys: a setting that is written is read again, under one name in lower case,
\* however the iteration over the map that it changes goes.
ReadsBack == part = "write" => CW!FieldsReadBack /\ CW!WrittenInLowerCase
====
