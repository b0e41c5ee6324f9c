---- MODULE ConfigRead ----
(***************************************************************************)
(* config.ReadConfig: the sources of the configuration are read, each is   *)
(* brought to the names and types of the schema, and they are merged in    *)
(* order and decoded.  pkg/config: read.go, read_cc.go, rename.go,         *)
(* coerce.go; merge and decoding as of the libraries.                      *)
(*                                                                         *)
(* Fields do not depend on each other, except that one error stops all:    *)
(* the module follows one field, such as runCmd, powerOff or serverUrl.    *)
(***************************************************************************)
EXTENDS Naturals, FiniteSets, Sequences

CONSTANTS Written,      \* the values that may be written
          MaxNames,     \* bounds on the names of the field in one source
          MaxGiven      \* and on the sources that say something

\* `readers` and the files of config.d, of which there may be more.
Readers == <<"system", "cmdline", "local", "cloud", "userdata", "config.d">>

\* A field may be written by its name, by that name in lower case, and by names that
\* differ from it in more than case: singular, or with underscores (`other`).
Forms == {"field", "lower", "other"}
Kinds == {"list", "string", "bool"}

\* A value, and its type as it is read: true without quotes is a boolean in YAML and a
\* string on the command line.
Value(type, items) == [kind |-> type, items |-> items]

VARIABLES
    kind,   \* the type of the field in the schema
    given,  \* what the sources read so far say of the field
    data,   \* the merged sources
    result, \* what CloudConfig holds
    status  \* "reading", "decoded" or "error"

vars == <<kind, given, data, result, status>>

Nothing == [f \in {} |-> Value("string", << >>)]
Unset == Value("unset", << >>)

Init ==
    /\ kind \in Kinds
    /\ given = << >> /\ data = Nothing
    /\ result = Unset /\ status = "reading"

Maps(values) ==
    UNION {[fs -> values] : fs \in {fs \in SUBSET Forms : Cardinality(fs) <= MaxNames}}
OfKind(ks) == {v \in Written : v.kind \in ks}

\* What a reader may return.  The metadata of a cloud holds keys or a host name, and
\* userdata that is a script becomes a file to write and a command to run.
Script == [f \in {"field"} |-> Value("list", <<"script">>)]
Source(reader) ==
    CASE reader = "cmdline" -> Maps(OfKind({"string", "list"}))
      [] reader = "cloud" /\ kind = "list" -> {Nothing} \cup [{"other"} -> OfKind({"list"})]
      [] reader = "cloud" /\ kind = "string" -> {Nothing} \cup [{"field"} -> OfKind({"string"})]
      [] reader = "cloud" /\ kind = "bool" -> {Nothing}
      [] reader = "userdata" /\ kind = "list" -> Maps(Written) \cup {Script}
      [] OTHER -> Maps(Written)

\* NewToSlice, NewToBool: what a string becomes in a field that is none.
Coerced(value) ==
    IF value.kind # "string" THEN value
    ELSE IF kind = "list" THEN Value("list", value.items)
    ELSE IF kind = "bool"
         THEN Value("bool", IF value.items = <<"true">> THEN <<"true">> ELSE <<"false">>)
    ELSE value

\* FuzzyNames: the value of another name of the field is stored under its own as well.
\* Of several the map's order of iteration decides.
Renamed(source) ==
    LET others == DOMAIN source \ {"field"} IN
    IF others = {} THEN {source}
    ELSE {[f \in DOMAIN source \cup {"field"} |-> source[IF f = "field" THEN o ELSE f]] :
             o \in others}

\* ToInternal runs the last mapper first: the names, then the types.
CoercedField(source) ==
    [f \in DOMAIN source |-> IF f = "field" THEN Coerced(source[f]) ELSE source[f]]
NamesLast(source) == Renamed(CoercedField(source))
ToInternal(source) == {CoercedField(s) : s \in Renamed(source)}

\* mergeMaps: a later value replaces an earlier one, lists and maps as a whole.
Merged(old, new) ==
    [f \in DOMAIN old \cup DOMAIN new |-> IF f \in DOMAIN new THEN new[f] ELSE old[f]]

Says(source) == source # Nothing
Read ==
    /\ status = "reading" /\ Len(given) < Len(Readers)
    /\ \E source \in Source(Readers[Len(given) + 1]) :
         /\ Says(source) => Cardinality({i \in DOMAIN given : Says(given[i])}) < MaxGiven
         /\ given' = Append(given, source)
         /\ \E new \in ToInternal(source) : data' = Merged(data, new)
    /\ UNCHANGED <<kind, result, status>>

\* A file that is no YAML or cannot be read.
ReadFails ==
    /\ status = "reading" /\ Len(given) < Len(Readers)
    /\ Readers[Len(given) + 1] # "cloud"
    /\ status' = "error"
    /\ UNCHANGED <<kind, given, data, result>>

Fits(value) == value.kind = kind

\* encoding/json takes the keys in order, the field's own name before the one in lower
\* case, and ignores case when it looks for the field.
Decode ==
    /\ status = "reading" /\ Len(given) = Len(Readers)
    /\ LET names == {"field", "lower"} \cap DOMAIN data
           fitting == {f \in names : Fits(data[f])} IN
       /\ result' = IF fitting = {} THEN Unset
                    ELSE data[IF "lower" \in fitting THEN "lower" ELSE "field"]
       /\ status' = IF fitting = names THEN "decoded" ELSE "error"
    /\ UNCHANGED <<kind, given, data>>

Done == status # "reading" /\ UNCHANGED vars

Next == Read \/ ReadFails \/ Decode \/ Done
Spec == Init /\ [][Next]_vars

----------------------------------------------------------------------------
\* Properties.

TypeOK ==
    /\ kind \in Kinds /\ Len(given) \in 0 .. Len(Readers)
    /\ status \in {"reading", "decoded", "error"}
    /\ DOMAIN data \subseteq Forms
    /\ "field" \in DOMAIN data => data["field"].kind \in Kinds
    /\ result = Unset \/ result.kind = kind

\* The sources in which the field occurs, by one of the names.
Sources(names) == {i \in DOMAIN given : DOMAIN given[i] \cap names # {}}
LastOf(S) == CHOOSE i \in S : \A j \in S : j <= i

\* The last source that names the field decides, whatever the order of iteration was,
\* if nobody writes it in lower case and that source uses one name only.
Consistent == Sources({"lower"}) = {}
LastSourceWins ==
    status = "decoded" /\ Consistent /\ Sources(Forms) # {} =>
        \E f \in DOMAIN given[LastOf(Sources(Forms))] :
            result = Coerced(given[LastOf(Sources(Forms))][f])

\* A string is as good as a list or a boolean, unless the name is in lower case, and a
\* mistake in a field that a later source overrides does no harm: the configuration as
\* a whole is refused only because of a value that has the wrong type and is in force.
StringsAreCoerced ==
    status = "error" /\ Len(given) = Len(Readers) /\ Consistent =>
        \E f \in DOMAIN given[LastOf(Sources(Forms))] :
            given[LastOf(Sources(Forms))][f].kind \notin {"string", kind}

\* A name in lower case is in force over every other one, in an earlier source as well.
LowerCaseSticks ==
    status = "decoded" /\ ~Consistent =>
        result = given[LastOf(Sources({"lower"}))]["lower"]

====
