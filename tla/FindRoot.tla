---- MODULE FindRoot ----
(***************************************************************************)
(* findRoot and inFile (pkg/enterchroot/enter.go): where the root image    *)
(* is.  The build appends a mark and then the image to the binary; inFile  *)
(* looks for the mark one byte after the other, in whatever pieces the     *)
(* reads return.                                                           *)
(***************************************************************************)
EXTENDS Naturals, Sequences

CONSTANTS Magic,   \* the mark
          Bytes,   \* the bytes that occur
          MaxFile, \* bound on the length of the binary
          Buffer   \* the size of a read, 8192 in the code

VARIABLES
    root,    \* ENTER_ROOT, if that is set
    beside,  \* the files with the suffixes .root and .squashfs
    file,    \* the binary
    piece,   \* where the piece that was read ends
    pos,     \* the bytes looked at
    found,   \* how much of the mark they end with, as far as the code knows
    result   \* "none", "error", or where the root is

vars == <<root, beside, file, piece, pos, found, result>>

At(where, offset) == [where |-> where, offset |-> offset]
None == At("none", 0)

Init ==
    /\ root \in BOOLEAN
    /\ beside \in SUBSET {".root", ".squashfs"}
    /\ file \in UNION {[1 .. n -> Bytes] : n \in 0 .. MaxFile}
    /\ piece = 0 /\ pos = 0 /\ found = 0 /\ result = None

\* findRoot.
FromEnvironment ==
    /\ result = None /\ root
    /\ result' = At("ENTER_ROOT", 0)
    /\ UNCHANGED <<root, beside, file, piece, pos, found>>
Beside ==
    /\ result = None /\ ~root /\ beside # {}
    /\ result' = At(IF ".root" \in beside THEN ".root" ELSE ".squashfs", 0)
    /\ UNCHANGED <<root, beside, file, piece, pos, found>>
Searching == result = None /\ ~root /\ beside = {}

\* inFile: a read returns some bytes.
Forgotten(n) == 0
Carried(n) == n
Read ==
    /\ Searching /\ pos = piece /\ pos < Len(file)
    /\ \E n \in 1 .. Buffer : pos + n <= Len(file) /\ piece' = pos + n
    /\ found' = Carried(found)
    /\ UNCHANGED <<root, beside, file, pos, result>>

\* The byte that does not go on with the mark is not looked at as its beginning.
GoesOn == file[pos + 1] = Magic[found + 1]
Byte ==
    /\ Searching /\ pos < piece
    /\ pos' = pos + 1
    /\ found' = IF GoesOn THEN found + 1 ELSE 0
    /\ result' = IF GoesOn /\ found + 1 = Len(Magic) THEN At("file", pos + 1) ELSE None
    /\ UNCHANGED <<root, beside, file, piece>>

\* The end of the file, or a read that fails.
End ==
    /\ Searching /\ pos = piece
    /\ result' = At("error", 0)
    /\ UNCHANGED <<root, beside, file, piece, pos, found>>

Done == result # None /\ UNCHANGED vars

Next == FromEnvironment \/ Beside \/ Read \/ Byte \/ End \/ Done
Spec == Init /\ [][Next]_vars

----------------------------------------------------------------------------
\* Properties.

TypeOK ==
    /\ pos \in 0 .. piece /\ piece \in 0 .. Len(file)
    /\ found \in 0 .. Len(Magic)
    /\ result.where \in {"none", "error", "ENTER_ROOT", ".root", ".squashfs", "file"}

\* The mark ends at the n-th byte.
Mark(n) == n >= Len(Magic) /\ \A i \in DOMAIN Magic : file[n - Len(Magic) + i] = Magic[i]

\* What is found is there, and the image begins right after it.
Sound ==
    /\ result.where = "file" => Mark(result.offset)
    /\ found <= pos /\ \A i \in 1 .. found : file[pos - found + i] = Magic[i]

\* Every mark is found unless a beginning of the mark, longer than none, comes just before
\* it: the code takes the one for the continuation of the other.
Beginning(n) ==
    \E k \in 1 .. Len(Magic) - 1 : k <= n /\ \A i \in 1 .. k : file[n - k + i] = Magic[i]
Complete ==
    \A n \in 1 .. pos :
        Mark(n) =>
            \/ result.where = "file" /\ result.offset <= n
            \/ Beginning(n - Len(Magic))
====
