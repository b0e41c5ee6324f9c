---- MODULE MCStart ----
(***************************************************************************)
(* An instance of Start for TLC.                                           *)
(***************************************************************************)
EXTENDS Start

\* The mark is _sqmagic_ without the bytes that occur nowhere else in it: it begins and
\* ends the same.
ShortMark == <<"_", "s", "_">>
MarkBytes == {"_", "s", "x"}

\* A directory with two files, an entry of any kind beside it, and /mnt.
MovedEntries == {"etc", "hosts", "passwd", "init", "mnt"}
DirOf == [e \in MovedEntries |-> IF e \in {"hosts", "passwd"} THEN "etc" ELSE "/"]
====
