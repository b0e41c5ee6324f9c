---- MODULE MCAuthorizedKeys ----
(***************************************************************************)
(* Instances of AuthorizedKeys for TLC: a key and a server, whose user has *)
(* one key, adds a second, or has none; two attempts instead of ten.       *)
(***************************************************************************)
EXTENDS AuthorizedKeys

KeyAndServer == <<Entry(<<"key">>), Server>>
NoneOrOne == {<< >>, <<"first">>}
====
