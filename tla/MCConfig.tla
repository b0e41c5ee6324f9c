---- MODULE MCConfig ----
(***************************************************************************)
(* An instance of Config for TLC.                                          *)
(***************************************************************************)
EXTENDS Config

\* For each type of a field a value of it, two that become one of it and one that does
\* not fit.
FourValues == {[kind |-> "string", items |-> <<"true">>], [kind |-> "string", items |-> <<"a">>],
               [kind |-> "list", items |-> <<"a">>], [kind |-> "bool", items |-> <<"true">>]}

\* Keys that repeat, keys that continue each other, and an entry of a map.
Dotted == {<<"k3os">>, <<"k3os", ".", "token">>, <<"k3os", ".", "dns">>,
           <<"k3os", ".", "labels", ".", "a">>, <<"k3os", ".", "labels">>, 
           <<"k3os", ".", "sysctl", "[", "kernel", ".", "printk", "]">>}
DottedWords == {[key |-> k, value |-> v] : k \in Dotted, v \in {"true", "x"}}
====
