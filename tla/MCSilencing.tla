---------------------------- MODULE MCSilencing ----------------------------
(***************************************************************************)
(* Model-checking instance of Silencing: a group of three alerts at two    *)
(* Alertmanagers, whose members at the first differ in a label, an alert   *)
(* of another team and one of another cluster that share the key, one at a *)
(* source without an Alertmanager, and a key with an empty value.  A       *)
(* duration has four bits and a second three units, so that three seconds  *)
(* wrap below zero and six wrap to two units.                              *)
(***************************************************************************)
EXTENDS Silencing, TLC

CONSTANTS a1, a2, a3, b1, c1, d1, s1, s2, s3

MCSourceOf == (a1 :> s1) @@ (a2 :> s1) @@ (a3 :> s2) @@ (b1 :> s1) @@ (c1 :> s3) @@ (d1 :> s1)

Shared == {<<"app", "x">>}
MCLabelsOf ==
    (a1 :> Shared \cup {<<"team", "t">>, <<"cluster", "a">>}) @@
    (a2 :> Shared \cup {<<"team", "t">>, <<"cluster", "b">>}) @@
    (a3 :> Shared \cup {<<"team", "t">>, <<"cluster", "c">>}) @@
    (b1 :> Shared \cup {<<"team", "u">>, <<"cluster", "a">>}) @@
    (c1 :> Shared \cup {<<"team", "u">>, <<"cluster", "z">>}) @@
    (d1 :> Shared \cup {<<"team", "t">>, <<"cluster", "z">>})

MCGroups == {[labels |-> Shared \cup {<<"zone", "">>}, sources |-> {s1, s2, s3}],
             [labels |-> Shared, sources |-> {s1}]}

\* One team in the clusters a to c, which a1 and a2 meet with different values,
\* and the other teams everywhere else.
Matcher(name, operator, value) == [name |-> name, operator |-> operator, value |-> value]
MCGrants == {{Matcher("team", "=", "t"), Matcher("cluster", "=~", "[a-c]")},
             {Matcher("team", "!=", "t"), Matcher("cluster", "!~", "[a-c]")}}
MCFinds == {<<"[a-c]", c>> : c \in {"a", "b", "c"}}
=============================================================================
