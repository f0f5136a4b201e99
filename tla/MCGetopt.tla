--------------------------------- MODULE MCGetopt ---------------------------------
(***************************************************************************)
(* Small instances of Getopt: all short lines of a rich alphabet, and the  *)
(* longer ones of the arguments that matter to the permutation.            *)
(***************************************************************************)
EXTENDS Getopt, TLC

Shorts == ("a" :> "none") @@ ("b" :> "required") @@ ("c" :> "optional")
Longs ==
  <<[name |-> <<"a", "d", "d">>, takes |-> "required", val |-> "add"],
    [name |-> <<"a", "l", "l">>, takes |-> "none", val |-> "all"],
    [name |-> <<"a", "l", "l", "o">>, takes |-> "none", val |-> "all"],
    [name |-> <<"b">>, takes |-> "optional", val |-> "b"]>>

Few == {Word, Dashes, Short(<<"a">>), Short(<<"b">>)}
Many == Few \cup
  {Short(<<"a", "b">>), Short(<<"b", "a">>), Short(<<"a", "c">>), Short(<<"x", "a">>),
   Short(<<"a", "d">>), Short(<<"c", "z">>),
   Long(<<"a">>), Long(<<"a", "d">>), Long(<<"a", "l">>), LongWith(<<"a", "l", "l">>),
   LongWith(<<"b">>), Long(<<"z">>)}

Lines(S, n) == UNION {[1..k -> S] : k \in 0..n}
Words(l) == Cardinality({i \in DOMAIN l : l[i] = Word})
TestLines ==
  Lines(Few, 4) \cup {l \in [1..5 -> Few] : Words(l) = 3} \cup Lines(Many, 2)
  \cup {<<Word, x, y>> : x \in Many, y \in Many} \cup {<<x, Word, y>> : x \in Many, y \in Many}
=============================================================================
