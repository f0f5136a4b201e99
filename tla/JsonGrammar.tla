------------------------------- MODULE JsonGrammar -------------------------------
(***************************************************************************)
(* A reference for what LibJson reads: the elements of a container,        *)
(* defined on its text and not by a parse. A quote is structural unless an *)
(* odd number of backslashes stands before it; a character is outside all  *)
(* strings when an even number of quotes does; an element ends at a comma  *)
(* that only the brackets of the container enclose.                        *)
(***************************************************************************)
EXTENDS Integers, Sequences, FiniteSets

Blanks == {" ", "\t", "\r", "\n"}
Opens == {"{", "["}
Closes == {"}", "]"}

Escaped(t, i) ==
  \E k \in 1..i - 1 : /\ (i - k) % 2 = 1
                      /\ \A j \in k..i - 1 : t[j] = "\\"
                      /\ k = 1 \/ t[k - 1] # "\\"

Quotes(t) == {i \in DOMAIN t : t[i] = "\"" /\ ~Escaped(t, i)}

(* The positions outside of all strings.                                    *)
Structural(t) == LET q == Quotes(t)
                 IN  {i \in DOMAIN t \ q : Cardinality({j \in q : j < i}) % 2 = 0}

At(t, characters) == {i \in Structural(t) : t[i] \in characters}

(* How many brackets enclose position i, a bracket counting as enclosed.    *)
Depth(t, i) == Cardinality({j \in At(t, Opens) : j <= i})
                 - Cardinality({j \in At(t, Closes) : j < i})

(* The occurrences of c that only the outermost brackets enclose.           *)
Shallow(t, c) ==
  LET opens == At(t, Opens)
      closes == At(t, Closes)
  IN  {i \in At(t, {c}) : Cardinality({j \in opens : j < i})
                             = Cardinality({j \in closes : j < i}) + 1}

Pairs(open, close) == <<open, close>> \in {<<"{", "}">>, <<"[", "]">>}

(* Every bracket has its counterpart and every string ends.                 *)
Balanced(t) ==
  /\ Cardinality(Quotes(t)) % 2 = 0
  /\ \A i \in At(t, Closes) : Depth(t, i) > 0
  /\ \A i \in At(t, Opens) :
       \E j \in At(t, Closes) :
         /\ j > i /\ Depth(t, j) = Depth(t, i) /\ Pairs(t[i], t[j])
         /\ \A k \in At(t, Closes) : i < k /\ k < j => Depth(t, k) > Depth(t, i)

IsDocument(t) == t # <<>> /\ t[1] \in Opens /\ Balanced(t)

(* The text from a to b without the blanks around it.                       *)
Trim(t, a, b) ==
  LET ink == {i \in a..b : t[i] \notin Blanks}
      first == CHOOSE i \in ink : \A j \in ink : i <= j
      last == CHOOSE i \in ink : \A j \in ink : i >= j
  IN  IF ink = {} THEN <<>> ELSE SubSeq(t, first, last)

TypeOfText(t) ==
  CASE t[1] = "{" -> "Object" [] t[1] = "[" -> "Array" [] t[1] = "\"" -> "String"
    [] t \in {<<"true">>, <<"false">>} -> "Boolean" [] OTHER -> "Number"

Unquoted(t) == IF TypeOfText(t) = "String" THEN SubSeq(t, 2, Len(t) - 1) ELSE t

(* The root of a document: up to the bracket that closes the first one.     *)
Root(t) ==
  LET end == CHOOSE i \in At(t, Closes) :
               Depth(t, i) = 1 /\ \A j \in At(t, Closes) : j < i => Depth(t, j) > 1
  IN  SubSeq(t, 1, end)

(* The element between positions a and b of a container with these colons.  *)
Element(t, colons, a, b) ==
  LET own == {i \in colons : a <= i /\ i <= b}
      value == IF own = {} THEN a ELSE 1 + CHOOSE i \in own : TRUE
      text == Trim(t, value, b)
  IN  [key |-> IF own = {} THEN <<>> ELSE Unquoted(Trim(t, a, value - 2)),
       type |-> TypeOfText(text),
       text |-> Unquoted(text)]

(* The elements of a container, in order.                                   *)
Elements(t) ==
  LET cuts == {1, Len(t)} \cup Shallow(t, ",")
      colons == Shallow(t, ":")
      cut == [k \in 1..Cardinality(cuts) |->
                CHOOSE i \in cuts : Cardinality({j \in cuts : j < i}) = k - 1]
  IN  IF Trim(t, 2, Len(t) - 1) = <<>> THEN <<>>
      ELSE [k \in 1..Len(cut) - 1 |-> Element(t, colons, cut[k] + 1, cut[k + 1] - 1)]
=============================================================================
