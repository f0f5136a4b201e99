------------------------------- MODULE MCJsonLib -------------------------------
(***************************************************************************)
(* Small instances of JsonLib and its properties.                          *)
(***************************************************************************)
EXTENDS JsonLib

(* Building texts.                                                          *)
Joined(items) ==
  LET tail[k \in 1..Len(items) + 1] ==
        IF k > Len(items) THEN <<>>
        ELSE (IF k = 1 THEN <<>> ELSE <<",">>) \o items[k] \o tail[k + 1]
  IN  tail[1]
Arr(items) == <<"[">> \o Joined(items) \o <<"]">>
Obj(members) == <<"{">> \o Joined(members) \o <<"}">>
Str(text) == <<"\"">> \o text \o <<"\"">>
Member(key, value) == Str(key) \o <<":", " ">> \o value

A == <<"a">>
B == <<"}", "\\", "\"">>        (* a name with a bracket and an escaped quote *)
One == <<"1">>
True == <<"true">>

Documents == {
  Obj(<<Member(A, Arr(<<Obj(<<Member(B, One)>>), Arr(<<True>>)>>)),
        Member(B, Str(<<"]">>)), Member(A, One)>>) \o <<"\n">>,
  Arr(<<Arr(<<Str(<<>>), One>>), One>>),
  Obj(<<>>) }
Malformed == { <<"[", "\"", "}">>, <<"{", "]">>, Str(A) }
AllTexts == Documents \cup Malformed
Names == {{}, {A}}

(* For loops whose callbacks open and search: an object with an array A and *)
(* a string B, and an array of two numbers.                                 *)
Looped == { Obj(<<Member(A, Arr(<<One>>)), Member(B, Str(<<>>))>>),
            Arr(<<One, One>>) }

WithEmptyContainers == {Arr(<<Arr(<<>>), One, One>>)}
ExactlyFitting == {Arr(<<Arr(<<One>>)>>)}

(* One request that an object with an array A and a string B satisfies, one *)
(* that passes over unknown elements, and one that misses an element.       *)
SomeRequests == {
  [keys |-> {A, B}, unknown |-> FALSE, present |-> {A},
   type |-> (A :> "Array") @@ (B :> "String")],
  [keys |-> {B}, unknown |-> TRUE, present |-> {B}, type |-> (B :> "String")],
  [keys |-> {<<"b">>}, unknown |-> TRUE, present |-> {<<"b">>},
   type |-> <<"b">> :> "Number"] }

(* The containers in texts, as the theorems about the walks take them:      *)
(* those of the documents are walked without trouble, with an empty root    *)
(* too, and give what the grammar finds in them; each of the other two      *)
(* texts gives that too, and is not walked without trouble.                 *)
ContainersIn(texts) ==
  LET tokens(text) == JsoniParseJS(text, jsmn_init).parser.tokens
  IN  UNION {{ContainerOf(text, tokens(text)[i]) :
                i \in {j \in DOMAIN tokens(text) : IsContainer(tokens(text)[j])}} : text \in texts}

ASSUME DocumentsUntroubled ==
  /\ Texts = AllTexts => /\ Untroubled(ContainersIn(Documents))
                         /\ Roots(ContainersIn(Documents))
  /\ GrammarAgrees(ContainersIn(Documents \cup WithEmptyContainers \cup ExactlyFitting))
  /\ \A text \in WithEmptyContainers \cup ExactlyFitting : ~Untroubled(ContainersIn({text}))
=============================================================================
