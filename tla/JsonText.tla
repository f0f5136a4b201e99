-------------------------------- MODULE JsonText --------------------------------
(***************************************************************************)
(* The tokenizer of LibJson (the jsmn parser): a text becomes an array of  *)
(* tokens in preorder, each with its type, the positions of its first and  *)
(* behind its last character, and the number of its direct children. The   *)
(* text is a sequence of characters, read as js[p] at positions from 0; it *)
(* ends with a NUL. A parser that runs out of tokens stops with NOMEM, is  *)
(* given a larger array and goes on where it stopped.                      *)
(***************************************************************************)
EXTENDS Integers, Sequences, FiniteSets

CONSTANTS
  DefaultTokenCount,   (* JSON_DEFAULT_TOKEN_COUNT                           *)
  BadChars             (* characters outside the range 32..126               *)

ASSUME DefaultTokenCountAssumption == DefaultTokenCount \in Nat

NUL == "NUL"
Chars == STRING \ {NUL}   (* a text ends with its first NUL                    *)
Delimiters == {"\t", "\r", "\n", " ", ":", ",", "]", "}"}
Escapable == {"\"", "/", "\\", "b", "f", "r", "n", "t", "u"}

TypeOfBracket(c) == IF c \in {"{", "}"} THEN "OBJECT" ELSE "ARRAY"

(* A token of the array that is not in use, and what HeapReAlloc leaves     *)
(* behind the part of the block the parser was told about.                  *)
UnusedToken == [type |-> "PRIMITIVE", start |-> -1, end |-> -1, size |-> 0]
ZeroedToken == [UnusedToken EXCEPT !.start = 0, !.end = 0]

Token == [type : {"PRIMITIVE", "OBJECT", "ARRAY", "STRING"},
          start : Int, end : Int, size : Nat]
Parser == [pos : Nat, toksuper : Int, tokens : Seq(Token)]

(* A parser and the tokens in use: tokens[1 .. toknext].                    *)
jsmn_init == [pos |-> 0, toksuper |-> -1, tokens |-> <<>>]

CharIn(js, p) == IF p < Len(js) THEN js[p + 1] ELSE NUL

(* The element i of an array of num tokens.                                 *)
TokenAt(tokens, num, i) ==
  IF i < Len(tokens) THEN tokens[i + 1]
  ELSE IF i < num THEN UnusedToken ELSE ZeroedToken

IsOpen(token) == token.start # -1 /\ token.end = -1

(* The index of the last open token, or -1.                                 *)
LastOpen(tokens) ==
  CHOOSE i \in -1..Len(tokens) - 1 :
    /\ i = -1 \/ IsOpen(tokens[i + 1])
    /\ \A j \in i + 2..Len(tokens) : ~IsOpen(tokens[j])

Outcome(parser, err) == [parser |-> parser, err |-> err]

(* The enclosing token has one more child.                                  *)
Counted(parser) ==
  IF parser.toksuper = -1 THEN parser
  ELSE [parser EXCEPT !.tokens[parser.toksuper + 1].size = @ + 1]

(* jsmn_alloc_token and jsmn_fill_token: all tokens from toknext on are     *)
(* unused, so the next one is taken.                                        *)
Filled(parser, type, start, end) ==
  [parser EXCEPT !.tokens =
    Append(@, [type |-> type, start |-> start, end |-> end, size |-> 0])]

(* Mutant: a container that did not fit was counted all the same.           *)
OpenBracketCountsFirst(js, num, p) ==
  IF Len(p.tokens) = num THEN Outcome(Counted(p), "NOMEM")
  ELSE Outcome([Filled(Counted(p), TypeOfBracket(CharIn(js, p.pos)), p.pos, -1)
                  EXCEPT !.pos = @ + 1, !.toksuper = Len(p.tokens)], "SUCCESS")

OpenBracket(js, num, p) ==
  IF Len(p.tokens) = num THEN Outcome(p, "NOMEM")
  ELSE Outcome([Filled(Counted(p), TypeOfBracket(CharIn(js, p.pos)), p.pos, -1)
                  EXCEPT !.pos = @ + 1, !.toksuper = Len(p.tokens)], "SUCCESS")

(* A closing bracket ends the last open token, which has to be of its type. *)
CloseBracket(js, p) ==
  LET i == LastOpen(p.tokens)
      closed == [p.tokens EXCEPT ![i + 1].end = p.pos + 1]
  IN  IF i = -1 \/ p.tokens[i + 1].type # TypeOfBracket(CharIn(js, p.pos))
      THEN Outcome(p, "INVAL")
      ELSE Outcome([p EXCEPT !.tokens = closed, !.toksuper = LastOpen(closed),
                             !.pos = @ + 1], "SUCCESS")

(* The end of the string that starts behind the quote at p: the position of *)
(* the closing quote, or the error.                                         *)
StringEnd(js, start) ==
  LET scan[p \in start..Len(js) + 2] ==
        CASE CharIn(js, p) = NUL -> [at |-> p, err |-> "PART"]
          [] CharIn(js, p) = "\"" -> [at |-> p, err |-> "SUCCESS"]
          [] CharIn(js, p) = "\\" ->
               IF CharIn(js, p + 1) \in Escapable THEN scan[p + 2]
               ELSE [at |-> p, err |-> "INVAL"]
          [] OTHER -> scan[p + 1]
  IN  scan[start + 1]

jsmn_parse_string(js, num, p) ==
  LET end == StringEnd(js, p.pos)
  IN  IF end.err # "SUCCESS" THEN Outcome(p, end.err)
      ELSE IF Len(p.tokens) = num THEN Outcome(p, "NOMEM")
      ELSE Outcome([Counted(Filled(p, "STRING", p.pos + 1, end.at))
                      EXCEPT !.pos = end.at + 1], "SUCCESS")

(* A primitive ends before a delimiter or with the text; every other        *)
(* character but a bad one belongs to it.                                   *)
jsmn_parse_primitive(js, num, p) ==
  LET Stops(k) == CharIn(js, k) \in Delimiters \cup BadChars \cup {NUL}
      end == CHOOSE k \in p.pos..Len(js) : Stops(k) /\ \A j \in p.pos..k - 1 : ~Stops(j)
  IN  IF CharIn(js, end) \in BadChars THEN Outcome(p, "INVAL")
      ELSE IF Len(p.tokens) = num THEN Outcome(p, "NOMEM")
      ELSE Outcome([Counted(Filled(p, "PRIMITIVE", p.pos, end))
                      EXCEPT !.pos = end], "SUCCESS")

(* One round of the loop of jsmn_parse.                                     *)
ParseStep(js, num, p) ==
  LET c == CharIn(js, p.pos)
  IN  CASE c \in {"{", "["} -> OpenBracket(js, num, p)
        [] c \in {"}", "]"} -> CloseBracket(js, p)
        [] c = "\"" -> jsmn_parse_string(js, num, p)
        [] c \in Delimiters \ {"}", "]"} -> Outcome([p EXCEPT !.pos = @ + 1], "SUCCESS")
        [] OTHER -> jsmn_parse_primitive(js, num, p)

(* jsmn_parse, from the state of a parser on, with an array of num tokens.  *)
jsmn_parse(js, num, parser) ==
  LET run[p \in Parser] ==
        LET r == ParseStep(js, num, p)
        IN  IF p.pos < Len(js) THEN IF r.err = "SUCCESS" THEN run[r.parser] ELSE r
            ELSE Outcome(p, IF LastOpen(p.tokens) = -1 THEN "SUCCESS" ELSE "PART")
  IN  run[parser]

(* JsoniParseJS: the parser is given an array of 2 * n + 1 tokens, then one *)
(* of twice the size and one more as long as it reports NOMEM.              *)
JsoniParseJS(js, parser) ==
  LET attempt[a \in Nat \X Parser] ==
        LET r == jsmn_parse(js, a[1], a[2])
        IN  IF r.err = "NOMEM" THEN attempt[<<2 * a[1] + 1, r.parser>>]
            ELSE [num |-> a[1], parser |-> r.parser, err |-> r.err]
  IN  attempt[<<2 * DefaultTokenCount + 1, parser>>]
=============================================================================
