------------------------------- MODULE JsonCursor -------------------------------
(***************************************************************************)
(* The cursor of LibJson: how JsoniBrowseJsonFile walks over the tokens of *)
(* one internal object to the next child of its root token. An object      *)
(* has: type (eObjectType), data (pvData), its parser, num (how many       *)
(* tokens the parser was given), and parsing_state: idx, rem and state.    *)
(***************************************************************************)
EXTENDS JsonText

None == -1

IsContainer(token) == token.type \in {"OBJECT", "ARRAY"}
IsWalkable(type) == type \in {"Object", "Array"}

(* JsoniTokenToStr *)
TextOf(js, token) == SubSeq(js, token.start + 1, token.end)

(* The types of a child: the internal object of a string never gets its     *)
(* type, because the public one is assigned twice.                          *)
ObjectType(token, text) ==
  CASE token.type = "OBJECT" -> "Object"
    [] token.type = "ARRAY" -> "Array"
    [] token.type = "STRING" -> "String"
    [] OTHER -> IF text \in {<<"true">>, <<"false">>} THEN "Boolean" ELSE "Number"
InternalType(type) == IF type = "String" THEN "Unknown" ELSE type

(* Mutant: it goes on by as many tokens as the container has children.      *)
SkippedBySize(o, token, idx) ==
  IF IsContainer(token) THEN idx + token.size ELSE idx

(* Mutant: the first unused token does not stop it.                         *)
SkippedPastUnused(o, token, idx) ==
  LET Outside(k) == TokenAt(o.parser.tokens, o.num, k).start >= token.end
  IN  IF ~IsContainer(token) THEN idx
      ELSE IF \A k \in idx + 1..o.num - 1 : ~Outside(k) THEN None
      ELSE CHOOSE k \in idx + 1..o.num - 1 :
             Outside(k) /\ \A j \in idx + 1..k - 1 : ~Outside(j)

(* SkipJsonTokenIfNeeded: idx is already behind the container; the search   *)
(* starts one token later. Behind the tokens the parser was given the block *)
(* is zero and the loop does not stop: None.                                *)
SkipJsonTokenIfNeeded(o, token, idx) ==
  LET Outside(k) == LET t == TokenAt(o.parser.tokens, o.num, k)
                    IN  t.start = -1 \/ t.start >= token.end
  IN  IF ~IsContainer(token) THEN idx
      ELSE IF \A k \in idx + 1..o.num - 1 : ~Outside(k) THEN None
      ELSE CHOOSE k \in idx + 1..o.num - 1 :
             Outside(k) /\ \A j \in idx + 1..k - 1 : ~Outside(j)

(* A round leaves the local index and count, the state, the child once it   *)
(* is found with the key before it, and how the call stands.                *)
Refused(w, err) == [w EXCEPT !.err = err]

BrowseStart(w, token) ==
  IF ~IsContainer(token) \/ (token.type = "OBJECT" /\ token.size % 2 # 0)
  THEN Refused(w, "INVALID_JSON_FILE")
  ELSE [w EXCEPT !.idx = @ + 1, !.rem = @ + token.size - 1,
                 !.state = IF token.size = 0 THEN "STOP"
                           ELSE IF token.type = "ARRAY" THEN "PRINT" ELSE "KEY"]

(* A key: the value behind it is wanted when no names are asked for, or     *)
(* when it is one of them. A container is counted before its state is seen. *)
BrowseKey(o, names, w, token) ==
  LET name == TextOf(o.data, token)
      wanted == names = {} \/ name \in names
  IN  IF token.type # "STRING" THEN Refused(w, "INVALID_JSON_FILE")
      ELSE [w EXCEPT !.idx = @ + 1, !.rem = @ - 1,
                     !.state = IF wanted THEN "PRINT" ELSE "SKIP",
                     !.key = IF wanted THEN name ELSE @]

(* A value, wanted (PRINT) or not (SKIP), with everything inside it.        *)
BrowseValue(o, w, token) ==
  LET next == SkipJsonTokenIfNeeded(o, token, w.idx + 1)
      state == IF o.rem = 0 THEN "STOP"
               ELSE IF o.type = "Object" THEN "KEY" ELSE "PRINT"
  IN  IF next = None THEN Refused(w, "WILD")
      ELSE [w EXCEPT !.idx = next, !.rem = @ - 1, !.state = state,
                     !.child = IF w.state = "PRINT" THEN w.idx ELSE @]

BrowseRound(o, names, w) ==
  LET token == TokenAt(o.parser.tokens, o.num, w.idx)
      counted == [w EXCEPT !.rem = @ + IF IsContainer(token) THEN token.size ELSE 0]
  IN  CASE w.state = "START" -> BrowseStart(w, token)
        [] w.state = "KEY" -> BrowseKey(o, names, counted, token)
        [] w.state \in {"SKIP", "PRINT"} -> BrowseValue(o, w, token)
        [] w.state = "STOP" -> [counted EXCEPT !.idx = @ + 1, !.rem = @ - 1]
        [] OTHER -> Refused(w, "INVALID_PARSER_STATE")

(* Mutant: the place of the cursor is stored after a search without result. *)
CursorAfterAlways(o, w) ==
  [o EXCEPT !.state = w.state, !.idx = w.idx, !.rem = w.rem]

(* The state is changed in place, the index and the count only when a child *)
(* is found.                                                                *)
CursorAfter(o, w) ==
  IF w.err = "SUCCESS" THEN [o EXCEPT !.state = w.state, !.idx = w.idx, !.rem = w.rem]
  ELSE [o EXCEPT !.state = w.state]

States == {"START", "KEY", "PRINT", "SKIP", "STOP", "NOT_STARTED"}
Errors == {"SUCCESS", "TOKEN_NOT_FOUND", "INVALID_JSON_FILE", "INVALID_PARSER_STATE", "WILD"}
Walks == [idx : Nat, rem : Nat, state : States, child : Int,
          key : Seq(Chars), err : Errors]

(* JsoniBrowseJsonFile: rounds until a child is found, an error, or nothing *)
(* remains.                                                                 *)
JsoniBrowseJsonFile(o, names) ==
  LET walk[w \in Walks] ==
        IF w.err # "SUCCESS" \/ w.child # None THEN w
        ELSE IF w.rem = 0 THEN Refused(w, "TOKEN_NOT_FOUND")
        ELSE walk[BrowseRound(o, names, w)]
      end == walk[[idx |-> o.idx, rem |-> o.rem, state |-> o.state,
                   child |-> None, key |-> <<>>, err |-> "SUCCESS"]]
  IN  [obj |-> CursorAfter(o, end), err |-> end.err, key |-> end.key,
       token |-> IF end.child = None THEN UnusedToken
                 ELSE TokenAt(o.parser.tokens, o.num, end.child)]

(* What the walk asks of the tokens so that the search behind a container   *)
(* stops: a token that starts there, or an unused one. Without either the   *)
(* block is read behind its end.                                            *)
InReach(ts, num) ==
  \A i \in 2..Len(ts) : IsContainer(ts[i]) => Len(ts) < num \/ ts[Len(ts)].start >= ts[i].end
=============================================================================
