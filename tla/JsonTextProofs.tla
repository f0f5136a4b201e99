----------------------------- MODULE JsonTextProofs -----------------------------
(***************************************************************************)
(* Proofs about the tokenizer and the cursor of LibJson: both come to an   *)
(* end on every text, a parse that ran out of tokens is resumed as if it   *)
(* had room from the start, tokens count their children, and a walk over   *)
(* the tokens of a container goes from child to child, to the next one     *)
(* that is wanted.                                                         *)
(***************************************************************************)
EXTENDS JsonCursor, TLAPS, FiniteSetTheorems, NaturalsInduction, SequenceTheorems

-----------------------------------------------------------------------------
(* Recursive functions of one call.                                         *)

(* Steps come to an end: what is done or steps to what has a property holds *)
(* the property is all there is.                                            *)
Ends(W, done, next) ==
  \A P \in SUBSET W : (\A w \in W : (w \in done \/ next[w] \in P) => w \in P) => P = W

(* A function that is val where it is done, and steps elsewhere.            *)
Iterates(W, done, next, val, h) ==
  h = [w \in W |-> IF w \in done THEN val[w] ELSE h[next[w]]]

(* The same on a part of W that no step leaves.                             *)
OnPart(W, done, next, val, D, g) ==
  /\ D \in SUBSET W /\ \A w \in D : w \in done \/ next[w] \in D
  /\ DOMAIN g = D
  /\ \A w \in D : g[w] = IF w \in done THEN val[w] ELSE g[next[w]]

LEMMA PartsAgree ==
  ASSUME NEW W, NEW done, NEW next, NEW val, Ends(W, done, next),
         NEW D, NEW g, OnPart(W, done, next, val, D, g),
         NEW E, NEW h, OnPart(W, done, next, val, E, h)
  PROVE  \A w \in D \cap E : g[w] = h[w]
<1> DEFINE P == {w \in W : w \in D /\ w \in E => g[w] = h[w]}
<1>1. ASSUME NEW w \in W, w \in done \/ next[w] \in P PROVE w \in P
  <2> SUFFICES ASSUME w \in D, w \in E PROVE g[w] = h[w] OBVIOUS
  <2>1. CASE w \in done BY <2>1 DEF OnPart
  <2>2. CASE w \notin done
    <3>1. next[w] \in D /\ next[w] \in E BY <2>2 DEF OnPart
    <3>2. g[next[w]] = h[next[w]] BY <1>1, <2>2, <3>1
    <3> QED BY <2>2, <3>2 DEF OnPart
  <2> QED BY <2>1, <2>2
<1>2. P = W
  <2>1. P \in SUBSET W OBVIOUS
  <2> HIDE DEF P
  <2> QED BY <1>1, <2>1 DEF Ends
<1> QED BY <1>2 DEF OnPart

LEMMA PartsCover ==
  ASSUME NEW W, NEW done, NEW next, NEW val, Ends(W, done, next)
  PROVE  \A w \in W : \E D, g : OnPart(W, done, next, val, D, g) /\ w \in D
<1> DEFINE P == {w \in W : \E D, g : OnPart(W, done, next, val, D, g) /\ w \in D}
<1>1. ASSUME NEW w \in W, w \in done \/ next[w] \in P PROVE w \in P
  <2>1. CASE w \in done
    <3> DEFINE g == [x \in {w} |-> val[x]]
    <3>1. OnPart(W, done, next, val, {w}, g) BY <2>1 DEF OnPart
    <3> QED BY <3>1
  <2>2. CASE w \notin done
    <3>1. PICK D, g : OnPart(W, done, next, val, D, g) /\ next[w] \in D BY <1>1, <2>2
    <3> DEFINE E == D \cup {w}
               h == [x \in E |-> IF x \in done THEN val[x] ELSE g[next[x]]]
    <3>2. \A x \in E : x \in done \/ next[x] \in D BY <3>1 DEF OnPart
    <3>3. \A x \in D : h[x] = g[x] BY <3>1 DEF OnPart
    <3>4. \A x \in E : h[x] = IF x \in done THEN val[x] ELSE h[next[x]] BY <3>2, <3>3
    <3>5. E \in SUBSET W /\ DOMAIN h = E BY <3>1 DEF OnPart
    <3> HIDE DEF h
    <3>6. OnPart(W, done, next, val, E, h) BY <3>2, <3>4, <3>5 DEF OnPart
    <3>7. w \in E OBVIOUS
    <3> QED BY <3>6, <3>7
  <2> QED BY <2>1, <2>2
<1>2. P = W
  <2>1. P \in SUBSET W OBVIOUS
  <2> HIDE DEF P
  <2> QED BY <1>1, <2>1 DEF Ends
<1> QED BY <1>2

LEMMA Iteration ==
  ASSUME NEW W, NEW done, NEW next, NEW val, Ends(W, done, next)
  PROVE  \E h : Iterates(W, done, next, val, h)
<1> DEFINE Value(w) == CHOOSE v : \E D, g : OnPart(W, done, next, val, D, g) /\ w \in D /\ v = g[w]
           h == [w \in W |-> Value(w)]
<1>1. ASSUME NEW D, NEW g, OnPart(W, done, next, val, D, g), NEW w \in D
      PROVE  Value(w) = g[w]
  <2>1. \E v : \E E, k : OnPart(W, done, next, val, E, k) /\ w \in E /\ v = k[w] BY <1>1
  <2>2. PICK E, k : OnPart(W, done, next, val, E, k) /\ w \in E /\ Value(w) = k[w] BY <2>1
  <2>3. w \in D \cap E BY <2>2
  <2> HIDE DEF Value
  <2> QED BY <1>1, <2>2, <2>3, PartsAgree
<1>2. ASSUME NEW w \in W
      PROVE  Value(w) = IF w \in done THEN val[w] ELSE h[next[w]]
  <2>1. PICK D, g : OnPart(W, done, next, val, D, g) /\ w \in D BY PartsCover
  <2> HIDE DEF Value
  <2>2. Value(w) = g[w] BY <1>1, <2>1
  <2>3. CASE w \in done BY <2>1, <2>2, <2>3 DEF OnPart
  <2>4. CASE w \notin done
    <3>1. next[w] \in D /\ next[w] \in W /\ g[w] = g[next[w]] BY <2>1, <2>4 DEF OnPart
    <3>2. Value(next[w]) = g[next[w]] BY <1>1, <2>1, <3>1
    <3> QED BY <2>2, <2>4, <3>1, <3>2
  <2> QED BY <2>3, <2>4
<1>3. h = [w \in W |-> IF w \in done THEN val[w] ELSE h[next[w]]]
  <2> HIDE DEF Value
  <2> QED BY <1>2
<1> QED BY <1>3 DEF Iterates

-----------------------------------------------------------------------------
(* Why steps come to an end.                                                *)

LEMMA LeastOfNat ==
  ASSUME NEW S \in SUBSET Nat, S # {}
  PROVE  \E x \in S : \A y \in S : x <= y
<1> DEFINE R == OpToRel(<, Nat)
<1>1. R = {ss \in Nat \X Nat : ss[1] < ss[2]} BY DEF OpToRel
<1>2. IsWellFoundedOn(R, Nat) BY NatLessThanWellFounded
<1> HIDE DEF R
<1>3. PICK x \in S : \A y \in S : ~(<<y, x>> \in R) BY <1>2, WFMin
<1>4. \A y \in S : x <= y
  <2>1. \A y \in S : ~(y < x) BY <1>1, <1>3
  <2> QED BY <1>3, <2>1
<1> QED BY <1>4

(* Each step lowers a number.                                               *)
LEMMA RankEnds ==
  ASSUME NEW W, NEW done, NEW next, NEW rank, rank \in [W -> Nat],
         \A w \in W : w \in done \/ (next[w] \in W /\ rank[next[w]] < rank[w])
  PROVE  Ends(W, done, next)
<1> SUFFICES ASSUME NEW P \in SUBSET W,
                    \A w \in W : (w \in done \/ next[w] \in P) => w \in P,
                    W \ P # {}
             PROVE  FALSE
  BY DEF Ends
<1> DEFINE S == {rank[w] : w \in W \ P}
<1>1. S \in SUBSET Nat /\ S # {} OBVIOUS
<1>2. PICK x \in S : \A y \in S : x <= y
  <2> HIDE DEF S
  <2> QED BY <1>1, LeastOfNat
<1>3. PICK w \in W \ P : rank[w] = x BY <1>2
<1>4. w \notin done /\ next[w] \notin P BY <1>3
<1>5. next[w] \in W \ P /\ rank[next[w]] < rank[w] BY <1>3, <1>4
<1>6. rank[next[w]] \in S /\ rank[next[w]] \in Nat /\ rank[w] \in Nat BY <1>3, <1>5
<1>7. x \in Nat /\ x <= rank[next[w]]
  <2> HIDE DEF S
  <2> QED BY <1>1, <1>2, <1>6
<1>8. rank[next[w]] < x BY <1>3, <1>5
<1> DEFINE a == rank[next[w]]
<1> HIDE DEF a, S
<1>9. a \in Nat /\ x <= a /\ a < x BY <1>6, <1>7, <1>8 DEF a
<1> QED BY <1>7, <1>9

(* Each step lowers one number, or leaves it and lowers another.            *)
LEMMA RanksEnd ==
  ASSUME NEW W, NEW done, NEW next, NEW r, r \in [W -> Nat], NEW s, s \in [W -> Nat],
         \A w \in W : \/ w \in done
                      \/ next[w] \in W /\ (\/ r[next[w]] < r[w]
                                           \/ r[next[w]] = r[w] /\ s[next[w]] < s[w])
  PROVE  Ends(W, done, next)
<1> SUFFICES ASSUME NEW P \in SUBSET W,
                    \A w \in W : (w \in done \/ next[w] \in P) => w \in P,
                    W \ P # {}
             PROVE  FALSE
  BY DEF Ends
<1> DEFINE S == {r[w] : w \in W \ P}
<1>1. S \in SUBSET Nat /\ S # {} OBVIOUS
<1>2. PICK x \in S : \A y \in S : x <= y
  <2> HIDE DEF S
  <2> QED BY <1>1, LeastOfNat
<1> DEFINE T == {s[w] : w \in {v \in W \ P : r[v] = x}}
<1>3. T \in SUBSET Nat /\ T # {} BY <1>2
<1>4. PICK y \in T : \A z \in T : y <= z
  <2> HIDE DEF T
  <2> QED BY <1>3, LeastOfNat
<1>5. PICK w \in W \ P : r[w] = x /\ s[w] = y BY <1>4
<1>6. w \notin done /\ next[w] \notin P BY <1>5
<1>7. next[w] \in W \ P /\ (\/ r[next[w]] < r[w]
                            \/ r[next[w]] = r[w] /\ s[next[w]] < s[w])
  BY <1>5, <1>6
<1>8. r[next[w]] \in S /\ r[next[w]] \in Nat /\ s[next[w]] \in Nat /\ x \in Nat /\ y \in Nat
  BY <1>2, <1>4, <1>7
<1> HIDE DEF S
<1>9. ~(r[next[w]] < r[w])
  <2> DEFINE a == r[next[w]]
  <2>1. x <= a /\ a \in Nat /\ r[w] = x BY <1>2, <1>5, <1>8
  <2> HIDE DEF a
  <2>2. ~(a < x) BY <1>8, <2>1
  <2> QED BY <2>1, <2>2 DEF a
<1>10. s[next[w]] \in T BY <1>5, <1>7, <1>9
<1> HIDE DEF T
<1>11. ~(s[next[w]] < s[w])
  <2> DEFINE a == s[next[w]]
  <2>1. y <= a /\ a \in Nat /\ s[w] = y BY <1>4, <1>5, <1>8, <1>10
  <2> HIDE DEF a
  <2>2. ~(a < y) BY <1>8, <2>1
  <2> QED BY <2>1, <2>2 DEF a
<1> QED BY <1>7, <1>9, <1>11

-----------------------------------------------------------------------------
(* The end of a string.                                                     *)

LEMMA CharFacts ==
  ASSUME NEW js \in Seq(Chars), NEW p \in Nat
  PROVE  /\ Len(js) \in Nat
         /\ p < Len(js) => CharIn(js, p) # NUL
         /\ ~(p < Len(js)) => CharIn(js, p) = NUL
<1>1. Len(js) \in Nat BY LenProperties
<1>2. CASE p < Len(js)
  <2>1. p + 1 \in 1..Len(js) BY <1>1, <1>2
  <2>2. js[p + 1] \in Chars BY <2>1, ElementOfSeq
  <2> QED BY <1>1, <1>2, <2>2 DEF CharIn, Chars
<1>3. CASE ~(p < Len(js)) BY <1>1, <1>3 DEF CharIn
<1> QED BY <1>2, <1>3

StringStops(js, p) ==
  \/ CharIn(js, p) \in {NUL, "\""}
  \/ CharIn(js, p) = "\\" /\ CharIn(js, p + 1) \notin Escapable
StringValue(js, p) ==
  [at |-> p, err |-> IF CharIn(js, p) = NUL THEN "PART"
                     ELSE IF CharIn(js, p) = "\"" THEN "SUCCESS" ELSE "INVAL"]
StringNext(js, p) == IF CharIn(js, p) = "\\" THEN p + 2 ELSE p + 1

StringRound(js, p, h) ==
  CASE CharIn(js, p) = NUL -> [at |-> p, err |-> "PART"]
    [] CharIn(js, p) = "\"" -> [at |-> p, err |-> "SUCCESS"]
    [] CharIn(js, p) = "\\" ->
         IF CharIn(js, p + 1) \in Escapable THEN h[p + 2]
         ELSE [at |-> p, err |-> "INVAL"]
    [] OTHER -> h[p + 1]

StringScan(js, start, h) == h = [p \in start..Len(js) + 2 |-> StringRound(js, p, h)]

LEMMA StringEndIsScan ==
  ASSUME NEW js, NEW start
  PROVE  StringEnd(js, start) = (CHOOSE h : StringScan(js, start, h))[start + 1]
BY DEF StringEnd, StringScan, StringRound

LEMMA StringRounds ==
  ASSUME NEW js, NEW p, NEW h
  PROVE  StringRound(js, p, h)
         = IF StringStops(js, p) THEN StringValue(js, p) ELSE h[StringNext(js, p)]
<1> DEFINE c == CharIn(js, p)
<1>1. NUL # "\"" /\ NUL # "\\" /\ "\"" # "\\" BY DEF NUL
<1>2. CASE c = NUL BY <1>1, <1>2 DEF StringRound, StringStops, StringValue
<1>3. CASE c = "\"" BY <1>1, <1>3 DEF StringRound, StringStops, StringValue
<1>4. CASE c = "\\" /\ CharIn(js, p + 1) \in Escapable
  BY <1>1, <1>4 DEF StringRound, StringStops, StringNext
<1>5. CASE c = "\\" /\ CharIn(js, p + 1) \notin Escapable
  BY <1>1, <1>5 DEF StringRound, StringStops, StringValue
<1>6. CASE c \notin {NUL, "\"", "\\"} BY <1>6 DEF StringRound, StringStops, StringNext
<1> QED BY <1>2, <1>3, <1>4, <1>5, <1>6

LEMMA StringEndFacts ==
  ASSUME NEW js \in Seq(Chars), NEW start \in Nat, start < Len(js)
  PROVE  LET end == StringEnd(js, start) IN
         /\ end.err \in {"SUCCESS", "PART", "INVAL"}
         /\ end.err = "SUCCESS" => end.at \in Nat /\ start < end.at /\ end.at < Len(js)
<1> DEFINE W == start..Len(js) + 2
           done == {p \in W : StringStops(js, p)}
           next == [p \in W |-> StringNext(js, p)]
           val == [p \in W |-> StringValue(js, p)]
           rank == [p \in W |-> Len(js) + 2 - p]
<1>1. Len(js) \in Nat BY CharFacts
<1>2. \A p \in W : p \in Nat /\ (p < Len(js) \/ p \in done)
  <2>1. \A p \in W : p \in Nat OBVIOUS
  <2>2. \A p \in W : ~(p < Len(js)) => p \in done BY <2>1, CharFacts DEF StringStops
  <2> QED BY <2>1, <2>2
<1>3. \A p \in W : p \in done \/ (next[p] \in W /\ rank[next[p]] < rank[p] /\ p < next[p])
  <2> SUFFICES ASSUME NEW p \in W, p \notin done
               PROVE  next[p] \in W /\ rank[next[p]] < rank[p] /\ p < next[p]
    OBVIOUS
  <2>1. p < Len(js) /\ p \in Nat BY <1>2
  <2>2. next[p] = p + 1 \/ next[p] = p + 2 BY DEF StringNext
  <2> QED BY <1>1, <2>1, <2>2
<1>4. rank \in [W -> Nat] BY <1>1
<1>5. Ends(W, done, next)
  <2> HIDE DEF W, done, next, rank
  <2> QED BY <1>3, <1>4, RankEnds
<1>6. PICK g : Iterates(W, done, next, val, g)
  <2> HIDE DEF W, done, next, val
  <2> QED BY <1>5, Iteration
<1>7. \A h : Iterates(W, done, next, val, h) <=> StringScan(js, start, h)
  <2> SUFFICES ASSUME NEW h
               PROVE  Iterates(W, done, next, val, h) <=> StringScan(js, start, h)
    OBVIOUS
  <2>1. \A p \in W : (IF p \in done THEN val[p] ELSE h[next[p]])
                     = IF StringStops(js, p) THEN StringValue(js, p) ELSE h[StringNext(js, p)]
    OBVIOUS
  <2> HIDE DEF W, done, next, val
  <2>2. \A p \in W : (IF p \in done THEN val[p] ELSE h[next[p]]) = StringRound(js, p, h)
    BY <2>1, StringRounds
  <2> QED BY <2>2 DEF Iterates, StringScan, W
<1> DEFINE h == CHOOSE h : StringScan(js, start, h)
<1>8. Iterates(W, done, next, val, h) BY <1>6, <1>7
<1>9. StringEnd(js, start) = h[start + 1] BY StringEndIsScan
<1> HIDE DEF h
<1> DEFINE Found(r) == /\ r.err \in {"SUCCESS", "PART", "INVAL"}
                       /\ r.err = "SUCCESS" => r.at \in Nat /\ start < r.at /\ r.at < Len(js)
           P == {p \in W : start < p => Found(h[p])}
<1>10. ASSUME NEW p \in W, p \in done \/ next[p] \in P PROVE p \in P
  <2> SUFFICES ASSUME start < p PROVE Found(h[p]) OBVIOUS
  <2>1. CASE p \in done
    <3>1. h[p] = StringValue(js, p) BY <1>8, <2>1 DEF Iterates
    <3>2. p \in Nat /\ (~(p < Len(js)) => CharIn(js, p) = NUL) BY <1>2, CharFacts
    <3>3. StringValue(js, p).err = "SUCCESS" => p < Len(js) BY <3>2 DEF StringValue
    <3>4. StringValue(js, p).at = p /\ StringValue(js, p).err \in {"SUCCESS", "PART", "INVAL"}
      BY DEF StringValue
    <3> QED BY <3>1, <3>2, <3>3, <3>4
  <2>2. CASE p \notin done
    <3>1. h[p] = h[next[p]] BY <1>8, <2>2 DEF Iterates
    <3>2. next[p] \in P /\ p < next[p] /\ next[p] \in W BY <1>3, <1>10, <2>2
    <3>3. start < next[p] BY <1>1, <3>2
    <3> HIDE DEF next, W
    <3> QED BY <3>1, <3>2, <3>3
  <2> QED BY <2>1, <2>2
<1>11. P = W
  <2>1. P \in SUBSET W OBVIOUS
  <2> HIDE DEF P, W, done, next
  <2> QED BY <1>5, <1>10, <2>1 DEF Ends
<1>12. start + 1 \in P /\ start < start + 1 BY <1>1, <1>11
<1> QED BY <1>9, <1>12

-----------------------------------------------------------------------------
(* One round of the tokenizer.                                              *)

NewToken(type, start, end) == [type |-> type, start |-> start, end |-> end, size |-> 0]
Bumped(token) == [token EXCEPT !.size = @ + 1]
EndedAt(token, q) == [token EXCEPT !.end = q]

(* A set of tokens that a parse of js does not leave.                       *)
TokensOf(S, js) ==
  /\ S \subseteq Token
  /\ \A t \in S : Bumped(t) \in S /\ \A q \in 1..Len(js) : EndedAt(t, q) \in S
  /\ \A type \in {"PRIMITIVE", "OBJECT", "ARRAY", "STRING"} :
       \A start \in 0..Len(js), end \in -1..Len(js) : NewToken(type, start, end) \in S
ParserIn(S) == [pos : Nat, toksuper : Int, tokens : Seq(S)]

LEMMA FunctionIsSeq ==
  ASSUME NEW n \in Nat, NEW S, NEW s \in [1..n -> S]
  PROVE  s \in Seq(S) /\ Len(s) = n
<1>1. s \in Seq(S) BY SeqDef
<1>2. Len(s) \in Nat /\ DOMAIN s = 1..Len(s) BY <1>1, LenProperties
<1> QED BY <1>1, <1>2

LEMMA AllTokens ==
  ASSUME NEW js \in Seq(Chars)
  PROVE  TokensOf(Token, js)
<1>1. Len(js) \in Nat BY LenProperties
<1>2. \A t \in Token : Bumped(t) \in Token BY DEF Bumped, Token
<1>3. \A t \in Token : \A q \in 1..Len(js) : EndedAt(t, q) \in Token BY <1>1 DEF EndedAt, Token
<1>4. \A type \in {"PRIMITIVE", "OBJECT", "ARRAY", "STRING"} :
        \A start \in 0..Len(js), end \in -1..Len(js) : NewToken(type, start, end) \in Token
  BY <1>1 DEF NewToken, Token
<1> QED BY <1>2, <1>3, <1>4 DEF TokensOf

LEMMA ParserFields ==
  ASSUME NEW S, NEW p \in ParserIn(S)
  PROVE  /\ p.pos \in Nat /\ p.toksuper \in Int /\ p.tokens \in Seq(S)
         /\ Len(p.tokens) \in Nat /\ DOMAIN p.tokens = 1..Len(p.tokens)
         /\ \A i \in 1..Len(p.tokens) : p.tokens[i] \in S
<1>1. p.pos \in Nat /\ p.toksuper \in Int /\ p.tokens \in Seq(S) BY DEF ParserIn
<1> QED BY <1>1, LenProperties, ElementOfSeq

LEMMA CountedFacts ==
  ASSUME NEW S, NEW js, TokensOf(S, js), NEW p \in ParserIn(S)
  PROVE  LET c == Counted(p) IN
         /\ c \in ParserIn(S) /\ c.pos = p.pos /\ c.toksuper = p.toksuper
         /\ Len(c.tokens) = Len(p.tokens)
         /\ \A i \in 1..Len(p.tokens) :
              c.tokens[i] = IF i = p.toksuper + 1 THEN Bumped(p.tokens[i]) ELSE p.tokens[i]
<1> DEFINE n == Len(p.tokens)
           k == p.toksuper + 1
<1>1. /\ p.pos \in Nat /\ p.toksuper \in Int /\ n \in Nat /\ p.tokens \in Seq(S)
      /\ DOMAIN p.tokens = 1..n /\ \A i \in 1..n : p.tokens[i] \in S
  BY ParserFields
<1>2. CASE p.toksuper = -1
  <2>1. Counted(p) = p BY <1>2 DEF Counted
  <2>2. \A i \in 1..n : i # k BY <1>1, <1>2
  <2> QED BY <1>1, <2>1, <2>2
<1>3. CASE p.toksuper # -1
  <2> DEFINE ts == [p.tokens EXCEPT ![k] = Bumped(p.tokens[k])]
  <2>1. Counted(p) = [p EXCEPT !.tokens = ts] BY <1>3 DEF Counted, Bumped
  <2>2. DOMAIN ts = 1..n /\ \A i \in 1..n : ts[i] = IF i = k THEN Bumped(p.tokens[i]) ELSE p.tokens[i]
    BY <1>1
  <2>3. \A i \in 1..n : ts[i] \in S BY <1>1, <2>2 DEF TokensOf
  <2>4. ts = [i \in 1..n |-> ts[i]] BY <2>2
  <2> HIDE DEF ts
  <2>5. ts \in [1..n -> S] BY <2>3, <2>4
  <2>6. ts \in Seq(S) /\ Len(ts) = n BY <1>1, <2>5, FunctionIsSeq
  <2>7. [p EXCEPT !.tokens = ts] \in ParserIn(S) BY <2>6 DEF ParserIn
  <2>8. /\ [p EXCEPT !.tokens = ts].pos = p.pos
        /\ [p EXCEPT !.tokens = ts].toksuper = p.toksuper
        /\ [p EXCEPT !.tokens = ts].tokens = ts
    BY DEF ParserIn
  <2> QED BY <2>1, <2>2, <2>6, <2>7, <2>8
<1> QED BY <1>2, <1>3

LEMMA FilledFacts ==
  ASSUME NEW S, NEW p \in ParserIn(S), NEW type, NEW start, NEW end,
         NewToken(type, start, end) \in S
  PROVE  LET f == Filled(p, type, start, end) IN
         /\ f \in ParserIn(S) /\ f.pos = p.pos /\ f.toksuper = p.toksuper
         /\ Len(f.tokens) = Len(p.tokens) + 1
         /\ f.tokens[Len(p.tokens) + 1] = NewToken(type, start, end)
         /\ \A i \in 1..Len(p.tokens) : f.tokens[i] = p.tokens[i]
<1> DEFINE t == NewToken(type, start, end)
           ts == Append(p.tokens, t)
<1>1. Filled(p, type, start, end) = [p EXCEPT !.tokens = ts] BY DEF Filled, NewToken
<1>2. p.tokens \in Seq(S) BY ParserFields
<1> HIDE DEF t
<1>3. t \in S BY DEF t
<1>4. /\ ts \in Seq(S) /\ Len(ts) = Len(p.tokens) + 1 /\ ts[Len(p.tokens) + 1] = t
      /\ \A i \in 1..Len(p.tokens) : ts[i] = p.tokens[i]
  BY <1>2, <1>3, AppendProperties
<1> HIDE DEF ts
<1>5. [p EXCEPT !.tokens = ts] \in ParserIn(S) BY <1>4 DEF ParserIn
<1>6. /\ [p EXCEPT !.tokens = ts].pos = p.pos
      /\ [p EXCEPT !.tokens = ts].toksuper = p.toksuper
      /\ [p EXCEPT !.tokens = ts].tokens = ts
  BY DEF ParserIn
<1> QED BY <1>1, <1>4, <1>5, <1>6 DEF t

(* The last open token.                                                     *)
LEMMA LastOpenFacts ==
  ASSUME NEW S, NEW tokens \in Seq(S)
  PROVE  LET i == LastOpen(tokens) IN
         /\ i \in -1..Len(tokens) - 1 /\ (i = -1 \/ IsOpen(tokens[i + 1]))
         /\ \A j \in i + 2..Len(tokens) : ~IsOpen(tokens[j])
<1> DEFINE n == Len(tokens)
           Open == {j \in 1..n : IsOpen(tokens[j])}
           Fits(i) == /\ i = -1 \/ IsOpen(tokens[i + 1])
                      /\ \A j \in i + 2..n : ~IsOpen(tokens[j])
<1>1. n \in Nat BY LenProperties
<1>2. \E i \in -1..n - 1 : Fits(i)
  <2>1. CASE Open = {}
    <3>1. \A j \in 1..n : ~IsOpen(tokens[j]) BY <2>1
    <3>2. -1 + 2 = 1 /\ -1 \in -1..n - 1 BY <1>1
    <3>3. Fits(-1) BY <3>1, <3>2
    <3> QED BY <3>2, <3>3
  <2>2. CASE Open # {}
    <3> DEFINE T == {n - j : j \in Open}
    <3>1. T \in SUBSET Nat /\ T # {} BY <1>1, <2>2
    <3>2. PICK m \in T : \A x \in T : m <= x
      <4> HIDE DEF T
      <4> QED BY <3>1, LeastOfNat
    <3>3. PICK j \in Open : m = n - j BY <3>2
    <3>4. j \in 1..n /\ IsOpen(tokens[j]) BY <3>3
    <3>5. ASSUME NEW x \in j + 1..n PROVE ~IsOpen(tokens[x])
      <4>1. x \in 1..n BY <1>1, <3>4
      <4>2. x \in Open => m <= n - x BY <3>2
      <4>3. ~(m <= n - x) BY <1>1, <3>3, <3>4
      <4> QED BY <4>1, <4>2, <4>3
    <3> DEFINE i == j - 1
    <3>6. i \in -1..n - 1 /\ i + 1 = j /\ i + 2 = j + 1 BY <1>1, <3>4
    <3> HIDE DEF i, Open
    <3>7. Fits(i) BY <3>4, <3>5, <3>6
    <3> QED BY <3>6, <3>7
  <2> QED BY <2>1, <2>2
<1>3. LastOpen(tokens) = CHOOSE i \in -1..n - 1 : Fits(i) BY DEF LastOpen
<1> QED BY <1>2, <1>3

(* The tokens of q are those of p, of which the enclosing one has one more  *)
(* child, and a new one.                                                    *)
Took(p, q, token) ==
  /\ Len(q.tokens) = Len(p.tokens) + 1 /\ q.tokens[Len(p.tokens) + 1] = token
  /\ \A i \in 1..Len(p.tokens) :
       q.tokens[i] = IF i = p.toksuper + 1 THEN Bumped(p.tokens[i]) ELSE p.tokens[i]

(* What a round can do: begin a container, read a string or primitive, end  *)
(* a container, or pass over a character.                                   *)
Began(p, q) ==
  /\ \E type \in {"OBJECT", "ARRAY"} : Took(p, q, NewToken(type, p.pos, -1))
  /\ q.pos = p.pos + 1 /\ q.toksuper = Len(p.tokens)
ReadOne(p, q) ==
  \E type \in {"STRING", "PRIMITIVE"}, start \in Nat, end \in Nat :
    /\ Took(p, q, NewToken(type, start, end)) /\ q.toksuper = p.toksuper
    /\ p.pos <= start /\ start <= end /\ start < q.pos /\ end <= q.pos /\ p.pos < end
Ended(p, q) ==
  LET i == LastOpen(p.tokens) IN
  /\ i # -1 /\ Len(q.tokens) = Len(p.tokens)
  /\ \A j \in 1..Len(p.tokens) :
       q.tokens[j] = IF j = i + 1 THEN EndedAt(p.tokens[j], p.pos + 1) ELSE p.tokens[j]
  /\ q.pos = p.pos + 1 /\ q.toksuper = LastOpen(q.tokens)
PassedOver(p, q) == q.tokens = p.tokens /\ q.toksuper = p.toksuper /\ q.pos = p.pos + 1

(* The result of a round.                                                   *)
RoundOf(S, js, num, p, r) ==
  /\ r.parser \in ParserIn(S) /\ r.err \in {"SUCCESS", "NOMEM", "INVAL", "PART"}
  /\ r.err # "SUCCESS" => r.parser = p
  /\ r.err = "NOMEM" => Len(p.tokens) = num
  /\ r.err = "SUCCESS" =>
       /\ p.pos < r.parser.pos /\ r.parser.pos <= Len(js)
       /\ \/ Len(r.parser.tokens) = Len(p.tokens)
          \/ Len(r.parser.tokens) = Len(p.tokens) + 1 /\ Len(p.tokens) # num
  /\ r.err = "SUCCESS" /\ p.toksuper < Len(p.tokens) =>
       Began(p, r.parser) \/ ReadOne(p, r.parser) \/ Ended(p, r.parser) \/ PassedOver(p, r.parser)

LEMMA FailedRound ==
  ASSUME NEW S, NEW js, NEW num, NEW p \in ParserIn(S),
         NEW err \in {"NOMEM", "INVAL", "PART"}, err = "NOMEM" => Len(p.tokens) = num
  PROVE  RoundOf(S, js, num, p, Outcome(p, err))
BY DEF RoundOf, Outcome

LEMMA MovedFacts ==
  ASSUME NEW S, NEW p \in ParserIn(S), NEW q \in Nat, NEW m, m = [p EXCEPT !.pos = q]
  PROVE  m \in ParserIn(S) /\ m.pos = q /\ m.toksuper = p.toksuper /\ m.tokens = p.tokens
BY DEF ParserIn

LEMMA OpenBracketRound ==
  ASSUME NEW S, NEW js \in Seq(Chars), TokensOf(S, js), NEW num, NEW p \in ParserIn(S),
         p.pos < Len(js)
  PROVE  RoundOf(S, js, num, p, OpenBracket(js, num, p))
<1>1. p.pos \in Nat /\ Len(p.tokens) \in Nat /\ Len(js) \in Nat /\ p.toksuper \in Int
  BY ParserFields, LenProperties
<1>2. CASE Len(p.tokens) = num BY <1>2, FailedRound DEF OpenBracket
<1>3. CASE Len(p.tokens) # num
  <2> DEFINE type == TypeOfBracket(CharIn(js, p.pos))
             c == Counted(p)
             f == Filled(c, type, p.pos, -1)
             n == [f EXCEPT !.pos = @ + 1, !.toksuper = Len(p.tokens)]
  <2>1. type \in {"OBJECT", "ARRAY"} BY DEF TypeOfBracket
  <2>2. NewToken(type, p.pos, -1) \in S
    <3>1. p.pos \in 0..Len(js) /\ -1 \in -1..Len(js) BY <1>1
    <3> HIDE DEF type
    <3> QED BY <2>1, <3>1 DEF TokensOf
  <2>3. OpenBracket(js, num, p) = Outcome(n, "SUCCESS") BY <1>3 DEF OpenBracket
  <2>4. /\ c \in ParserIn(S) /\ c.pos = p.pos /\ c.toksuper = p.toksuper
        /\ Len(c.tokens) = Len(p.tokens)
        /\ \A i \in 1..Len(p.tokens) :
             c.tokens[i] = IF i = p.toksuper + 1 THEN Bumped(p.tokens[i]) ELSE p.tokens[i]
    BY CountedFacts
  <2> HIDE DEF c, type
  <2>5. /\ f \in ParserIn(S) /\ f.pos = p.pos /\ Len(f.tokens) = Len(p.tokens) + 1
        /\ f.tokens[Len(p.tokens) + 1] = NewToken(type, p.pos, -1)
        /\ \A i \in 1..Len(p.tokens) : f.tokens[i] = c.tokens[i]
    <3> DEFINE start == p.pos
               end == -1
    <3>1. NewToken(type, start, end) \in S BY <2>2
    <3>2. c \in ParserIn(S) /\ f = Filled(c, type, start, end) BY <2>4
    <3> HIDE DEF start, end, f
    <3>3. LET g == Filled(c, type, start, end) IN
          /\ g \in ParserIn(S) /\ g.pos = c.pos /\ g.toksuper = c.toksuper
          /\ Len(g.tokens) = Len(c.tokens) + 1
          /\ g.tokens[Len(c.tokens) + 1] = NewToken(type, start, end)
          /\ \A i \in 1..Len(c.tokens) : g.tokens[i] = c.tokens[i]
      BY <3>1, <3>2, FilledFacts
    <3>4. Len(c.tokens) = Len(p.tokens) /\ c.pos = p.pos BY <2>4
    <3> QED BY <3>2, <3>3, <3>4 DEF start, end
  <2> HIDE DEF f
  <2>6. n = [f EXCEPT !.pos = p.pos + 1, !.toksuper = Len(p.tokens)] BY <2>5
  <2> HIDE DEF n
  <2>7. n \in ParserIn(S) /\ n.pos = p.pos + 1 /\ n.toksuper = Len(p.tokens) /\ n.tokens = f.tokens
    <3> DEFINE pos == p.pos + 1
               super == Len(p.tokens)
    <3>1. pos \in Nat /\ super \in Int /\ n = [f EXCEPT !.pos = pos, !.toksuper = super]
      BY <1>1, <2>6
    <3> HIDE DEF pos, super
    <3>2. n \in ParserIn(S) /\ n.pos = pos /\ n.toksuper = super /\ n.tokens = f.tokens
      BY <2>5, <3>1 DEF ParserIn
    <3> QED BY <3>2 DEF pos, super
  <2>8. Took(p, n, NewToken(type, p.pos, -1)) BY <2>4, <2>5, <2>7 DEF Took
  <2>9. Began(p, n) BY <2>1, <2>7, <2>8 DEF Began
  <2>10. p.pos < n.pos /\ n.pos <= Len(js) BY <1>1, <2>7
  <2>11. Len(n.tokens) = Len(p.tokens) + 1 BY <2>5, <2>7
  <2>12. Outcome(n, "SUCCESS").parser = n /\ Outcome(n, "SUCCESS").err = "SUCCESS" BY DEF Outcome
  <2> QED BY <1>3, <2>3, <2>7, <2>9, <2>10, <2>11, <2>12 DEF RoundOf
<1> QED BY <1>2, <1>3

(* A string or a primitive, once its end is known.                          *)
LEMMA ReadRound ==
  ASSUME NEW S, NEW js \in Seq(Chars), TokensOf(S, js), NEW num, NEW p \in ParserIn(S),
         NEW type \in {"STRING", "PRIMITIVE"}, NEW start \in Nat, NEW end \in Nat, NEW q \in Nat,
         p.pos <= start, start <= end, start < q, end <= q, p.pos < end, q <= Len(js),
         Len(p.tokens) # num
  PROVE  RoundOf(S, js, num, p,
                 Outcome([Counted(Filled(p, type, start, end)) EXCEPT !.pos = q], "SUCCESS"))
<1>1. p.pos \in Nat /\ Len(p.tokens) \in Nat /\ Len(js) \in Nat /\ p.toksuper \in Int
  BY ParserFields, LenProperties
<1> DEFINE f == Filled(p, type, start, end)
           c == Counted(f)
           n == [c EXCEPT !.pos = q]
           l == Len(p.tokens)
<1>2. NewToken(type, start, end) \in S
  <2>1. start \in 0..Len(js) /\ end \in -1..Len(js) BY <1>1
  <2> QED BY <2>1 DEF TokensOf
<1>3. /\ f \in ParserIn(S) /\ f.pos = p.pos /\ f.toksuper = p.toksuper /\ Len(f.tokens) = l + 1
      /\ f.tokens[l + 1] = NewToken(type, start, end)
      /\ \A i \in 1..l : f.tokens[i] = p.tokens[i]
  BY <1>2, FilledFacts
<1> HIDE DEF f
<1>4. /\ c \in ParserIn(S) /\ c.toksuper = p.toksuper /\ Len(c.tokens) = l + 1
      /\ \A i \in 1..l + 1 :
           c.tokens[i] = IF i = p.toksuper + 1 THEN Bumped(f.tokens[i]) ELSE f.tokens[i]
  BY <1>3, CountedFacts
<1> HIDE DEF c
<1>5. n \in ParserIn(S) /\ n.pos = q /\ n.toksuper = p.toksuper /\ n.tokens = c.tokens
  BY <1>4, MovedFacts
<1>6. ASSUME p.toksuper < l PROVE ReadOne(p, n)
  <2>1. l + 1 # p.toksuper + 1 /\ l + 1 \in 1..l + 1 BY <1>1, <1>6
  <2>2. c.tokens[l + 1] = NewToken(type, start, end) BY <1>3, <1>4, <2>1
  <2>3. \A i \in 1..l : i \in 1..l + 1 BY <1>1
  <2>4. \A i \in 1..l :
          c.tokens[i] = IF i = p.toksuper + 1 THEN Bumped(p.tokens[i]) ELSE p.tokens[i]
    BY <1>3, <1>4, <2>3
  <2> HIDE DEF n
  <2>5. Took(p, n, NewToken(type, start, end)) BY <1>4, <1>5, <2>2, <2>4 DEF Took
  <2> QED BY <1>5, <2>5 DEF ReadOne
<1> HIDE DEF n
<1>7. p.pos < n.pos /\ n.pos <= Len(js) BY <1>1, <1>5
<1>8. Len(n.tokens) = l + 1 BY <1>4, <1>5
<1>9. Outcome(n, "SUCCESS").parser = n /\ Outcome(n, "SUCCESS").err = "SUCCESS" BY DEF Outcome
<1>10. RoundOf(S, js, num, p, Outcome(n, "SUCCESS")) BY <1>5, <1>6, <1>7, <1>8, <1>9 DEF RoundOf
<1> QED BY <1>10 DEF n, c, f

LEMMA CloseBracketRound ==
  ASSUME NEW S, NEW js \in Seq(Chars), TokensOf(S, js), NEW num, NEW p \in ParserIn(S),
         p.pos < Len(js)
  PROVE  RoundOf(S, js, num, p, CloseBracket(js, p))
<1>1. /\ p.pos \in Nat /\ Len(p.tokens) \in Nat /\ Len(js) \in Nat /\ p.toksuper \in Int
      /\ p.tokens \in Seq(S) /\ DOMAIN p.tokens = 1..Len(p.tokens)
      /\ \A k \in 1..Len(p.tokens) : p.tokens[k] \in S
  BY ParserFields, LenProperties
<1> DEFINE i == LastOpen(p.tokens)
           l == Len(p.tokens)
           pos == p.pos + 1
           closed == [p.tokens EXCEPT ![i + 1].end = pos]
           Wrong == i = -1 \/ p.tokens[i + 1].type # TypeOfBracket(CharIn(js, p.pos))
           n == [p EXCEPT !.tokens = closed, !.toksuper = LastOpen(closed), !.pos = @ + 1]
<1>2. CloseBracket(js, p) = IF Wrong THEN Outcome(p, "INVAL") ELSE Outcome(n, "SUCCESS")
  BY DEF CloseBracket
<1>3. i \in -1..l - 1 BY <1>1, LastOpenFacts
<1> HIDE DEF i
<1>4. CASE Wrong BY <1>2, <1>4, FailedRound
<1>5. CASE ~Wrong
  <2>1. i # -1 /\ i + 1 \in 1..l BY <1>1, <1>3, <1>5
  <2>2. /\ DOMAIN closed = 1..l
        /\ \A j \in 1..l : closed[j] = IF j = i + 1 THEN EndedAt(p.tokens[j], pos) ELSE p.tokens[j]
    BY <1>1, <2>1 DEF EndedAt
  <2>3. pos \in 1..Len(js) /\ pos \in Nat BY <1>1
  <2>4. \A j \in 1..l : closed[j] \in S
    <3> HIDE DEF closed, pos
    <3> QED BY <1>1, <2>2, <2>3 DEF TokensOf
  <2>5. closed = [j \in 1..l |-> closed[j]] BY <2>2
  <2> HIDE DEF closed
  <2>6. closed \in [1..l -> S] BY <2>4, <2>5
  <2>7. closed \in Seq(S) /\ Len(closed) = l BY <1>1, <2>6, FunctionIsSeq
  <2>8. LastOpen(closed) \in Int
    <3>1. LastOpen(closed) \in -1..l - 1 BY <2>7, LastOpenFacts
    <3> QED BY <1>1, <3>1
  <2> DEFINE super == LastOpen(closed)
  <2>9. n = [p EXCEPT !.tokens = closed, !.toksuper = super, !.pos = pos] OBVIOUS
  <2>10. super \in Int BY <2>8
  <2> HIDE DEF n, super, pos
  <2>11. n \in ParserIn(S) /\ n.pos = pos /\ n.toksuper = super /\ n.tokens = closed
    BY <2>3, <2>7, <2>9, <2>10 DEF ParserIn
  <2>12. Ended(p, n) BY <2>1, <2>2, <2>7, <2>11 DEF Ended, super, pos, i
  <2>13. p.pos < n.pos /\ n.pos <= Len(js) BY <1>1, <2>11 DEF pos
  <2>14. Outcome(n, "SUCCESS").parser = n /\ Outcome(n, "SUCCESS").err = "SUCCESS" BY DEF Outcome
  <2> QED BY <1>2, <1>5, <2>7, <2>11, <2>12, <2>13, <2>14 DEF RoundOf
<1> QED BY <1>4, <1>5

LEMMA StringRoundOf ==
  ASSUME NEW S, NEW js \in Seq(Chars), TokensOf(S, js), NEW num, NEW p \in ParserIn(S),
         p.pos < Len(js)
  PROVE  RoundOf(S, js, num, p, jsmn_parse_string(js, num, p))
<1>1. p.pos \in Nat /\ Len(p.tokens) \in Nat /\ Len(js) \in Nat BY ParserFields, LenProperties
<1> DEFINE end == StringEnd(js, p.pos)
<1>2. /\ end.err \in {"SUCCESS", "PART", "INVAL"}
      /\ end.err = "SUCCESS" => end.at \in Nat /\ p.pos < end.at /\ end.at < Len(js)
  BY <1>1, StringEndFacts
<1>3. jsmn_parse_string(js, num, p)
      = IF end.err # "SUCCESS" THEN Outcome(p, end.err)
        ELSE IF Len(p.tokens) = num THEN Outcome(p, "NOMEM")
        ELSE Outcome([Counted(Filled(p, "STRING", p.pos + 1, end.at))
                        EXCEPT !.pos = end.at + 1], "SUCCESS")
  BY DEF jsmn_parse_string
<1> HIDE DEF end
<1>4. CASE end.err # "SUCCESS" BY <1>2, <1>3, <1>4, FailedRound
<1>5. CASE end.err = "SUCCESS" /\ Len(p.tokens) = num BY <1>3, <1>5, FailedRound
<1>6. CASE end.err = "SUCCESS" /\ Len(p.tokens) # num
  <2> DEFINE start == p.pos + 1
             q == end.at + 1
             at == end.at
  <2>1. /\ start \in Nat /\ at \in Nat /\ q \in Nat /\ p.pos <= start /\ start <= at
        /\ start < q /\ at <= q /\ p.pos < at /\ q <= Len(js)
    BY <1>1, <1>2, <1>6
  <2>2. jsmn_parse_string(js, num, p)
        = Outcome([Counted(Filled(p, "STRING", start, at)) EXCEPT !.pos = q], "SUCCESS")
    BY <1>3, <1>6
  <2> DEFINE type == "STRING"
  <2>3. type \in {"STRING", "PRIMITIVE"} OBVIOUS
  <2> HIDE DEF start, q, at, type
  <2>4. RoundOf(S, js, num, p,
                Outcome([Counted(Filled(p, type, start, at)) EXCEPT !.pos = q], "SUCCESS"))
    BY <1>6, <2>1, <2>3, ReadRound
  <2> QED BY <2>2, <2>4 DEF type
<1> QED BY <1>4, <1>5, <1>6

(* Where a primitive ends.                                                  *)
PrimitiveStops(js, k) == CharIn(js, k) \in Delimiters \cup BadChars \cup {NUL}
PrimitiveEnd(js, pos) ==
  CHOOSE k \in pos..Len(js) :
    PrimitiveStops(js, k) /\ \A j \in pos..k - 1 : ~PrimitiveStops(js, j)

LEMMA PrimitiveEndFacts ==
  ASSUME NEW js \in Seq(Chars), NEW pos \in Nat, pos < Len(js)
  PROVE  LET end == PrimitiveEnd(js, pos) IN
         /\ end \in pos..Len(js) /\ PrimitiveStops(js, end)
         /\ \A j \in pos..end - 1 : ~PrimitiveStops(js, j)
<1>1. Len(js) \in Nat BY LenProperties
<1> DEFINE S == {k \in pos..Len(js) : PrimitiveStops(js, k)}
<1>2. Len(js) \in S BY <1>1, CharFacts DEF PrimitiveStops
<1>3. S \in SUBSET Nat OBVIOUS
<1>4. PICK k \in S : \A j \in S : k <= j
  <2> HIDE DEF S
  <2> QED BY <1>2, <1>3, LeastOfNat
<1>5. k \in pos..Len(js) /\ PrimitiveStops(js, k) OBVIOUS
<1>6. ASSUME NEW j \in pos..k - 1 PROVE ~PrimitiveStops(js, j)
  <2>1. j \in pos..Len(js) /\ ~(k <= j) BY <1>1, <1>5
  <2>2. j \notin S
    <3> HIDE DEF S
    <3> QED BY <1>4, <2>1
  <2> QED BY <2>1, <2>2
<1> HIDE DEF S
<1> QED BY <1>5, <1>6 DEF PrimitiveEnd

LEMMA PrimitiveRoundOf ==
  ASSUME NEW S, NEW js \in Seq(Chars), TokensOf(S, js), NEW num, NEW p \in ParserIn(S),
         p.pos < Len(js), CharIn(js, p.pos) \notin Delimiters
  PROVE  RoundOf(S, js, num, p, jsmn_parse_primitive(js, num, p))
<1>1. p.pos \in Nat /\ Len(p.tokens) \in Nat /\ Len(js) \in Nat BY ParserFields, LenProperties
<1> DEFINE end == PrimitiveEnd(js, p.pos)
<1>2. end \in p.pos..Len(js) /\ PrimitiveStops(js, end) BY <1>1, PrimitiveEndFacts
<1>3. jsmn_parse_primitive(js, num, p)
      = IF CharIn(js, end) \in BadChars THEN Outcome(p, "INVAL")
        ELSE IF Len(p.tokens) = num THEN Outcome(p, "NOMEM")
        ELSE Outcome([Counted(Filled(p, "PRIMITIVE", p.pos, end)) EXCEPT !.pos = end], "SUCCESS")
  BY DEF jsmn_parse_primitive, PrimitiveEnd, PrimitiveStops
<1> HIDE DEF end
<1>4. CASE CharIn(js, end) \in BadChars BY <1>3, <1>4, FailedRound
<1>5. CASE CharIn(js, end) \notin BadChars /\ Len(p.tokens) = num BY <1>3, <1>5, FailedRound
<1>6. CASE CharIn(js, end) \notin BadChars /\ Len(p.tokens) # num
  <2> DEFINE pos == p.pos
  <2>1. end # pos
    <3>1. CharIn(js, pos) # NUL BY <1>1, CharFacts
    <3> QED BY <1>2, <1>6, <3>1 DEF PrimitiveStops
  <2>2. /\ pos \in Nat /\ end \in Nat /\ p.pos <= pos /\ pos <= end /\ pos < end /\ end <= end
        /\ p.pos < end /\ end <= Len(js)
    BY <1>1, <1>2, <2>1
  <2>3. jsmn_parse_primitive(js, num, p)
        = Outcome([Counted(Filled(p, "PRIMITIVE", pos, end)) EXCEPT !.pos = end], "SUCCESS")
    BY <1>3, <1>6
  <2> HIDE DEF pos
  <2> QED BY <1>6, <2>2, <2>3, ReadRound
<1> QED BY <1>4, <1>5, <1>6

LEMMA PassedOverRound ==
  ASSUME NEW S, NEW js \in Seq(Chars), NEW num, NEW p \in ParserIn(S), p.pos < Len(js)
  PROVE  RoundOf(S, js, num, p, Outcome([p EXCEPT !.pos = @ + 1], "SUCCESS"))
<1>1. p.pos \in Nat /\ Len(js) \in Nat BY ParserFields, LenProperties
<1> DEFINE q == p.pos + 1
           n == [p EXCEPT !.pos = q]
<1>2. q \in Nat BY <1>1
<1> HIDE DEF q
<1>3. n \in ParserIn(S) /\ n.pos = q /\ n.toksuper = p.toksuper /\ n.tokens = p.tokens
  BY <1>2, MovedFacts
<1> HIDE DEF n
<1>4. PassedOver(p, n) BY <1>3 DEF PassedOver, q
<1>5. p.pos < n.pos /\ n.pos <= Len(js) BY <1>1, <1>3 DEF q
<1>6. Outcome(n, "SUCCESS").parser = n /\ Outcome(n, "SUCCESS").err = "SUCCESS" BY DEF Outcome
<1>7. RoundOf(S, js, num, p, Outcome(n, "SUCCESS")) BY <1>3, <1>4, <1>5, <1>6 DEF RoundOf
<1> QED BY <1>7 DEF n, q

(* The character in front of the parser decides which round it is.          *)
LEMMA ParseSteps ==
  ASSUME NEW js, NEW num, NEW p
  PROVE  LET c == CharIn(js, p.pos) IN
         /\ c \in {"{", "["} => ParseStep(js, num, p) = OpenBracket(js, num, p)
         /\ c \in {"}", "]"} => ParseStep(js, num, p) = CloseBracket(js, p)
         /\ c = "\"" => ParseStep(js, num, p) = jsmn_parse_string(js, num, p)
         /\ c \in Delimiters \ {"}", "]"} =>
              ParseStep(js, num, p) = Outcome([p EXCEPT !.pos = @ + 1], "SUCCESS")
         /\ c \notin Delimiters \cup {"{", "[", "\""} =>
              ParseStep(js, num, p) = jsmn_parse_primitive(js, num, p)
<1> DEFINE c == CharIn(js, p.pos)
<1>1. /\ "{" \notin Delimiters /\ "[" \notin Delimiters /\ "\"" \notin Delimiters
      /\ "\"" \notin {"{", "[", "}", "]"} /\ {"{", "["} \cap {"}", "]"} = {}
      /\ {"}", "]"} \subseteq Delimiters
  BY DEF Delimiters
<1>2. ParseStep(js, num, p)
      = CASE c \in {"{", "["} -> OpenBracket(js, num, p)
          [] c \in {"}", "]"} -> CloseBracket(js, p)
          [] c = "\"" -> jsmn_parse_string(js, num, p)
          [] c \in Delimiters \ {"}", "]"} -> Outcome([p EXCEPT !.pos = @ + 1], "SUCCESS")
          [] OTHER -> jsmn_parse_primitive(js, num, p)
  BY DEF ParseStep
<1> HIDE DEF c
<1>3. CASE c \in {"{", "["} BY <1>1, <1>2, <1>3 DEF c
<1>4. CASE c \in {"}", "]"} BY <1>1, <1>2, <1>4 DEF c
<1>5. CASE c = "\"" BY <1>1, <1>2, <1>5 DEF c
<1>6. CASE c \in Delimiters \ {"}", "]"} BY <1>1, <1>2, <1>6 DEF c
<1>7. CASE c \notin Delimiters \cup {"{", "[", "\""} BY <1>1, <1>2, <1>7 DEF c
<1> QED BY <1>3, <1>4, <1>5, <1>6, <1>7

LEMMA ParseStepFacts ==
  ASSUME NEW S, NEW js \in Seq(Chars), TokensOf(S, js), NEW num, NEW p \in ParserIn(S),
         p.pos < Len(js)
  PROVE  RoundOf(S, js, num, p, ParseStep(js, num, p))
<1> DEFINE c == CharIn(js, p.pos)
<1>1. CASE c \in {"{", "["}
  <2>1. ParseStep(js, num, p) = OpenBracket(js, num, p) BY <1>1, ParseSteps
  <2>2. RoundOf(S, js, num, p, OpenBracket(js, num, p)) BY OpenBracketRound
  <2> QED BY <2>1, <2>2
<1>2. CASE c \in {"}", "]"}
  <2>1. ParseStep(js, num, p) = CloseBracket(js, p) BY <1>2, ParseSteps
  <2>2. RoundOf(S, js, num, p, CloseBracket(js, p)) BY CloseBracketRound
  <2> QED BY <2>1, <2>2
<1>3. CASE c = "\""
  <2>1. ParseStep(js, num, p) = jsmn_parse_string(js, num, p) BY <1>3, ParseSteps
  <2>2. RoundOf(S, js, num, p, jsmn_parse_string(js, num, p)) BY StringRoundOf
  <2> QED BY <2>1, <2>2
<1>4. CASE c \in Delimiters \ {"}", "]"}
  <2>1. ParseStep(js, num, p) = Outcome([p EXCEPT !.pos = @ + 1], "SUCCESS") BY <1>4, ParseSteps
  <2>2. RoundOf(S, js, num, p, Outcome([p EXCEPT !.pos = @ + 1], "SUCCESS")) BY PassedOverRound
  <2> QED BY <2>1, <2>2
<1>5. CASE c \notin Delimiters \cup {"{", "[", "\""}
  <2>1. ParseStep(js, num, p) = jsmn_parse_primitive(js, num, p) BY <1>5, ParseSteps
  <2>2. RoundOf(S, js, num, p, jsmn_parse_primitive(js, num, p)) BY <1>5, PrimitiveRoundOf
  <2> QED BY <2>1, <2>2
<1> QED BY <1>1, <1>2, <1>3, <1>4, <1>5

(* How large the array is matters only when it is full.                     *)
LEMMA RoomMattersWhenFull ==
  ASSUME NEW js, NEW num, NEW more, NEW p, Len(p.tokens) # more,
         ParseStep(js, num, p).err # "NOMEM"
  PROVE  ParseStep(js, more, p) = ParseStep(js, num, p)
<1> DEFINE c == CharIn(js, p.pos)
<1>1. CASE c \in {"{", "["}
  <2>1. ParseStep(js, num, p) = OpenBracket(js, num, p) BY <1>1, ParseSteps
  <2>2. ParseStep(js, more, p) = OpenBracket(js, more, p) BY <1>1, ParseSteps
  <2>3. Len(p.tokens) # num BY <2>1 DEF OpenBracket, Outcome
  <2> QED BY <2>1, <2>2, <2>3 DEF OpenBracket
<1>2. CASE c \in {"}", "]"}
  <2>1. ParseStep(js, num, p) = CloseBracket(js, p) BY <1>2, ParseSteps
  <2>2. ParseStep(js, more, p) = CloseBracket(js, p) BY <1>2, ParseSteps
  <2> QED BY <2>1, <2>2
<1>3. CASE c = "\""
  <2>1. ParseStep(js, num, p) = jsmn_parse_string(js, num, p) BY <1>3, ParseSteps
  <2>2. ParseStep(js, more, p) = jsmn_parse_string(js, more, p) BY <1>3, ParseSteps
  <2> DEFINE end == StringEnd(js, p.pos)
             n == Outcome([Counted(Filled(p, "STRING", p.pos + 1, end.at))
                            EXCEPT !.pos = end.at + 1], "SUCCESS")
  <2>3. \A m : jsmn_parse_string(js, m, p)
               = IF end.err # "SUCCESS" THEN Outcome(p, end.err)
                 ELSE IF Len(p.tokens) = m THEN Outcome(p, "NOMEM") ELSE n
    BY DEF jsmn_parse_string
  <2>4. Outcome(p, "NOMEM").err = "NOMEM" BY DEF Outcome
  <2> HIDE DEF n, end
  <2> QED BY <2>1, <2>2, <2>3, <2>4
<1>4. CASE c \in Delimiters \ {"}", "]"}
  <2>1. ParseStep(js, num, p) = Outcome([p EXCEPT !.pos = @ + 1], "SUCCESS") BY <1>4, ParseSteps
  <2>2. ParseStep(js, more, p) = Outcome([p EXCEPT !.pos = @ + 1], "SUCCESS") BY <1>4, ParseSteps
  <2> QED BY <2>1, <2>2
<1>5. CASE c \notin Delimiters \cup {"{", "[", "\""}
  <2>1. ParseStep(js, num, p) = jsmn_parse_primitive(js, num, p) BY <1>5, ParseSteps
  <2>2. ParseStep(js, more, p) = jsmn_parse_primitive(js, more, p) BY <1>5, ParseSteps
  <2> DEFINE end == PrimitiveEnd(js, p.pos)
             n == Outcome([Counted(Filled(p, "PRIMITIVE", p.pos, end)) EXCEPT !.pos = end], "SUCCESS")
  <2>3. \A m : jsmn_parse_primitive(js, m, p)
               = IF CharIn(js, end) \in BadChars THEN Outcome(p, "INVAL")
                 ELSE IF Len(p.tokens) = m THEN Outcome(p, "NOMEM") ELSE n
    BY DEF jsmn_parse_primitive, PrimitiveEnd, PrimitiveStops
  <2>4. Outcome(p, "NOMEM").err = "NOMEM" BY DEF Outcome
  <2> HIDE DEF n, end
  <2> QED BY <2>1, <2>2, <2>3, <2>4
<1> QED BY <1>1, <1>2, <1>3, <1>4, <1>5

-----------------------------------------------------------------------------
(* A whole parse.                                                           *)

ParseDone(js, num, p) == ~(p.pos < Len(js)) \/ ParseStep(js, num, p).err # "SUCCESS"
ParseValue(js, num, p) ==
  IF p.pos < Len(js) THEN ParseStep(js, num, p)
  ELSE Outcome(p, IF LastOpen(p.tokens) = -1 THEN "SUCCESS" ELSE "PART")
ParseNext(js, num, p) == ParseStep(js, num, p).parser

ParseRun(js, num, h) ==
  h = [p \in Parser |->
         LET r == ParseStep(js, num, p)
         IN  IF p.pos < Len(js) THEN IF r.err = "SUCCESS" THEN h[r.parser] ELSE r
             ELSE Outcome(p, IF LastOpen(p.tokens) = -1 THEN "SUCCESS" ELSE "PART")]

LEMMA JsmnParseIsRun ==
  ASSUME NEW js, NEW num, NEW p
  PROVE  jsmn_parse(js, num, p) = (CHOOSE h : ParseRun(js, num, h))[p]
BY DEF jsmn_parse, ParseRun

(* How many characters a parser has in front of it, and how many tokens it  *)
(* may come to use.                                                         *)
Ahead(js, p) == IF p.pos < Len(js) THEN Len(js) - p.pos ELSE 0
Room(js, p) == Len(p.tokens) + Ahead(js, p)

LEMMA ParserIsParserIn == Parser = ParserIn(Token)
BY DEF Parser, ParserIn

LEMMA ParseEnds ==
  ASSUME NEW js \in Seq(Chars), NEW num
  PROVE  Ends(Parser, {p \in Parser : ParseDone(js, num, p)},
              [p \in Parser |-> ParseNext(js, num, p)])
<1> DEFINE done == {p \in Parser : ParseDone(js, num, p)}
           next == [p \in Parser |-> ParseNext(js, num, p)]
           rank == [p \in Parser |-> Ahead(js, p)]
<1>1. Len(js) \in Nat BY LenProperties
<1>2. \A p \in Parser : p.pos \in Nat BY DEF Parser
<1>3. rank \in [Parser -> Nat] BY <1>1, <1>2 DEF Ahead
<1>4. \A p \in Parser : p \in done \/ (next[p] \in Parser /\ rank[next[p]] < rank[p])
  <2> SUFFICES ASSUME NEW p \in Parser, p \notin done
               PROVE  next[p] \in Parser /\ rank[next[p]] < rank[p]
    OBVIOUS
  <2>1. p.pos < Len(js) /\ ParseStep(js, num, p).err = "SUCCESS" BY DEF ParseDone
  <2>2. RoundOf(Token, js, num, p, ParseStep(js, num, p))
    BY <2>1, AllTokens, ParseStepFacts, ParserIsParserIn
  <2>3. next[p] = ParseStep(js, num, p).parser BY DEF ParseNext
  <2> HIDE DEF next
  <2>4. next[p] \in Parser /\ p.pos < next[p].pos /\ next[p].pos <= Len(js)
    BY <2>1, <2>2, <2>3, ParserIsParserIn DEF RoundOf
  <2> QED BY <1>1, <1>2, <2>1, <2>4 DEF Ahead
<1> HIDE DEF done, next, rank
<1>5. Ends(Parser, done, next) BY <1>3, <1>4, RankEnds
<1> QED BY <1>5 DEF done, next

(* A parse does a round and goes on.                                        *)
LEMMA ParseUnrolls ==
  ASSUME NEW js \in Seq(Chars), NEW num, NEW p \in Parser
  PROVE  jsmn_parse(js, num, p)
         = IF ParseDone(js, num, p) THEN ParseValue(js, num, p)
           ELSE jsmn_parse(js, num, ParseNext(js, num, p))
<1> DEFINE done == {q \in Parser : ParseDone(js, num, q)}
           next == [q \in Parser |-> ParseNext(js, num, q)]
           val == [q \in Parser |-> ParseValue(js, num, q)]
<1>1. PICK g : Iterates(Parser, done, next, val, g)
  <2>1. Ends(Parser, done, next) BY ParseEnds
  <2> HIDE DEF done, next, val
  <2> QED BY <2>1, Iteration
<1>2. \A h : Iterates(Parser, done, next, val, h) => ParseRun(js, num, h)
  <2> SUFFICES ASSUME NEW h, Iterates(Parser, done, next, val, h)
               PROVE  ParseRun(js, num, h)
    OBVIOUS
  <2>1. h = [q \in Parser |-> IF q \in done THEN val[q] ELSE h[next[q]]] BY DEF Iterates
  <2> DEFINE Round(q) == LET r == ParseStep(js, num, q)
                         IN  IF q.pos < Len(js) THEN IF r.err = "SUCCESS" THEN h[r.parser] ELSE r
                             ELSE Outcome(q, IF LastOpen(q.tokens) = -1 THEN "SUCCESS" ELSE "PART")
  <2>2. \A q \in Parser : (IF q \in done THEN val[q] ELSE h[next[q]]) = Round(q)
    BY DEF ParseDone, ParseValue, ParseNext
  <2>3. h = [q \in Parser |-> Round(q)]
    <3> HIDE DEF Round, done, val, next
    <3> QED BY <2>1, <2>2
  <2> QED BY <2>3 DEF ParseRun
<1>3. \A h : ParseRun(js, num, h) =>
        \A q \in Parser : h[q] = IF ParseDone(js, num, q) THEN ParseValue(js, num, q)
                                 ELSE h[ParseNext(js, num, q)]
  BY DEF ParseRun, ParseDone, ParseValue, ParseNext
<1> DEFINE h == CHOOSE h : ParseRun(js, num, h)
<1>4. ParseRun(js, num, h) BY <1>1, <1>2
<1>5. \A q : jsmn_parse(js, num, q) = h[q] BY JsmnParseIsRun
<1> HIDE DEF h
<1> QED BY <1>3, <1>4, <1>5

(* What holds of a parser that is done, and of one that steps to one of     *)
(* which it holds, holds of all.                                            *)
LEMMA ParseInduction ==
  ASSUME NEW js \in Seq(Chars), NEW num, NEW Q \in SUBSET Parser,
         \A p \in Parser : (ParseDone(js, num, p) \/ ParseNext(js, num, p) \in Q) => p \in Q
  PROVE  Q = Parser
<1> DEFINE done == {p \in Parser : ParseDone(js, num, p)}
           next == [p \in Parser |-> ParseNext(js, num, p)]
<1>1. Ends(Parser, done, next) BY ParseEnds
<1>2. \A p \in Parser : (p \in done \/ next[p] \in Q) => p \in Q OBVIOUS
<1> HIDE DEF done, next
<1> QED BY <1>1, <1>2 DEF Ends

(* The tokens the parser was given do not run out before they are in use.   *)
ParseOf(S, js, num, p, r) ==
  /\ r.parser \in ParserIn(S) /\ r.err \in {"SUCCESS", "NOMEM", "INVAL", "PART"}
  /\ r.err = "NOMEM" => Len(r.parser.tokens) = num
  /\ Room(js, r.parser) <= Room(js, p)

LEMMA ParserInIsParser ==
  ASSUME NEW S, NEW js, TokensOf(S, js)
  PROVE  ParserIn(S) \subseteq Parser
<1>1. S \subseteq Token BY DEF TokensOf
<1>2. Seq(S) \subseteq Seq(Token)
  <2> SUFFICES ASSUME NEW s \in Seq(S) PROVE s \in Seq(Token) OBVIOUS
  <2>1. Len(s) \in Nat /\ s \in [1..Len(s) -> S] BY LenProperties
  <2>2. s \in [1..Len(s) -> Token] BY <1>1, <2>1
  <2> QED BY <2>1, <2>2, FunctionIsSeq
<1> QED BY <1>2 DEF Parser, ParserIn

LEMMA RoundKeepsRoom ==
  ASSUME NEW S, NEW js \in Seq(Chars), NEW num, NEW p \in ParserIn(S), NEW r,
         RoundOf(S, js, num, p, r), r.err = "SUCCESS", p.pos < Len(js)
  PROVE  Room(js, r.parser) <= Room(js, p)
<1> DEFINE n == r.parser
           lp == Len(p.tokens)
           ln == Len(n.tokens)
           l == Len(js)
<1>1. p.pos \in Nat /\ lp \in Nat /\ l \in Nat BY ParserFields, LenProperties
<1>2. n \in ParserIn(S) BY DEF RoundOf
<1>3. n.pos \in Nat /\ ln \in Nat BY <1>2, ParserFields
<1>4. p.pos < n.pos /\ n.pos <= l /\ (ln = lp \/ ln = lp + 1) BY DEF RoundOf
<1>5. Room(js, n) = ln + (l - n.pos) BY <1>1, <1>3, <1>4 DEF Room, Ahead
<1>6. Room(js, p) = lp + (l - p.pos) BY <1>1 DEF Room, Ahead
<1> HIDE DEF lp, ln, l
<1> QED BY <1>1, <1>3, <1>4, <1>5, <1>6

LEMMA RoomIsNat ==
  ASSUME NEW S, NEW js \in Seq(Chars), NEW p \in ParserIn(S)
  PROVE  Room(js, p) \in Nat /\ Len(p.tokens) <= Room(js, p)
<1>1. p.pos \in Nat /\ Len(p.tokens) \in Nat /\ Len(js) \in Nat BY ParserFields, LenProperties
<1>2. Ahead(js, p) \in Nat BY <1>1 DEF Ahead
<1> QED BY <1>1, <1>2 DEF Room

LEMMA ParseFacts ==
  ASSUME NEW S, NEW js \in Seq(Chars), TokensOf(S, js), NEW num, NEW p \in ParserIn(S)
  PROVE  ParseOf(S, js, num, p, jsmn_parse(js, num, p))
<1> DEFINE Q == {q \in Parser : q \in ParserIn(S) => ParseOf(S, js, num, q, jsmn_parse(js, num, q))}
<1>1. ASSUME NEW q \in Parser, ParseDone(js, num, q) \/ ParseNext(js, num, q) \in Q
      PROVE  q \in Q
  <2> SUFFICES ASSUME q \in ParserIn(S) PROVE ParseOf(S, js, num, q, jsmn_parse(js, num, q))
    OBVIOUS
  <2>1. Room(js, q) \in Nat BY RoomIsNat
  <2>2. q.pos < Len(js) => RoundOf(S, js, num, q, ParseStep(js, num, q)) BY ParseStepFacts
  <2>3. CASE ~(q.pos < Len(js))
    <3>1. jsmn_parse(js, num, q) = Outcome(q, IF LastOpen(q.tokens) = -1 THEN "SUCCESS" ELSE "PART")
      BY <2>3, ParseUnrolls DEF ParseDone, ParseValue
    <3> QED BY <2>1, <3>1 DEF ParseOf, Outcome
  <2>4. CASE q.pos < Len(js) /\ ParseStep(js, num, q).err # "SUCCESS"
    <3>1. jsmn_parse(js, num, q) = ParseStep(js, num, q)
      BY <2>4, ParseUnrolls DEF ParseDone, ParseValue
    <3> QED BY <2>1, <2>2, <2>4, <3>1 DEF ParseOf, RoundOf
  <2>5. CASE q.pos < Len(js) /\ ParseStep(js, num, q).err = "SUCCESS"
    <3> DEFINE n == ParseNext(js, num, q)
    <3>1. ~ParseDone(js, num, q) BY <2>5 DEF ParseDone
    <3>2. jsmn_parse(js, num, q) = jsmn_parse(js, num, n) BY <3>1, ParseUnrolls
    <3>3. n \in ParserIn(S) BY <2>2, <2>5 DEF RoundOf, ParseNext
    <3>4. ParseOf(S, js, num, n, jsmn_parse(js, num, n)) BY <1>1, <3>1, <3>3
    <3>5. Room(js, n) <= Room(js, q) BY <2>2, <2>5, RoundKeepsRoom DEF ParseNext
    <3>6. Room(js, n) \in Nat BY <3>3, RoomIsNat
    <3> DEFINE r == jsmn_parse(js, num, n)
    <3>7. r.parser \in ParserIn(S) BY <3>4 DEF ParseOf
    <3>8. Room(js, r.parser) \in Nat BY <3>7, RoomIsNat
    <3> HIDE DEF n, r
    <3>9. Room(js, r.parser) <= Room(js, n) BY <3>4 DEF ParseOf, r
    <3> DEFINE x == Room(js, r.parser)
               y == Room(js, n)
               z == Room(js, q)
    <3>10. x <= z
      <4>1. x \in Nat /\ y \in Nat /\ z \in Nat /\ x <= y /\ y <= z
        BY <2>1, <3>5, <3>6, <3>8, <3>9
      <4> HIDE DEF x, y, z
      <4> QED BY <4>1
    <3> QED BY <3>2, <3>4, <3>10 DEF ParseOf, r
  <2> QED BY <2>3, <2>4, <2>5
<1>2. Q = Parser
  <2>1. Q \in SUBSET Parser OBVIOUS
  <2> HIDE DEF Q
  <2> QED BY <1>1, <2>1, ParseInduction
<1>3. p \in Parser BY ParserInIsParser
<1> QED BY <1>2, <1>3

(* A parse with more room does the same, and goes on where the array of the *)
(* other was full.                                                          *)
Resumes(js, num, more, p) ==
  LET r == jsmn_parse(js, num, p)
  IN  jsmn_parse(js, more, p) = IF r.err = "NOMEM" THEN jsmn_parse(js, more, r.parser) ELSE r

LEMMA ParseResumes ==
  ASSUME NEW js \in Seq(Chars), NEW num \in Nat, NEW more \in Nat, num < more,
         NEW p \in Parser, Len(p.tokens) <= num
  PROVE  Resumes(js, num, more, p)
<1> DEFINE Q == {q \in Parser : Len(q.tokens) <= num => Resumes(js, num, more, q)}
<1>1. ASSUME NEW q \in Parser, ParseDone(js, num, q) \/ ParseNext(js, num, q) \in Q
      PROVE  q \in Q
  <2> SUFFICES ASSUME Len(q.tokens) <= num PROVE Resumes(js, num, more, q) OBVIOUS
  <2> DEFINE step == ParseStep(js, num, q)
  <2>1. Len(q.tokens) \in Nat /\ Len(q.tokens) # more
    <3>1. Len(q.tokens) \in Nat BY ParserFields, ParserIsParserIn
    <3> QED BY <3>1
  <2>2. q.pos < Len(js) => RoundOf(Token, js, num, q, step)
    BY AllTokens, ParseStepFacts, ParserIsParserIn
  <2>3. step.err # "NOMEM" => ParseStep(js, more, q) = step BY <2>1, RoomMattersWhenFull
  <2>4. CASE ~(q.pos < Len(js))
    <3> DEFINE r == Outcome(q, IF LastOpen(q.tokens) = -1 THEN "SUCCESS" ELSE "PART")
    <3>1. jsmn_parse(js, num, q) = r BY <2>4, ParseUnrolls DEF ParseDone, ParseValue
    <3>2. jsmn_parse(js, more, q) = r BY <2>4, ParseUnrolls DEF ParseDone, ParseValue
    <3>3. r.err # "NOMEM" BY DEF Outcome
    <3> QED BY <3>1, <3>2, <3>3 DEF Resumes
  <2>5. CASE q.pos < Len(js) /\ step.err # "SUCCESS"
    <3>1. jsmn_parse(js, num, q) = step
      BY <2>5, ParseUnrolls DEF ParseDone, ParseValue
    <3>2. CASE step.err = "NOMEM"
      <4>1. step.parser = q BY <2>2, <2>5 DEF RoundOf
      <4> QED BY <3>1, <3>2, <4>1 DEF Resumes
    <3>3. CASE step.err # "NOMEM"
      <4>1. jsmn_parse(js, more, q) = step
        BY <2>3, <2>5, <3>3, ParseUnrolls DEF ParseDone, ParseValue
      <4> QED BY <3>1, <3>3, <4>1 DEF Resumes
    <3> QED BY <3>2, <3>3
  <2>6. CASE q.pos < Len(js) /\ step.err = "SUCCESS"
    <3> DEFINE n == step.parser
    <3>1. ~ParseDone(js, num, q) /\ ParseNext(js, num, q) = n BY <2>6 DEF ParseDone, ParseNext
    <3>2. ~ParseDone(js, more, q) /\ ParseNext(js, more, q) = n
      BY <2>3, <2>6 DEF ParseDone, ParseNext
    <3>3. jsmn_parse(js, num, q) = jsmn_parse(js, num, n) BY <3>1, ParseUnrolls
    <3>4. jsmn_parse(js, more, q) = jsmn_parse(js, more, n) BY <3>2, ParseUnrolls
    <3>5. n \in Parser BY <2>2, <2>6, ParserIsParserIn DEF RoundOf
    <3>6. Len(n.tokens) <= num
      <4> DEFINE x == Len(n.tokens)
                 y == Len(q.tokens)
      <4>1. x = y \/ (x = y + 1 /\ y # num) BY <2>2, <2>6 DEF RoundOf
      <4>2. y \in Nat /\ y <= num BY <2>1
      <4> HIDE DEF x, y
      <4>3. x <= num BY <4>1, <4>2
      <4> QED BY <4>3 DEF x
    <3>7. Resumes(js, num, more, n) BY <1>1, <3>1, <3>6
    <3> QED BY <3>3, <3>4, <3>7 DEF Resumes
  <2> QED BY <2>4, <2>5, <2>6
<1>2. Q = Parser
  <2>1. Q \in SUBSET Parser OBVIOUS
  <2> HIDE DEF Q
  <2> QED BY <1>1, <2>1, ParseInduction
<1> QED BY <1>2

-----------------------------------------------------------------------------
(* A parse with an array that is enlarged as often as it runs out.          *)

Parse(js, w) == jsmn_parse(js, w[1], w[2])
Enlarged(js, w) == <<2 * w[1] + 1, Parse(js, w).parser>>
Attempt(js, w) == [num |-> w[1], parser |-> Parse(js, w).parser, err |-> Parse(js, w).err]

AttemptRun(js, h) ==
  h = [w \in Nat \X Parser |->
         IF Parse(js, w).err = "NOMEM" THEN h[Enlarged(js, w)] ELSE Attempt(js, w)]

LEMMA ParseJSIsRun ==
  ASSUME NEW js, NEW p
  PROVE  JsoniParseJS(js, p) = (CHOOSE h : AttemptRun(js, h))[<<2 * DefaultTokenCount + 1, p>>]
BY DEF JsoniParseJS, AttemptRun, Parse, Enlarged, Attempt

AttemptsDone(js) == {w \in Nat \X Parser : Parse(js, w).err # "NOMEM"}
AttemptsNext(js) == [w \in Nat \X Parser |-> Enlarged(js, w)]

LEMMA EnlargedFacts ==
  ASSUME NEW js \in Seq(Chars), NEW w \in Nat \X Parser, Parse(js, w).err = "NOMEM"
  PROVE  /\ Enlarged(js, w) \in Nat \X Parser /\ w[1] < Enlarged(js, w)[1]
         /\ Room(js, Enlarged(js, w)[2]) <= Room(js, w[2])
         /\ w[1] = Len(Enlarged(js, w)[2].tokens) /\ w[1] <= Room(js, w[2])
<1> DEFINE num == w[1]
           p == w[2]
           n == Parse(js, w).parser
<1>1. num \in Nat /\ p \in Parser OBVIOUS
<1>2. ParseOf(Token, js, num, p, Parse(js, w))
  BY <1>1, AllTokens, ParseFacts, ParserIsParserIn DEF Parse
<1>3. n \in Parser /\ Len(n.tokens) = num /\ Room(js, n) <= Room(js, p)
  BY <1>2, ParserIsParserIn DEF ParseOf
<1>4. Enlarged(js, w) = <<2 * num + 1, n>> BY DEF Enlarged
<1>5. Room(js, n) \in Nat /\ Len(n.tokens) <= Room(js, n) BY <1>3, RoomIsNat, ParserIsParserIn
<1>6. Room(js, p) \in Nat BY <1>1, RoomIsNat, ParserIsParserIn
<1> HIDE DEF num, p, n
<1>7. num <= Room(js, p) BY <1>1, <1>3, <1>5, <1>6
<1>8. 2 * num + 1 \in Nat /\ num < 2 * num + 1 BY <1>1
<1>9. Enlarged(js, w)[1] = 2 * num + 1 /\ Enlarged(js, w)[2] = n BY <1>4
<1>10. Enlarged(js, w) \in Nat \X Parser BY <1>3, <1>4, <1>8
<1>11. Room(js, Enlarged(js, w)[2]) <= Room(js, p) BY <1>3, <1>9
<1>12. num = Len(Enlarged(js, w)[2].tokens) BY <1>3, <1>9
<1>13. num < Enlarged(js, w)[1] BY <1>8, <1>9
<1> QED BY <1>7, <1>10, <1>11, <1>12, <1>13 DEF num, p

(* The array grows past what the text can fill.                             *)
LEMMA AttemptsEnd ==
  ASSUME NEW js \in Seq(Chars)
  PROVE  Ends(Nat \X Parser, AttemptsDone(js), AttemptsNext(js))
<1> DEFINE W == Nat \X Parser
           next == AttemptsNext(js)
           Left(w) == IF w[1] <= Room(js, w[2]) THEN Room(js, w[2]) + 1 - w[1] ELSE 0
           rank == [w \in W |-> Left(w)]
<1>1. \A w \in W : w[1] \in Nat /\ Room(js, w[2]) \in Nat BY RoomIsNat, ParserIsParserIn
<1>2. rank \in [W -> Nat] BY <1>1
<1>3. \A w \in W : w \in AttemptsDone(js) \/ (next[w] \in W /\ rank[next[w]] < rank[w])
  <2> SUFFICES ASSUME NEW w \in W, w \notin AttemptsDone(js)
               PROVE  next[w] \in W /\ rank[next[w]] < rank[w]
    OBVIOUS
  <2>1. Parse(js, w).err = "NOMEM" BY DEF AttemptsDone
  <2>2. next[w] = Enlarged(js, w) BY DEF AttemptsNext
  <2> HIDE DEF next
  <2>3. /\ next[w] \in W /\ w[1] < next[w][1] /\ Room(js, next[w][2]) <= Room(js, w[2])
        /\ w[1] <= Room(js, w[2])
    BY <2>1, <2>2, EnlargedFacts
  <2> DEFINE v == next[w]
             a == w[1]
             b == v[1]
             x == Room(js, w[2])
             y == Room(js, v[2])
  <2>4. /\ a \in Nat /\ b \in Nat /\ x \in Nat /\ y \in Nat
        /\ a < b /\ y <= x /\ a <= x
        /\ rank[w] = IF a <= x THEN x + 1 - a ELSE 0
        /\ rank[v] = IF b <= y THEN y + 1 - b ELSE 0
    BY <1>1, <2>3
  <2>5. v \in W BY <2>3
  <2> HIDE DEF v, a, b, x, y, rank
  <2>6. rank[v] < rank[w] BY <2>4
  <2> QED BY <2>5, <2>6 DEF v
<1> HIDE DEF W, next, rank
<1>4. Ends(W, AttemptsDone(js), next) BY <1>2, <1>3, RankEnds
<1> QED BY <1>4 DEF W, next

(* What the rounds keep, a parse keeps.                                     *)
LEMMA ParseKeeps ==
  ASSUME NEW js \in Seq(Chars), NEW num, NEW I \in SUBSET Parser,
         \A q \in I : ParseDone(js, num, q) \/ ParseNext(js, num, q) \in I,
         NEW p \in I
  PROVE  LET r == jsmn_parse(js, num, p) IN
         /\ r.parser \in I
         /\ r.err = "SUCCESS" => LastOpen(r.parser.tokens) = -1
<1> DEFINE Kept(q) == LET r == jsmn_parse(js, num, q) IN
                      /\ r.parser \in I
                      /\ r.err = "SUCCESS" => LastOpen(r.parser.tokens) = -1
           Q == {q \in Parser : q \in I => Kept(q)}
<1>1. ASSUME NEW q \in Parser, ParseDone(js, num, q) \/ ParseNext(js, num, q) \in Q
      PROVE  q \in Q
  <2> SUFFICES ASSUME q \in I PROVE Kept(q) OBVIOUS
  <2>1. q.pos < Len(js) => RoundOf(Token, js, num, q, ParseStep(js, num, q))
    BY AllTokens, ParseStepFacts, ParserIsParserIn
  <2>2. CASE ~(q.pos < Len(js))
    <3>1. jsmn_parse(js, num, q) = Outcome(q, IF LastOpen(q.tokens) = -1 THEN "SUCCESS" ELSE "PART")
      BY <2>2, ParseUnrolls DEF ParseDone, ParseValue
    <3> QED BY <3>1 DEF Outcome
  <2>3. CASE q.pos < Len(js) /\ ParseStep(js, num, q).err # "SUCCESS"
    <3>1. jsmn_parse(js, num, q) = ParseStep(js, num, q)
      BY <2>3, ParseUnrolls DEF ParseDone, ParseValue
    <3>2. ParseStep(js, num, q).parser = q BY <2>1, <2>3 DEF RoundOf
    <3> QED BY <2>3, <3>1, <3>2
  <2>4. CASE q.pos < Len(js) /\ ParseStep(js, num, q).err = "SUCCESS"
    <3>1. ~ParseDone(js, num, q) BY <2>4 DEF ParseDone
    <3>2. jsmn_parse(js, num, q) = jsmn_parse(js, num, ParseNext(js, num, q))
      BY <3>1, ParseUnrolls
    <3> QED BY <1>1, <3>1, <3>2
  <2> QED BY <2>2, <2>3, <2>4
<1>2. Q = Parser
  <2>1. Q \in SUBSET Parser OBVIOUS
  <2> HIDE DEF Q
  <2> QED BY <1>1, <2>1, ParseInduction
<1> QED BY <1>2

LEMMA ParseFits ==
  ASSUME NEW js \in Seq(Chars), NEW num \in Nat, NEW p \in Parser, Len(p.tokens) <= num
  PROVE  Len(jsmn_parse(js, num, p).parser.tokens) <= num
<1> DEFINE I == {q \in Parser : Len(q.tokens) <= num}
<1>1. ASSUME NEW q \in I, ~ParseDone(js, num, q) PROVE ParseNext(js, num, q) \in I
  <2> DEFINE r == ParseStep(js, num, q)
  <2>1. q.pos < Len(js) /\ r.err = "SUCCESS" BY <1>1 DEF ParseDone
  <2>2. RoundOf(Token, js, num, q, r) BY <2>1, AllTokens, ParseStepFacts, ParserIsParserIn
  <2>3. r.parser \in Parser BY <2>2, ParserIsParserIn DEF RoundOf
  <2> DEFINE m == Len(q.tokens)
             n == Len(r.parser.tokens)
  <2>4. m \in Nat /\ n \in Nat BY <2>3, ParserFields, ParserIsParserIn
  <2>5. n = m \/ (n = m + 1 /\ m # num) BY <2>1, <2>2 DEF RoundOf
  <2>6. m <= num OBVIOUS
  <2> HIDE DEF m, n, r
  <2>7. n <= num BY <2>4, <2>5, <2>6
  <2> QED BY <2>3, <2>7 DEF ParseNext, r, n
<1>2. p \in I /\ I \in SUBSET Parser OBVIOUS
<1> HIDE DEF I
<1>3. jsmn_parse(js, num, p).parser \in I BY <1>1, <1>2, ParseKeeps
<1> QED BY <1>3 DEF I

(* What an attempt returns is what a parse with enough room returns.        *)
AttemptOf(S, js, p, r) ==
  /\ r.num \in Nat /\ r.parser \in ParserIn(S) /\ r.err \in {"SUCCESS", "INVAL", "PART"}
  /\ Len(r.parser.tokens) <= r.num
  /\ \A more \in Nat : Room(js, p) < more =>
       jsmn_parse(js, more, p).parser = r.parser /\ jsmn_parse(js, more, p).err = r.err

LEMMA LastAttempt ==
  ASSUME NEW S, NEW js \in Seq(Chars), TokensOf(S, js), NEW num \in Nat, NEW p \in ParserIn(S),
         Len(p.tokens) <= num, jsmn_parse(js, num, p).err # "NOMEM"
  PROVE  AttemptOf(S, js, p, Attempt(js, <<num, p>>))
<1> DEFINE r == jsmn_parse(js, num, p)
           room == Room(js, p)
<1>1. p \in Parser BY ParserInIsParser
<1>2. ParseOf(S, js, num, p, r) BY ParseFacts
<1>3. Attempt(js, <<num, p>>) = [num |-> num, parser |-> r.parser, err |-> r.err]
  BY DEF Attempt, Parse
<1>4. room \in Nat /\ Len(p.tokens) \in Nat /\ Len(p.tokens) <= room BY RoomIsNat, ParserFields
<1>5. ASSUME NEW more \in Nat, room < more PROVE jsmn_parse(js, more, p) = r
  <2>1. CASE num = more BY <2>1
  <2>2. CASE num < more BY <1>1, <2>2, ParseResumes DEF Resumes
  <2>3. CASE more < num
    <3> DEFINE s == jsmn_parse(js, more, p)
    <3>1. ParseOf(S, js, more, p, s) BY ParseFacts
    <3>2. Len(p.tokens) <= more BY <1>4, <1>5
    <3>3. Resumes(js, more, num, p) BY <1>1, <2>3, <3>2, ParseResumes
    <3>4. s.err # "NOMEM"
      <4> SUFFICES ASSUME s.err = "NOMEM" PROVE FALSE OBVIOUS
      <4>1. s.parser \in ParserIn(S) /\ Len(s.parser.tokens) = more /\ Room(js, s.parser) <= room
        BY <3>1 DEF ParseOf
      <4>2. Room(js, s.parser) \in Nat /\ more <= Room(js, s.parser) BY <4>1, RoomIsNat
      <4> DEFINE x == Room(js, s.parser)
      <4> HIDE DEF x, room
      <4>3. x \in Nat /\ more <= x /\ x <= room BY <4>1, <4>2 DEF x
      <4> QED BY <1>4, <1>5, <4>3
    <3> QED BY <3>3, <3>4 DEF Resumes
  <2> QED BY <2>1, <2>2, <2>3
<1>6. r.err \in {"SUCCESS", "INVAL", "PART"} /\ r.parser \in ParserIn(S) BY <1>2 DEF ParseOf
<1>7. Len(r.parser.tokens) <= num BY <1>1, ParseFits
<1> HIDE DEF r
<1> QED BY <1>3, <1>5, <1>6, <1>7 DEF AttemptOf

LEMMA AttemptAgain ==
  ASSUME NEW S, NEW js \in Seq(Chars), TokensOf(S, js), NEW num \in Nat, NEW p \in ParserIn(S),
         Len(p.tokens) <= num, NEW n, n = jsmn_parse(js, num, p).parser, NEW r,
         jsmn_parse(js, num, p).err = "NOMEM", AttemptOf(S, js, n, r)
  PROVE  n \in ParserIn(S) /\ Len(n.tokens) = num /\ AttemptOf(S, js, p, r)
<1>1. p \in Parser BY ParserInIsParser
<1>2. ParseOf(S, js, num, p, jsmn_parse(js, num, p)) BY ParseFacts
<1>3. n \in ParserIn(S) /\ Len(n.tokens) = num /\ Room(js, n) <= Room(js, p)
  BY <1>2 DEF ParseOf
<1>4. ASSUME NEW more \in Nat, Room(js, p) < more
      PROVE  jsmn_parse(js, more, p).parser = r.parser /\ jsmn_parse(js, more, p).err = r.err
  <2> DEFINE x == Room(js, n)
             y == Room(js, p)
  <2>1. x \in Nat /\ y \in Nat /\ num <= x /\ x <= y /\ y < more BY <1>3, <1>4, RoomIsNat
  <2>2. x < more /\ num < more
    <3> HIDE DEF x, y
    <3> QED BY <2>1
  <2>3. jsmn_parse(js, more, n).parser = r.parser /\ jsmn_parse(js, more, n).err = r.err
    BY <2>2 DEF AttemptOf
  <2>4. Resumes(js, num, more, p) BY <1>1, <2>2, ParseResumes
  <2> QED BY <2>3, <2>4 DEF Resumes
<1>5. AttemptOf(S, js, p, r) BY <1>4 DEF AttemptOf
<1> QED BY <1>3, <1>5

(* JsoniParseJS returns what a parse with enough room returns.              *)
LEMMA ParseJSFacts ==
  ASSUME NEW S, NEW js \in Seq(Chars), TokensOf(S, js), NEW p \in ParserIn(S), p.tokens = <<>>
  PROVE  AttemptOf(S, js, p, JsoniParseJS(js, p))
<1> DEFINE W == Nat \X Parser
           done == AttemptsDone(js)
           next == AttemptsNext(js)
           val == [w \in W |-> Attempt(js, w)]
<1>1. Ends(W, done, next) BY AttemptsEnd
<1>2. \A h : Iterates(W, done, next, val, h) <=> AttemptRun(js, h)
  <2> SUFFICES ASSUME NEW h PROVE Iterates(W, done, next, val, h) <=> AttemptRun(js, h) OBVIOUS
  <2>1. \A w \in W : (IF w \in done THEN val[w] ELSE h[next[w]])
                     = IF Parse(js, w).err = "NOMEM" THEN h[Enlarged(js, w)] ELSE Attempt(js, w)
    BY DEF AttemptsDone, AttemptsNext
  <2> HIDE DEF done, next, val
  <2> QED BY <2>1 DEF Iterates, AttemptRun
<1>3. PICK g : Iterates(W, done, next, val, g)
  <2> HIDE DEF W, done, next, val
  <2> QED BY <1>1, Iteration
<1> DEFINE h == CHOOSE h : AttemptRun(js, h)
<1>4. AttemptRun(js, h) BY <1>2, <1>3
<1>5. JsoniParseJS(js, p) = h[<<2 * DefaultTokenCount + 1, p>>] BY ParseJSIsRun
<1> HIDE DEF h
<1>6. \A w \in W : h[w] = IF Parse(js, w).err = "NOMEM" THEN h[Enlarged(js, w)] ELSE Attempt(js, w)
  BY <1>4 DEF AttemptRun
<1> DEFINE Q == {w \in W : w[2] \in ParserIn(S) /\ Len(w[2].tokens) <= w[1] =>
                             AttemptOf(S, js, w[2], h[w])}
<1>7. ASSUME NEW w \in W, w \in done \/ next[w] \in Q PROVE w \in Q
  <2> SUFFICES ASSUME w[2] \in ParserIn(S), Len(w[2].tokens) <= w[1]
               PROVE  AttemptOf(S, js, w[2], h[w])
    OBVIOUS
  <2> DEFINE num == w[1]
             q == w[2]
  <2>1. w = <<num, q>> /\ num \in Nat /\ q \in ParserIn(S) /\ Len(q.tokens) <= num OBVIOUS
  <2>2. Parse(js, w) = jsmn_parse(js, num, q) BY DEF Parse
  <2>3. CASE Parse(js, w).err # "NOMEM"
    <3>1. h[w] = Attempt(js, w) BY <1>6, <2>3
    <3> HIDE DEF num, q
    <3>2. AttemptOf(S, js, q, Attempt(js, <<num, q>>)) BY <2>1, <2>2, <2>3, LastAttempt
    <3> QED BY <2>1, <3>1, <3>2 DEF q
  <2>4. CASE Parse(js, w).err = "NOMEM"
    <3> DEFINE n == jsmn_parse(js, num, q).parser
               v == <<2 * num + 1, n>>
    <3>1. h[w] = h[v] /\ w \notin done /\ next[w] = v
      BY <1>6, <2>2, <2>4 DEF Enlarged, AttemptsDone, AttemptsNext
    <3>2. ParseOf(S, js, num, q, jsmn_parse(js, num, q)) BY ParseFacts
    <3>3. n \in ParserIn(S) /\ Len(n.tokens) = num BY <2>2, <2>4, <3>2 DEF ParseOf
    <3>4. v[2] = n /\ v[1] = 2 * num + 1 /\ num <= 2 * num + 1 BY <2>1
    <3>5. v \in Q BY <1>7, <3>1
    <3> HIDE DEF n, num, q
    <3>6. AttemptOf(S, js, n, h[v]) BY <3>3, <3>4, <3>5
    <3>7. AttemptOf(S, js, q, h[v]) BY <2>1, <2>2, <2>4, <3>6, AttemptAgain DEF n
    <3> QED BY <3>1, <3>7 DEF q
  <2> QED BY <2>3, <2>4
<1>8. Q = W
  <2>1. Q \in SUBSET W OBVIOUS
  <2> HIDE DEF Q, W, done, next
  <2> QED BY <1>1, <1>7, <2>1 DEF Ends
<1> DEFINE first == 2 * DefaultTokenCount + 1
<1>9. first \in Nat BY DefaultTokenCountAssumption
<1>10. Len(p.tokens) = 0 BY LenProperties
<1>11. p \in Parser /\ Len(p.tokens) <= first BY <1>9, <1>10, ParserInIsParser
<1> HIDE DEF first
<1>12. <<first, p>> \in Q /\ <<first, p>>[1] = first /\ <<first, p>>[2] = p BY <1>8, <1>9, <1>11
<1>13. AttemptOf(S, js, p, h[<<first, p>>]) BY <1>11, <1>12
<1> QED BY <1>5, <1>13 DEF first

-----------------------------------------------------------------------------
(* Each token counts the tokens directly inside it.                         *)

(* The token i, which is behind j, is inside it.                            *)
Inside(ts, i, j) == ts[j].end = -1 \/ ts[i].start < ts[j].end
Direct(ts, i, j) == Inside(ts, i, j) /\ \A k \in j + 1..i - 1 : ~Inside(ts, i, k)
DirectOf(ts, j) == {i \in j + 1..Len(ts) : Direct(ts, i, j)}

(* Tokens are in the order of their starts; the token i ends behind j, when *)
(* it starts behind it, and else inside it.                                 *)
Apart(ts, i, j) ==
  /\ ts[j].start < ts[i].start
  /\ ts[j].end # -1 /\ ts[j].end <= ts[i].start /\ ts[i].end # -1 => ts[j].end < ts[i].end
  /\ ts[j].end # -1 /\ ts[i].start < ts[j].end => ts[i].end # -1 /\ ts[i].end <= ts[j].end
ReadBefore(t, pos) ==
  /\ t.start \in Nat /\ t.start < pos
  /\ t.end = -1 \/ (t.end \in Nat /\ t.end <= pos)

Placed(p) ==
  /\ \A i \in 1..Len(p.tokens) : ReadBefore(p.tokens[i], p.pos)
  /\ \A i \in 1..Len(p.tokens) : \A j \in 1..i - 1 : Apart(p.tokens, i, j)
CountsChildren(p) ==
  \A j \in 1..Len(p.tokens) : p.tokens[j].size = Cardinality(DirectOf(p.tokens, j))
Nested(p) == Placed(p) /\ CountsChildren(p) /\ p.toksuper = LastOpen(p.tokens)

LEMMA LastOpenIs ==
  ASSUME NEW S, NEW tokens \in Seq(S), NEW i \in -1..Len(tokens) - 1,
         i = -1 \/ IsOpen(tokens[i + 1]), \A j \in i + 2..Len(tokens) : ~IsOpen(tokens[j])
  PROVE  LastOpen(tokens) = i
<1> DEFINE m == LastOpen(tokens)
           n == Len(tokens)
<1>1. /\ m \in -1..n - 1 /\ (m = -1 \/ IsOpen(tokens[m + 1]))
      /\ \A j \in m + 2..n : ~IsOpen(tokens[j])
  BY LastOpenFacts
<1>2. n \in Nat BY LenProperties
<1> HIDE DEF m
<1>3. ~(m < i)
  <2> SUFFICES ASSUME m < i PROVE FALSE OBVIOUS
  <2>1. i # -1 /\ i + 1 \in m + 2..n BY <1>1, <1>2
  <2> QED BY <1>1, <2>1
<1>4. ~(i < m)
  <2> SUFFICES ASSUME i < m PROVE FALSE OBVIOUS
  <2>1. m # -1 /\ m + 1 \in i + 2..n BY <1>1, <1>2
  <2> QED BY <1>1, <2>1
<1>5. m = i BY <1>1, <1>2, <1>3, <1>4
<1> QED BY <1>5 DEF m

(* A token that is new: where it stands.                                    *)
NewBehind(p, q, token) ==
  /\ token.start \in Nat /\ p.pos <= token.start /\ token.start < q.pos
  /\ token.end = -1 \/ (token.end \in Nat /\ p.pos < token.end /\ token.end <= q.pos)
  /\ token.size = 0 /\ p.pos < q.pos

LEMMA OldFields ==
  ASSUME NEW p \in Parser, NEW q \in Parser, NEW token, Took(p, q, token),
         NEW i \in 1..Len(p.tokens)
  PROVE  /\ q.tokens[i].start = p.tokens[i].start /\ q.tokens[i].end = p.tokens[i].end
         /\ q.tokens[i].size = IF i = p.toksuper + 1 THEN p.tokens[i].size + 1
                               ELSE p.tokens[i].size
<1>1. p.tokens[i] \in Token BY ParserFields, ParserIsParserIn
<1>2. q.tokens[i] = IF i = p.toksuper + 1 THEN Bumped(p.tokens[i]) ELSE p.tokens[i] BY DEF Took
<1>3. /\ Bumped(p.tokens[i]).start = p.tokens[i].start /\ Bumped(p.tokens[i]).end = p.tokens[i].end
      /\ Bumped(p.tokens[i]).size = p.tokens[i].size + 1
  BY <1>1 DEF Bumped, Token
<1> QED BY <1>2, <1>3

LEMMA TookPlaced ==
  ASSUME NEW p \in Parser, NEW q \in Parser, NEW token, Took(p, q, token),
         NewBehind(p, q, token), Placed(p)
  PROVE  Placed(q)
<1> DEFINE n == Len(p.tokens)
           ts == p.tokens
           us == q.tokens
<1>1. n \in Nat /\ p.pos \in Nat /\ q.pos \in Nat BY ParserFields, ParserIsParserIn
<1>2. Len(us) = n + 1 /\ us[n + 1] = token BY DEF Took
<1>3. \A i \in 1..n : us[i].start = ts[i].start /\ us[i].end = ts[i].end BY OldFields
<1>4. \A i \in 1..n : ReadBefore(ts[i], p.pos) BY DEF Placed
<1>5. \A i \in 1..n : ReadBefore(us[i], q.pos)
  <2> SUFFICES ASSUME NEW i \in 1..n PROVE ReadBefore(us[i], q.pos) OBVIOUS
  <2> DEFINE s == us[i].start
             e == us[i].end
  <2>1. s \in Nat /\ s < p.pos /\ (e = -1 \/ (e \in Nat /\ e <= p.pos)) /\ p.pos < q.pos
    BY <1>3, <1>4 DEF ReadBefore, NewBehind
  <2> HIDE DEF s, e
  <2>2. s \in Nat /\ s < q.pos /\ (e = -1 \/ (e \in Nat /\ e <= q.pos)) BY <1>1, <2>1
  <2> QED BY <2>2 DEF ReadBefore, s, e
<1>6. ReadBefore(token, q.pos) BY DEF NewBehind, ReadBefore
<1>7. \A i \in 1..n : \A j \in 1..i - 1 : Apart(us, i, j)
  <2> SUFFICES ASSUME NEW i \in 1..n, NEW j \in 1..i - 1 PROVE Apart(us, i, j) OBVIOUS
  <2>1. j \in 1..n BY <1>1
  <2>2. Apart(ts, i, j) BY DEF Placed
  <2> QED BY <1>3, <2>1, <2>2 DEF Apart
<1>8. \A j \in 1..n : Apart(us, n + 1, j)
  <2> SUFFICES ASSUME NEW j \in 1..n PROVE Apart(us, n + 1, j) OBVIOUS
  <2> DEFINE s == us[j].start
             e == us[j].end
             t == token.start
             f == token.end
  <2>1. s \in Nat /\ s < p.pos /\ (e = -1 \/ (e \in Nat /\ e <= p.pos))
    BY <1>3, <1>4 DEF ReadBefore
  <2>2. t \in Nat /\ p.pos <= t /\ (f = -1 \/ (f \in Nat /\ p.pos < f)) BY DEF NewBehind
  <2>3. us[n + 1].start = t /\ us[n + 1].end = f BY <1>2
  <2> HIDE DEF s, e, t, f, us
  <2>4. s < t /\ (e # -1 /\ e <= t /\ f # -1 => e < f) /\ (e # -1 /\ t < e => f # -1 /\ f <= e)
    BY <1>1, <2>1, <2>2
  <2> QED BY <2>3, <2>4 DEF Apart, s, e
<1> HIDE DEF ts, us
<1>9. \A i \in 1..n + 1 : i \in 1..n \/ i = n + 1 BY <1>1
<1>10. (n + 1) - 1 = n BY <1>1
<1>11. \A i \in 1..n + 1 : ReadBefore(us[i], q.pos) BY <1>2, <1>5, <1>6, <1>9
<1>12. \A i \in 1..n + 1 : \A j \in 1..i - 1 : Apart(us, i, j)
  <2> SUFFICES ASSUME NEW i \in 1..n + 1, NEW j \in 1..i - 1 PROVE Apart(us, i, j) OBVIOUS
  <2>1. CASE i \in 1..n BY <1>7, <2>1
  <2>2. CASE i = n + 1 BY <1>8, <1>10, <2>2
  <2> QED BY <1>9, <2>1, <2>2
<1> QED BY <1>2, <1>11, <1>12 DEF Placed, us

(* The new token is directly inside the last open one.                      *)
LEMMA TookCounts ==
  ASSUME NEW p \in Parser, NEW q \in Parser, NEW token, Took(p, q, token),
         NewBehind(p, q, token), Nested(p)
  PROVE  CountsChildren(q)
<1> DEFINE n == Len(p.tokens)
           ts == p.tokens
           us == q.tokens
           super == p.toksuper + 1
<1>1. n \in Nat /\ p.pos \in Nat /\ q.pos \in Nat /\ ts \in Seq(Token) /\ p.toksuper \in Int
  BY ParserFields, ParserIsParserIn
<1>2. Len(us) = n + 1 /\ us[n + 1] = token BY DEF Took
<1>3. \A i \in 1..n : /\ us[i].start = ts[i].start /\ us[i].end = ts[i].end
                      /\ us[i].size = IF i = super THEN ts[i].size + 1 ELSE ts[i].size
  BY OldFields
<1>4. \A i \in 1..n : ReadBefore(ts[i], p.pos) BY DEF Nested, Placed
<1>5. \A j \in 1..n : IsOpen(ts[j]) <=> ts[j].end = -1
  BY <1>4 DEF ReadBefore, IsOpen
<1>6. /\ p.toksuper \in -1..n - 1 /\ (p.toksuper = -1 \/ IsOpen(ts[super]))
      /\ \A j \in p.toksuper + 2..n : ~IsOpen(ts[j])
  BY <1>1, LastOpenFacts DEF Nested
<1>7. \A j \in 1..n : Inside(us, n + 1, j) <=> IsOpen(ts[j])
  <2> SUFFICES ASSUME NEW j \in 1..n PROVE Inside(us, n + 1, j) <=> IsOpen(ts[j]) OBVIOUS
  <2> DEFINE e == ts[j].end
             t == token.start
  <2>1. e = -1 \/ (e \in Nat /\ e <= p.pos) BY <1>4 DEF ReadBefore
  <2>2. t \in Nat /\ p.pos <= t BY DEF NewBehind
  <2>3. us[j].end = e /\ us[n + 1].start = t BY <1>2, <1>3
  <2>4. e # -1 => ~(t < e)
    <3> HIDE DEF e, t
    <3> QED BY <1>1, <2>1, <2>2
  <2> HIDE DEF us
  <2> QED BY <1>5, <2>3, <2>4 DEF Inside
<1>8. \A j \in 1..n : Direct(us, n + 1, j) <=> j = super
  <2> SUFFICES ASSUME NEW j \in 1..n PROVE Direct(us, n + 1, j) <=> j = super OBVIOUS
  <2> HIDE DEF us, ts
  <2>1. (n + 1) - 1 = n /\ \A k \in j + 1..n : k \in 1..n BY <1>1
  <2>2. Direct(us, n + 1, j) <=> IsOpen(ts[j]) /\ \A k \in j + 1..n : ~IsOpen(ts[k])
    BY <1>7, <2>1 DEF Direct
  <2>3. CASE j = super
    <3>1. p.toksuper # -1 /\ j + 1 = p.toksuper + 2 BY <1>1, <2>3
    <3> QED BY <1>6, <2>2, <2>3, <3>1
  <2>4. CASE j < super
    <3>1. super \in j + 1..n /\ p.toksuper # -1
      <4> DEFINE s == p.toksuper
      <4>1. s \in -1..n - 1 /\ j \in 1..n /\ n \in Nat /\ j < s + 1 BY <1>1, <1>6, <2>4
      <4> HIDE DEF s
      <4>2. s + 1 \in j + 1..n /\ s # -1 BY <4>1
      <4> QED BY <4>2 DEF s
    <3>2. IsOpen(ts[super]) BY <1>6, <3>1
    <3>3. j # super BY <1>1, <2>4
    <3> QED BY <2>2, <3>1, <3>2, <3>3
  <2>5. CASE super < j
    <3>1. j \in p.toksuper + 2..n BY <1>1, <2>5
    <3> QED BY <1>1, <1>6, <2>2, <2>5, <3>1
  <2> QED BY <1>1, <2>3, <2>4, <2>5
<1>9. \A j \in 1..n : \A i \in j + 1..n : Direct(us, i, j) <=> Direct(ts, i, j)
  <2> SUFFICES ASSUME NEW j \in 1..n, NEW i \in j + 1..n
               PROVE  Direct(us, i, j) <=> Direct(ts, i, j)
    OBVIOUS
  <2>1. i \in 1..n /\ \A k \in j + 1..i - 1 : k \in 1..n BY <1>1
  <2>2. \A k \in 1..n : Inside(us, i, k) <=> Inside(ts, i, k) BY <1>3, <2>1 DEF Inside
  <2> HIDE DEF us, ts
  <2> QED BY <2>1, <2>2 DEF Direct
<1> HIDE DEF us, ts, super
<1>10. \A j \in 1..n : \A i : i \in j + 1..n + 1 <=> (i \in j + 1..n \/ i = n + 1) BY <1>1
<1>11. \A j \in 1..n : DirectOf(us, j) = IF j = super THEN DirectOf(ts, j) \cup {n + 1}
                                         ELSE DirectOf(ts, j)
  BY <1>2, <1>8, <1>9, <1>10 DEF DirectOf, ts
<1>12. \A j \in 1..n : /\ IsFiniteSet(DirectOf(ts, j)) /\ n + 1 \notin DirectOf(ts, j)
                       /\ Cardinality(DirectOf(ts, j)) \in Nat
  <2> SUFFICES ASSUME NEW j \in 1..n
               PROVE  /\ IsFiniteSet(DirectOf(ts, j)) /\ n + 1 \notin DirectOf(ts, j)
                      /\ Cardinality(DirectOf(ts, j)) \in Nat
    OBVIOUS
  <2>1. DirectOf(ts, j) \subseteq j + 1..n BY DEF DirectOf, ts
  <2>2. IsFiniteSet(j + 1..n)
    <3> DEFINE a == j + 1
    <3>1. a \in Int /\ n \in Int BY <1>1
    <3> HIDE DEF a, n
    <3>2. IsFiniteSet(a..n) BY <3>1, FS_Interval
    <3> QED BY <3>2 DEF a, n
  <2>3. n + 1 \notin j + 1..n BY <1>1
  <2> QED BY <2>1, <2>2, <2>3, FS_Subset, FS_CardinalityType
<1>13. \A j \in 1..n : ts[j].size = Cardinality(DirectOf(ts, j)) BY DEF Nested, CountsChildren, ts
<1>14. \A j \in 1..n : us[j].size = Cardinality(DirectOf(us, j))
  <2> SUFFICES ASSUME NEW j \in 1..n PROVE us[j].size = Cardinality(DirectOf(us, j)) OBVIOUS
  <2>1. CASE j = super
    <3>1. Cardinality(DirectOf(ts, j) \cup {n + 1}) = Cardinality(DirectOf(ts, j)) + 1
      BY <1>12, FS_AddElement
    <3> QED BY <1>3, <1>11, <1>13, <2>1, <3>1
  <2>2. CASE j # super BY <1>3, <1>11, <1>13, <2>2
  <2> QED BY <2>1, <2>2
<1>15. us[n + 1].size = Cardinality(DirectOf(us, n + 1))
  <2>1. n + 1 + 1..n + 1 = {} BY <1>1
  <2>2. DirectOf(us, n + 1) = {} BY <1>2, <2>1 DEF DirectOf
  <2> QED BY <1>2, <2>2, FS_EmptySet DEF NewBehind
<1>16. \A j \in 1..n + 1 : j \in 1..n \/ j = n + 1 BY <1>1
<1>17. \A j \in 1..n + 1 : us[j].size = Cardinality(DirectOf(us, j)) BY <1>14, <1>15, <1>16
<1> QED BY <1>2, <1>17 DEF CountsChildren, us

(* A closing bracket ends the token the parser was inside.                  *)
LEMMA EndedNested ==
  ASSUME NEW p \in Parser, NEW q \in Parser, Ended(p, q), Nested(p)
  PROVE  Nested(q)
<1> DEFINE n == Len(p.tokens)
           ts == p.tokens
           us == q.tokens
           m == LastOpen(p.tokens) + 1
           pos == p.pos
<1>1. n \in Nat /\ pos \in Nat /\ ts \in Seq(Token) /\ \A i \in 1..n : ts[i] \in Token
  BY ParserFields, ParserIsParserIn
<1>2. Len(us) = n /\ q.pos = pos + 1 /\ q.toksuper = LastOpen(us) BY DEF Ended
<1>3. \A i \in 1..n : ReadBefore(ts[i], pos) BY DEF Nested, Placed
<1>4. m \in 1..n /\ IsOpen(ts[m]) /\ \A j \in m + 1..n : ~IsOpen(ts[j])
  <2> DEFINE l == LastOpen(ts)
  <2>1. /\ l \in -1..n - 1 /\ (l = -1 \/ IsOpen(ts[l + 1]))
        /\ \A j \in l + 2..n : ~IsOpen(ts[j])
    BY <1>1, LastOpenFacts
  <2>2. l # -1 BY DEF Ended
  <2>3. m = l + 1 OBVIOUS
  <2> HIDE DEF l, m, ts, n
  <2>4. m \in 1..n /\ m + 1 = l + 2 BY <1>1, <2>1, <2>2, <2>3
  <2>5. IsOpen(ts[m]) BY <2>1, <2>2, <2>3
  <2> QED BY <2>1, <2>4, <2>5
<1>5. \A i \in 1..n : us[i] = IF i = m THEN EndedAt(ts[i], pos + 1) ELSE ts[i] BY DEF Ended
<1> HIDE DEF m
<1>6. \A i \in 1..n : /\ us[i].start = ts[i].start /\ us[i].size = ts[i].size
                      /\ us[i].end = IF i = m THEN pos + 1 ELSE ts[i].end
  <2> SUFFICES ASSUME NEW i \in 1..n
               PROVE  /\ us[i].start = ts[i].start /\ us[i].size = ts[i].size
                      /\ us[i].end = IF i = m THEN pos + 1 ELSE ts[i].end
    OBVIOUS
  <2>1. ts[i] \in Token BY <1>1
  <2>2. /\ EndedAt(ts[i], pos + 1).start = ts[i].start /\ EndedAt(ts[i], pos + 1).end = pos + 1
        /\ EndedAt(ts[i], pos + 1).size = ts[i].size
    BY <2>1 DEF EndedAt, Token
  <2> QED BY <1>5, <2>2
<1> HIDE DEF us
<1>7. \A i \in 1..n : /\ ts[i].start \in Nat /\ ts[i].start < pos
                      /\ (ts[i].end = -1 \/ (ts[i].end \in Nat /\ ts[i].end <= pos))
  BY <1>3 DEF ReadBefore
<1>8. ts[m].end = -1 BY <1>4 DEF IsOpen
<1>9. \A i \in m + 1..n : i \in 1..n /\ ts[i].end # -1 /\ ts[i].end \in Nat
  <2>1. \A i \in m + 1..n : i \in 1..n BY <1>1, <1>4
  <2> QED BY <1>4, <1>7, <2>1 DEF IsOpen
<1>10. \A i \in 1..n : ReadBefore(us[i], q.pos)
  <2> SUFFICES ASSUME NEW i \in 1..n PROVE ReadBefore(us[i], q.pos) OBVIOUS
  <2> DEFINE s == ts[i].start
             e == ts[i].end
             x == us[i].end
  <2>1. s \in Nat /\ s < pos /\ (e = -1 \/ (e \in Nat /\ e <= pos)) /\ (x = e \/ x = pos + 1)
    BY <1>6, <1>7
  <2>2. us[i].start = s BY <1>6
  <2> HIDE DEF s, e, x, pos
  <2>3. s < pos + 1 /\ (x = -1 \/ (x \in Nat /\ x <= pos + 1)) BY <1>1, <2>1
  <2> QED BY <1>2, <2>1, <2>2, <2>3 DEF ReadBefore, x
<1>11. \A i \in 1..n : \A j \in 1..i - 1 : Apart(us, i, j)
  <2> SUFFICES ASSUME NEW i \in 1..n, NEW j \in 1..i - 1 PROVE Apart(us, i, j) OBVIOUS
  <2>1. j \in 1..n /\ j < i BY <1>1
  <2>2. Apart(ts, i, j) BY DEF Nested, Placed
  <2> DEFINE si == ts[i].start
             ei == ts[i].end
             sj == ts[j].start
             ej == ts[j].end
             fi == us[i].end
             fj == us[j].end
  <2>3. /\ si \in Nat /\ si < pos /\ sj \in Nat /\ sj < pos
        /\ (ei = -1 \/ (ei \in Nat /\ ei <= pos)) /\ (ej = -1 \/ (ej \in Nat /\ ej <= pos))
    BY <1>7, <2>1
  <2>4. /\ sj < si /\ (ej # -1 /\ ej <= si /\ ei # -1 => ej < ei)
        /\ (ej # -1 /\ si < ej => ei # -1 /\ ei <= ej)
    BY <2>2 DEF Apart
  <2>5. us[i].start = si /\ us[j].start = sj BY <1>6, <2>1
  <2>6. /\ fi = IF i = m THEN pos + 1 ELSE ei
        /\ fj = IF j = m THEN pos + 1 ELSE ej
    BY <1>6, <2>1
  <2>7. (i = m => ei = -1) /\ (j = m => ei # -1)
    <3>1. j = m => i \in m + 1..n BY <1>1, <2>1
    <3> QED BY <1>8, <1>9, <3>1
  <2> HIDE DEF si, ei, sj, ej, fi, fj, pos
  <2>8. /\ sj < si /\ (fj # -1 /\ fj <= si /\ fi # -1 => fj < fi)
        /\ (fj # -1 /\ si < fj => fi # -1 /\ fi <= fj)
    <3>1. CASE i = m
      <4>1. j # m BY <2>1, <3>1
      <4> QED BY <1>1, <2>3, <2>4, <2>6, <2>7, <3>1, <4>1
    <3>2. CASE j = m
      <4>1. i # m BY <2>1, <3>2
      <4> QED BY <1>1, <2>3, <2>4, <2>6, <2>7, <3>2, <4>1
    <3>3. CASE i # m /\ j # m BY <2>4, <2>6, <3>3
    <3> QED BY <3>1, <3>2, <3>3
  <2> QED BY <2>5, <2>8 DEF Apart, fi, fj
<1>12. \A j \in 1..n : \A i \in j + 1..n : Inside(us, i, j) <=> Inside(ts, i, j)
  <2> SUFFICES ASSUME NEW j \in 1..n, NEW i \in j + 1..n
               PROVE  Inside(us, i, j) <=> Inside(ts, i, j)
    OBVIOUS
  <2>1. i \in 1..n BY <1>1
  <2>2. CASE j # m BY <1>6, <2>1, <2>2 DEF Inside
  <2>3. CASE j = m
    <3>1. Inside(ts, i, j) BY <1>8, <2>3 DEF Inside
    <3> DEFINE s == ts[i].start
    <3>2. s < pos /\ s \in Nat BY <1>7, <2>1
    <3>3. us[j].end = pos + 1 /\ us[i].start = s BY <1>6, <2>1, <2>3
    <3> HIDE DEF s, pos
    <3>4. s < pos + 1 BY <1>1, <3>2
    <3> QED BY <3>1, <3>3, <3>4 DEF Inside
  <2> QED BY <2>2, <2>3
<1>13. \A j \in 1..n : DirectOf(us, j) = DirectOf(ts, j)
  <2> SUFFICES ASSUME NEW j \in 1..n PROVE DirectOf(us, j) = DirectOf(ts, j) OBVIOUS
  <2>1. ASSUME NEW i \in j + 1..n PROVE Direct(us, i, j) <=> Direct(ts, i, j)
    <3>1. \A k \in j + 1..i - 1 : k \in 1..n /\ i \in k + 1..n BY <1>1
    <3>2. \A k \in j + 1..i - 1 : Inside(us, i, k) <=> Inside(ts, i, k) BY <1>12, <3>1
    <3>3. Inside(us, i, j) <=> Inside(ts, i, j) BY <1>12
    <3> QED BY <3>2, <3>3 DEF Direct
  <2> QED BY <1>2, <2>1 DEF DirectOf
<1>14. \A j \in 1..n : us[j].size = Cardinality(DirectOf(us, j))
  <2>1. \A j \in 1..n : ts[j].size = Cardinality(DirectOf(ts, j)) BY DEF Nested, CountsChildren
  <2> QED BY <1>6, <1>13, <2>1
<1> QED BY <1>2, <1>10, <1>11, <1>14 DEF Nested, Placed, CountsChildren, us

LEMMA TookNested ==
  ASSUME NEW p \in Parser, NEW q \in Parser, NEW token, Took(p, q, token),
         NewBehind(p, q, token), Nested(p),
         q.toksuper = IF token.end = -1 THEN Len(p.tokens) ELSE p.toksuper
  PROVE  Nested(q)
<1> DEFINE n == Len(p.tokens)
           ts == p.tokens
           us == q.tokens
           m == q.toksuper
<1>1. n \in Nat /\ ts \in Seq(Token) /\ us \in Seq(Token) /\ p.toksuper \in Int
  BY ParserFields, ParserIsParserIn
<1>2. Placed(q) BY TookPlaced DEF Nested
<1>3. CountsChildren(q) BY TookCounts
<1>4. Len(us) = n + 1 /\ us[n + 1] = token BY DEF Took
<1>5. \A i \in 1..n : IsOpen(us[i]) <=> IsOpen(ts[i]) BY OldFields DEF IsOpen
<1>6. IsOpen(token) <=> token.end = -1 BY DEF IsOpen, NewBehind
<1>7. /\ p.toksuper \in -1..n - 1 /\ (p.toksuper = -1 \/ IsOpen(ts[p.toksuper + 1]))
      /\ \A j \in p.toksuper + 2..n : ~IsOpen(ts[j])
  BY <1>1, LastOpenFacts DEF Nested
<1> HIDE DEF us, ts
<1>8. CASE token.end = -1
  <2>1. m = n BY <1>8
  <2>2. m \in -1..n /\ m + 1 = n + 1 BY <1>1, <2>1
  <2>3. (n + 1) - 1 = n /\ m + 2..n + 1 = {} BY <1>1, <2>1
  <2> HIDE DEF m
  <2>4. LastOpen(us) = m BY <1>1, <1>4, <1>6, <1>8, <2>2, <2>3, LastOpenIs
  <2> QED BY <1>2, <1>3, <2>4 DEF Nested, us, m
<1>9. CASE token.end # -1
  <2>1. m = p.toksuper BY <1>9
  <2>2. m \in -1..n /\ (n + 1) - 1 = n BY <1>1, <1>7, <2>1
  <2>3. m = -1 \/ IsOpen(us[m + 1])
    <3>1. m # -1 => m + 1 \in 1..n BY <1>1, <1>7, <2>1
    <3> QED BY <1>5, <1>7, <2>1, <3>1
  <2>4. \A j \in m + 2..n + 1 : ~IsOpen(us[j])
    <3> SUFFICES ASSUME NEW j \in m + 2..n + 1 PROVE ~IsOpen(us[j]) OBVIOUS
    <3> DEFINE s == p.toksuper
    <3>1. s \in -1..n - 1 /\ j \in s + 2..n + 1 BY <1>7, <2>1
    <3> HIDE DEF s, n
    <3>2. j = n + 1 \/ (j \in 1..n /\ j \in s + 2..n) BY <1>1, <3>1
    <3> USE DEF s
    <3> QED BY <1>4, <1>5, <1>6, <1>7, <1>9, <3>2
  <2> HIDE DEF m
  <2>5. LastOpen(us) = m BY <1>1, <1>4, <2>2, <2>3, <2>4, LastOpenIs
  <2> QED BY <1>2, <1>3, <2>5 DEF Nested, us, m
<1> QED BY <1>8, <1>9

LEMMA NewTokenFields ==
  ASSUME NEW type, NEW start, NEW end
  PROVE  /\ NewToken(type, start, end).start = start /\ NewToken(type, start, end).end = end
         /\ NewToken(type, start, end).size = 0
BY DEF NewToken

LEMMA RoundKeepsNested ==
  ASSUME NEW js \in Seq(Chars), NEW num, NEW p \in Parser, NEW r,
         RoundOf(Token, js, num, p, r), r.err = "SUCCESS", Nested(p)
  PROVE  Nested(r.parser)
<1> DEFINE q == r.parser
<1>1. q \in Parser BY ParserIsParserIn DEF RoundOf
<1>2. p.tokens \in Seq(Token) /\ Len(p.tokens) \in Nat /\ p.pos \in Nat
  BY ParserFields, ParserIsParserIn
<1>3. p.toksuper < Len(p.tokens)
  <2>1. p.toksuper \in -1..Len(p.tokens) - 1 BY <1>2, LastOpenFacts DEF Nested
  <2> QED BY <1>2, <2>1
<1>4. Began(p, q) \/ ReadOne(p, q) \/ Ended(p, q) \/ PassedOver(p, q) BY <1>3 DEF RoundOf
<1>5. p.pos < q.pos BY DEF RoundOf
<1> SUFFICES Nested(q) OBVIOUS
<1> HIDE DEF q
<1>6. CASE Began(p, q)
  <2>1. PICK type \in {"OBJECT", "ARRAY"} : Took(p, q, NewToken(type, p.pos, -1)) BY <1>6 DEF Began
  <2> DEFINE token == NewToken(type, p.pos, -1)
  <2>2. token.start = p.pos /\ token.end = -1 /\ token.size = 0 BY NewTokenFields
  <2>3. Took(p, q, token) BY <2>1
  <2> HIDE DEF token
  <2>4. NewBehind(p, q, token) BY <1>2, <1>5, <2>2 DEF NewBehind
  <2>5. q.toksuper = Len(p.tokens) BY <1>6 DEF Began
  <2>6. q.toksuper = IF token.end = -1 THEN Len(p.tokens) ELSE p.toksuper BY <2>2, <2>5
  <2> QED BY <1>1, <2>3, <2>4, <2>6, TookNested
<1>7. CASE ReadOne(p, q)
  <2>1. PICK type \in {"STRING", "PRIMITIVE"}, start \in Nat, end \in Nat :
          /\ Took(p, q, NewToken(type, start, end)) /\ q.toksuper = p.toksuper
          /\ p.pos <= start /\ start <= end /\ start < q.pos /\ end <= q.pos /\ p.pos < end
    BY <1>7 DEF ReadOne
  <2> DEFINE token == NewToken(type, start, end)
  <2>2. token.start = start /\ token.end = end /\ token.size = 0 BY NewTokenFields
  <2>3. Took(p, q, token) BY <2>1
  <2> HIDE DEF token
  <2>4. NewBehind(p, q, token) BY <1>5, <2>1, <2>2 DEF NewBehind
  <2>5. token.end # -1 BY <2>2
  <2>6. q.toksuper = IF token.end = -1 THEN Len(p.tokens) ELSE p.toksuper BY <2>1, <2>5
  <2> QED BY <1>1, <2>3, <2>4, <2>6, TookNested
<1>8. CASE Ended(p, q) BY <1>1, <1>8, EndedNested
<1>9. CASE PassedOver(p, q)
  <2>1. q.tokens = p.tokens /\ q.toksuper = p.toksuper BY <1>9 DEF PassedOver
  <2>2. \A i \in 1..Len(p.tokens) : ReadBefore(p.tokens[i], q.pos)
    <3> SUFFICES ASSUME NEW i \in 1..Len(p.tokens) PROVE ReadBefore(p.tokens[i], q.pos) OBVIOUS
    <3> DEFINE s == p.tokens[i].start
               e == p.tokens[i].end
    <3>1. s \in Nat /\ s < p.pos /\ (e = -1 \/ (e \in Nat /\ e <= p.pos))
      BY DEF Nested, Placed, ReadBefore
    <3>2. q.pos \in Nat BY <1>1, ParserFields, ParserIsParserIn
    <3> HIDE DEF s, e
    <3>3. s < q.pos /\ (e = -1 \/ (e \in Nat /\ e <= q.pos)) BY <1>2, <1>5, <3>1, <3>2
    <3> QED BY <3>1, <3>3 DEF ReadBefore, s, e
  <2> QED BY <2>1, <2>2 DEF Nested, Placed, CountsChildren
<1> QED BY <1>4, <1>6, <1>7, <1>8, <1>9

LEMMA ParseKeepsNested ==
  ASSUME NEW js \in Seq(Chars), NEW num, NEW p \in Parser, Nested(p)
  PROVE  Nested(jsmn_parse(js, num, p).parser)
<1> DEFINE Q == {q \in Parser : Nested(q) => Nested(jsmn_parse(js, num, q).parser)}
<1>1. ASSUME NEW q \in Parser, ParseDone(js, num, q) \/ ParseNext(js, num, q) \in Q
      PROVE  q \in Q
  <2> SUFFICES ASSUME Nested(q) PROVE Nested(jsmn_parse(js, num, q).parser) OBVIOUS
  <2>1. q.pos < Len(js) => RoundOf(Token, js, num, q, ParseStep(js, num, q))
    BY AllTokens, ParseStepFacts, ParserIsParserIn
  <2>2. CASE ~(q.pos < Len(js))
    <3>1. jsmn_parse(js, num, q) = Outcome(q, IF LastOpen(q.tokens) = -1 THEN "SUCCESS" ELSE "PART")
      BY <2>2, ParseUnrolls DEF ParseDone, ParseValue
    <3> QED BY <3>1 DEF Outcome
  <2>3. CASE q.pos < Len(js) /\ ParseStep(js, num, q).err # "SUCCESS"
    <3>1. jsmn_parse(js, num, q) = ParseStep(js, num, q)
      BY <2>3, ParseUnrolls DEF ParseDone, ParseValue
    <3>2. ParseStep(js, num, q).parser = q BY <2>1, <2>3 DEF RoundOf
    <3> QED BY <3>1, <3>2
  <2>4. CASE q.pos < Len(js) /\ ParseStep(js, num, q).err = "SUCCESS"
    <3>1. ~ParseDone(js, num, q) BY <2>4 DEF ParseDone
    <3>2. jsmn_parse(js, num, q) = jsmn_parse(js, num, ParseNext(js, num, q))
      BY <3>1, ParseUnrolls
    <3>3. Nested(ParseNext(js, num, q)) BY <2>1, <2>4, RoundKeepsNested DEF ParseNext
    <3> QED BY <1>1, <3>1, <3>2, <3>3
  <2> QED BY <2>2, <2>3, <2>4
<1>2. Q = Parser
  <2>1. Q \in SUBSET Parser OBVIOUS
  <2> HIDE DEF Q
  <2> QED BY <1>1, <2>1, ParseInduction
<1> QED BY <1>2

LEMMA InitNested == jsmn_init \in ParserIn({}) /\ jsmn_init \in Parser /\ Nested(jsmn_init)
<1> DEFINE none == <<>>
<1>1. /\ jsmn_init.pos = 0 /\ jsmn_init.toksuper = -1 /\ jsmn_init.tokens = none BY DEF jsmn_init
<1>2. none \in Seq(Token) /\ none \in Seq({}) /\ Len(none) = 0 OBVIOUS
<1>3. LastOpen(none) = -1
  <2>1. LastOpen(none) \in -1..Len(none) - 1 BY <1>2, LastOpenFacts
  <2> QED BY <1>2, <2>1
<1> HIDE DEF none
<1>4. jsmn_init \in Parser /\ jsmn_init \in ParserIn({}) BY <1>1, <1>2 DEF Parser, ParserIn, jsmn_init
<1>5. 1..0 = {} OBVIOUS
<1> QED BY <1>1, <1>2, <1>3, <1>4, <1>5 DEF Nested, Placed, CountsChildren

(* What holds of the sizes when every token has its end.                    *)
LEMMA ChildrenCounted ==
  ASSUME NEW p \in Parser, Nested(p), LastOpen(p.tokens) = -1, NEW j \in 1..Len(p.tokens)
  PROVE  LET tokens == p.tokens
             inside(a, b) == tokens[b].start <= tokens[a].start /\ tokens[a].end <= tokens[b].end
         IN  tokens[j].size = Cardinality({i \in j + 1..Len(tokens) :
                                inside(i, j) /\ \A k \in j + 1..i - 1 : ~inside(i, k)})
<1> DEFINE n == Len(p.tokens)
           ts == p.tokens
           inside(a, b) == ts[b].start <= ts[a].start /\ ts[a].end <= ts[b].end
           children == {i \in j + 1..n : inside(i, j) /\ \A k \in j + 1..i - 1 : ~inside(i, k)}
<1>1. n \in Nat /\ ts \in Seq(Token) BY ParserFields, ParserIsParserIn
<1>2. \A i \in 1..n : ReadBefore(ts[i], p.pos) BY DEF Nested, Placed
<1>3. \A i \in 1..n : ~IsOpen(ts[i])
  <2>1. \A i \in -1 + 2..n : ~IsOpen(ts[i])
    <3> HIDE DEF n
    <3> QED BY <1>1, LastOpenFacts DEF n
  <2> QED BY <2>1
<1>4. \A i \in 1..n : ts[i].start \in Nat /\ ts[i].end \in Nat
  BY <1>2, <1>3 DEF ReadBefore, IsOpen
<1> HIDE DEF ts
<1>5. \A b \in 1..n : \A a \in b + 1..n : inside(a, b) <=> Inside(ts, a, b)
  <2> SUFFICES ASSUME NEW b \in 1..n, NEW a \in b + 1..n
               PROVE  inside(a, b) <=> Inside(ts, a, b)
    OBVIOUS
  <2>1. a \in 1..n /\ b \in 1..a - 1 BY <1>1
  <2>2. Apart(ts, a, b) BY <2>1 DEF Nested, Placed, ts
  <2> DEFINE sa == ts[a].start
             ea == ts[a].end
             sb == ts[b].start
             eb == ts[b].end
  <2>3. sa \in Nat /\ ea \in Nat /\ sb \in Nat /\ eb \in Nat BY <1>4, <2>1
  <2>4. sb < sa /\ (eb <= sa => eb < ea) /\ (sa < eb => ea <= eb)
    <3>1. ea # -1 /\ eb # -1 BY <2>3
    <3> QED BY <2>2, <3>1 DEF Apart
  <2>5. Inside(ts, a, b) <=> sa < eb
    <3>1. eb # -1 BY <2>3
    <3> QED BY <3>1 DEF Inside
  <2>6. inside(a, b) <=> (sb <= sa /\ ea <= eb) OBVIOUS
  <2> HIDE DEF sa, ea, sb, eb, inside
  <2>7. (sb <= sa /\ ea <= eb) <=> sa < eb BY <2>3, <2>4
  <2> QED BY <2>5, <2>6, <2>7
<1>6. \A i \in j + 1..n : \A k \in j + 1..i - 1 : k \in 1..n /\ i \in k + 1..n BY <1>1
<1> HIDE DEF inside
<1>7. children = DirectOf(ts, j)
  <2>1. \A i \in j + 1..n : (inside(i, j) /\ \A k \in j + 1..i - 1 : ~inside(i, k)) <=> Direct(ts, i, j)
    BY <1>5, <1>6 DEF Direct
  <2> QED BY <2>1 DEF DirectOf, ts
<1>8. ts[j].size = Cardinality(DirectOf(ts, j)) BY DEF Nested, CountsChildren, ts
<1> QED BY <1>7, <1>8 DEF ts, inside

-----------------------------------------------------------------------------
(* The tokens of a text, and the text of a token.                           *)

TokenOf(js) == [type : {"PRIMITIVE", "OBJECT", "ARRAY", "STRING"},
                start : 0..Len(js), end : -1..Len(js), size : Nat]
Blanks == {UnusedToken, ZeroedToken}

LEMMA BoundedTokens ==
  ASSUME NEW js \in Seq(Chars)
  PROVE  TokensOf(TokenOf(js), js)
<1>1. Len(js) \in Nat BY LenProperties
<1>2. TokenOf(js) \subseteq Token BY <1>1 DEF TokenOf, Token
<1>3. \A t \in TokenOf(js) : Bumped(t) \in TokenOf(js) BY DEF Bumped, TokenOf
<1>4. \A t \in TokenOf(js) : \A q \in 1..Len(js) : EndedAt(t, q) \in TokenOf(js)
  BY <1>1 DEF EndedAt, TokenOf
<1>5. \A type \in {"PRIMITIVE", "OBJECT", "ARRAY", "STRING"} :
        \A start \in 0..Len(js), end \in -1..Len(js) : NewToken(type, start, end) \in TokenOf(js)
  BY <1>1 DEF NewToken, TokenOf
<1> QED BY <1>2, <1>3, <1>4, <1>5 DEF TokensOf

LEMMA BlankFields ==
  ASSUME NEW t \in Blanks
  PROVE  /\ t.type = "PRIMITIVE" /\ t.size = 0
         /\ (t.start = -1 /\ t.end = -1) \/ (t.start = 0 /\ t.end = 0)
<1>1. CASE t = UnusedToken BY <1>1 DEF UnusedToken
<1>2. CASE t = ZeroedToken
  <2>1. t = [type |-> "PRIMITIVE", start |-> 0, end |-> 0, size |-> 0]
    BY <1>2 DEF ZeroedToken, UnusedToken
  <2> QED BY <2>1
<1> QED BY <1>1, <1>2 DEF Blanks

LEMMA TokenAtFacts ==
  ASSUME NEW js, NEW p \in ParserIn(TokenOf(js)), NEW num, NEW i \in Nat
  PROVE  LET t == TokenAt(p.tokens, num, i) IN
         /\ t \in TokenOf(js) \cup Blanks /\ t.size \in Nat
         /\ ~(i < Len(p.tokens)) => t.type = "PRIMITIVE"
<1> DEFINE t == TokenAt(p.tokens, num, i)
<1>1. CASE i < Len(p.tokens)
  <2>1. Len(p.tokens) \in Nat BY ParserFields
  <2>2. i + 1 \in 1..Len(p.tokens) BY <1>1, <2>1
  <2>3. p.tokens[i + 1] \in TokenOf(js) BY <2>2, ParserFields
  <2>4. t = p.tokens[i + 1] BY <1>1 DEF TokenAt
  <2>5. t.size \in Nat BY <2>3, <2>4 DEF TokenOf
  <2> QED BY <1>1, <2>3, <2>4, <2>5
<1>2. CASE ~(i < Len(p.tokens))
  <2>1. t \in Blanks BY <1>2 DEF TokenAt, Blanks
  <2>2. t.size \in Nat /\ t.type = "PRIMITIVE" BY <2>1, BlankFields
  <2> QED BY <2>1, <2>2
<1> QED BY <1>1, <1>2

LEMMA TextOfFacts ==
  ASSUME NEW js \in Seq(Chars), NEW t \in TokenOf(js) \cup Blanks
  PROVE  TextOf(js, t) \in Seq(Chars)
<1>1. Len(js) \in Nat /\ \A i \in 1..Len(js) : js[i] \in Chars BY LenProperties, ElementOfSeq
<1>2. t.start + 1 \in Int /\ t.end \in Int /\ \A i \in t.start + 1..t.end : i \in 1..Len(js)
  <2>1. CASE t \in TokenOf(js)
    <3>1. t.start \in 0..Len(js) /\ t.end \in -1..Len(js) BY <2>1 DEF TokenOf
    <3> QED BY <1>1, <3>1
  <2>2. CASE t \in Blanks
    <3>1. (t.start = -1 /\ t.end = -1) \/ (t.start = 0 /\ t.end = 0) BY <2>2, BlankFields
    <3> QED BY <3>1
  <2> QED BY <2>1, <2>2
<1> DEFINE m == t.start + 1
           n == t.end
<1>3. m \in Int /\ n \in Int /\ \A i \in m..n : js[i] \in Chars BY <1>1, <1>2
<1> HIDE DEF m, n
<1>4. SubSeq(js, m, n) \in Seq(Chars) BY <1>3, SubSeqProperties
<1> QED BY <1>4 DEF TextOf, m, n

-----------------------------------------------------------------------------
(* The cursor.                                                              *)

(* An object whose tokens are of its text.                                  *)
Readable(o) ==
  o.data \in Seq(Chars) /\ o.parser \in ParserIn(TokenOf(o.data)) /\ o.num \in Nat

(* A walk that stops, and what a round of one that does not makes of it: it *)
(* stops, goes on to later tokens, or is behind them and has less to read.  *)
Stands(w) == w.err # "SUCCESS" \/ w.child # None
Finishes(w) == Stands(w) \/ w.rem = 0
GoesOn(o, w, v) ==
  /\ v \in Walks /\ (v.child = None \/ v.child \in Nat)
  /\ v.state = "NOT_STARTED" => w.state = "NOT_STARTED"
  /\ \/ Stands(v)
     \/ w.idx < Len(o.parser.tokens) /\ w.idx < v.idx
     \/ ~(w.idx < Len(o.parser.tokens)) /\ w.idx <= v.idx /\ v.rem < w.rem

LEMMA RefusedGoesOn ==
  ASSUME NEW o, NEW w \in Walks, NEW err \in Errors \ {"SUCCESS"}, w.child = None,
         NEW v \in Walks, v.child = w.child, v.state = w.state
  PROVE  GoesOn(o, w, Refused(v, err))
<1>1. Refused(v, err) = [v EXCEPT !.err = err] BY DEF Refused
<1> DEFINE r == [v EXCEPT !.err = err]
<1>3. /\ r \in Walks /\ r.err = err /\ r.child = v.child /\ r.state = v.state
  BY DEF Walks
<1> HIDE DEF r
<1> QED BY <1>1, <1>3 DEF GoesOn, Stands, r

LEMMA SkipFacts ==
  ASSUME NEW o, o.num \in Nat, NEW token, NEW idx \in Nat
  PROVE  LET next == SkipJsonTokenIfNeeded(o, token, idx) IN
         next # None => next \in Nat /\ idx <= next
<1> DEFINE Outside(k) == LET t == TokenAt(o.parser.tokens, o.num, k)
                         IN  t.start = -1 \/ t.start >= token.end
           First(k) == Outside(k) /\ \A j \in idx + 1..k - 1 : ~Outside(j)
           found == CHOOSE k \in idx + 1..o.num - 1 : First(k)
           S == {k \in idx + 1..o.num - 1 : Outside(k)}
<1>1. SkipJsonTokenIfNeeded(o, token, idx)
      = IF ~IsContainer(token) THEN idx
        ELSE IF \A k \in idx + 1..o.num - 1 : ~Outside(k) THEN None ELSE found
  BY DEF SkipJsonTokenIfNeeded
<1> HIDE DEF Outside
<1>2. CASE S = {} BY <1>1, <1>2
<1>3. CASE S # {}
  <2>1. S \in SUBSET Nat OBVIOUS
  <2>2. PICK k \in S : \A j \in S : k <= j
    <3> HIDE DEF S
    <3> QED BY <1>3, <2>1, LeastOfNat
  <2>3. k \in idx + 1..o.num - 1 /\ Outside(k) OBVIOUS
  <2>4. ASSUME NEW j \in idx + 1..k - 1 PROVE ~Outside(j)
    <3>1. j \in idx + 1..o.num - 1 /\ ~(k <= j) BY <2>3
    <3>2. j \notin S
      <4> HIDE DEF S
      <4> QED BY <2>2, <3>1
    <3> QED BY <3>1, <3>2
  <2>5. First(k) BY <2>3, <2>4
  <2> HIDE DEF First, S
  <2>6. found \in idx + 1..o.num - 1 BY <2>3, <2>5
  <2> HIDE DEF found
  <2>7. found \in Nat /\ idx <= found BY <2>6
  <2> QED BY <1>1, <2>7
<1> QED BY <1>2, <1>3

LEMMA StartGoesOn ==
  ASSUME NEW o, Readable(o), NEW w \in Walks, ~Finishes(w),
         NEW token, token.size \in Nat,
         ~(w.idx < Len(o.parser.tokens)) => token.type = "PRIMITIVE"
  PROVE  GoesOn(o, w, BrowseStart(w, token))
<1>1. w.child = None /\ w.rem \in Nat /\ w.rem # 0 /\ w.idx \in Nat /\ w.err = "SUCCESS"
  BY DEF Finishes, Stands, Walks
<1> DEFINE bad == ~IsContainer(token) \/ (token.type = "OBJECT" /\ token.size % 2 # 0)
           state == IF token.size = 0 THEN "STOP"
                    ELSE IF token.type = "ARRAY" THEN "PRINT" ELSE "KEY"
           idx == w.idx + 1
           rem == w.rem + token.size - 1
           v == [w EXCEPT !.idx = idx, !.rem = rem, !.state = state]
<1>2. BrowseStart(w, token) = IF bad THEN Refused(w, "INVALID_JSON_FILE") ELSE v
  BY DEF BrowseStart
<1>3. CASE bad
  <2>1. "INVALID_JSON_FILE" \in Errors \ {"SUCCESS"} BY DEF Errors
  <2> QED BY <1>1, <1>2, <1>3, <2>1, RefusedGoesOn
<1>4. CASE ~bad
  <2>1. idx \in Nat /\ w.idx < idx /\ rem \in Nat
        /\ state \in States \ {"NOT_STARTED"} BY <1>1 DEF States
  <2>2. w.idx < Len(o.parser.tokens) BY <1>4 DEF IsContainer
  <2> HIDE DEF idx, rem, state
  <2>3. /\ v \in Walks /\ v.idx = idx /\ v.state = state
        /\ v.err = w.err /\ v.child = w.child
    BY <2>1 DEF Walks
  <2> HIDE DEF v, bad
  <2> QED BY <1>1, <1>2, <1>4, <2>1, <2>2, <2>3 DEF GoesOn, Errors
<1> QED BY <1>3, <1>4

(* A container that is seen where a key or the end is expected is counted.  *)
CountedRem(w, token) == w.rem + IF IsContainer(token) THEN token.size ELSE 0

LEMMA KeyGoesOn ==
  ASSUME NEW o, Readable(o), NEW names, NEW w \in Walks, ~Finishes(w),
         NEW token \in TokenOf(o.data) \cup Blanks, token.size \in Nat,
         ~(w.idx < Len(o.parser.tokens)) => token.type = "PRIMITIVE"
  PROVE  GoesOn(o, w, BrowseKey(o, names, [w EXCEPT !.rem = CountedRem(w, token)], token))
<1>1. w.child = None /\ w.rem \in Nat /\ w.rem # 0 /\ w.idx \in Nat /\ w.err = "SUCCESS"
  BY DEF Finishes, Stands, Walks
<1> DEFINE total == CountedRem(w, token)
           counted == [w EXCEPT !.rem = total]
           name == TextOf(o.data, token)
           wanted == names = {} \/ name \in names
           idx == w.idx + 1
           rem == total - 1
           state == IF wanted THEN "PRINT" ELSE "SKIP"
           key == IF wanted THEN name ELSE w.key
           v == [counted EXCEPT !.idx = idx, !.rem = rem, !.state = state, !.key = key]
<1>2. total \in Nat /\ total # 0 BY <1>1 DEF CountedRem
<1> HIDE DEF total
<1>3. /\ counted \in Walks /\ counted.rem = total /\ counted.idx = w.idx /\ counted.key = w.key
      /\ counted.state = w.state /\ counted.child = w.child /\ counted.err = w.err
  BY <1>2 DEF Walks
<1> HIDE DEF counted
<1>4. BrowseKey(o, names, counted, token)
      = IF token.type # "STRING" THEN Refused(counted, "INVALID_JSON_FILE") ELSE v
  BY <1>3 DEF BrowseKey
<1>5. CASE token.type # "STRING"
  <2>1. "INVALID_JSON_FILE" \in Errors \ {"SUCCESS"} BY DEF Errors
  <2>2. GoesOn(o, w, Refused(counted, "INVALID_JSON_FILE")) BY <1>1, <1>3, <2>1, RefusedGoesOn
  <2> QED BY <1>4, <1>5, <2>2 DEF counted, total
<1>6. CASE token.type = "STRING"
  <2>1. name \in Seq(Chars) BY TextOfFacts DEF Readable
  <2>2. w.key \in Seq(Chars) BY DEF Walks
  <2> HIDE DEF name
  <2>3. idx \in Nat /\ w.idx < idx /\ rem \in Nat BY <1>1, <1>2
  <2>4. state \in States \ {"NOT_STARTED"} BY DEF States
  <2>5. key \in Seq(Chars) BY <2>1, <2>2
  <2> HIDE DEF idx, rem, state, key
  <2>6. w.idx < Len(o.parser.tokens) BY <1>6
  <2>7. v \in Walks /\ v.idx = idx /\ v.state = state /\ v.err = w.err /\ v.child = w.child
    BY <1>3, <2>3, <2>4, <2>5 DEF Walks
  <2> HIDE DEF v
  <2>8. GoesOn(o, w, v) BY <1>1, <2>3, <2>4, <2>6, <2>7 DEF GoesOn, Errors
  <2> QED BY <1>4, <1>6, <2>8 DEF counted, total
<1> QED BY <1>5, <1>6

LEMMA ValueGoesOn ==
  ASSUME NEW o, Readable(o), NEW w \in Walks, ~Finishes(w), NEW token
  PROVE  GoesOn(o, w, BrowseValue(o, w, token))
<1>1. w.child = None /\ w.rem \in Nat /\ w.rem # 0 /\ w.idx \in Nat /\ w.err = "SUCCESS"
  BY DEF Finishes, Stands, Walks
<1> DEFINE from == w.idx + 1
           next == SkipJsonTokenIfNeeded(o, token, from)
           state == IF o.rem = 0 THEN "STOP" ELSE IF o.type = "Object" THEN "KEY" ELSE "PRINT"
           rem == w.rem - 1
           child == IF w.state = "PRINT" THEN w.idx ELSE w.child
           v == [w EXCEPT !.idx = next, !.rem = rem, !.state = state, !.child = child]
<1>2. BrowseValue(o, w, token) = IF next = None THEN Refused(w, "WILD") ELSE v
  BY DEF BrowseValue
<1>3. from \in Nat /\ w.idx < from /\ rem \in Nat /\ rem < w.rem BY <1>1
<1> HIDE DEF from
<1>4. next # None => next \in Nat /\ from <= next BY <1>3, SkipFacts DEF Readable
<1> HIDE DEF next
<1>5. CASE next = None
  <2>1. "WILD" \in Errors \ {"SUCCESS"} BY DEF Errors
  <2> QED BY <1>1, <1>2, <1>5, <2>1, RefusedGoesOn
<1>6. CASE next # None
  <2>1. next \in Nat /\ w.idx < next BY <1>1, <1>3, <1>4, <1>6
  <2>2. state \in States \ {"NOT_STARTED"} BY DEF States
  <2>3. child \in Int /\ (child = None \/ child \in Nat) BY <1>1 DEF None
  <2> HIDE DEF state, rem, child
  <2>4. /\ v \in Walks /\ v.idx = next /\ v.rem = rem /\ v.state = state
        /\ v.err = w.err /\ v.child = child
    BY <1>3, <2>1, <2>2, <2>3 DEF Walks
  <2> HIDE DEF v
  <2>5. w.idx <= next BY <1>1, <2>1
  <2> QED BY <1>1, <1>2, <1>3, <1>6, <2>1, <2>2, <2>3, <2>4, <2>5 DEF GoesOn, Errors
<1> QED BY <1>5, <1>6

LEMMA StopGoesOn ==
  ASSUME NEW o, Readable(o), NEW w \in Walks, ~Finishes(w),
         NEW token, token.size \in Nat,
         ~(w.idx < Len(o.parser.tokens)) => token.type = "PRIMITIVE"
  PROVE  GoesOn(o, w, [[w EXCEPT !.rem = CountedRem(w, token)]
                         EXCEPT !.idx = @ + 1, !.rem = @ - 1])
<1>1. w.child = None /\ w.rem \in Nat /\ w.rem # 0 /\ w.idx \in Nat /\ w.err = "SUCCESS"
  BY DEF Finishes, Stands, Walks
<1> DEFINE total == CountedRem(w, token)
           counted == [w EXCEPT !.rem = total]
           idx == w.idx + 1
           rem == total - 1
           v == [counted EXCEPT !.idx = idx, !.rem = rem]
<1>2. /\ total \in Nat /\ total # 0
      /\ ~(w.idx < Len(o.parser.tokens)) => total = w.rem
  BY <1>1 DEF CountedRem, IsContainer
<1> HIDE DEF total
<1>3. /\ counted \in Walks /\ counted.rem = total /\ counted.idx = w.idx
      /\ counted.state = w.state /\ counted.child = w.child /\ counted.err = w.err
  BY <1>2 DEF Walks
<1> HIDE DEF counted
<1>4. [counted EXCEPT !.idx = @ + 1, !.rem = @ - 1] = v BY <1>3
<1>5. /\ idx \in Nat /\ w.idx < idx /\ w.idx <= idx /\ rem \in Nat
      /\ ~(w.idx < Len(o.parser.tokens)) => rem < w.rem
  BY <1>1, <1>2
<1> HIDE DEF idx, rem
<1>6. /\ v \in Walks /\ v.idx = idx /\ v.rem = rem /\ v.state = w.state
      /\ v.err = w.err /\ v.child = w.child
  BY <1>3, <1>5 DEF Walks
<1> HIDE DEF v
<1>7. GoesOn(o, w, v) BY <1>1, <1>5, <1>6 DEF GoesOn, Errors
<1> QED BY <1>4, <1>7 DEF counted, total

LEMMA RoundGoesOn ==
  ASSUME NEW o, Readable(o), NEW names, NEW w \in Walks, ~Finishes(w)
  PROVE  GoesOn(o, w, BrowseRound(o, names, w))
<1> DEFINE token == TokenAt(o.parser.tokens, o.num, w.idx)
           counted == [w EXCEPT !.rem = @ + IF IsContainer(token) THEN token.size ELSE 0]
           stopped == [counted EXCEPT !.idx = @ + 1, !.rem = @ - 1]
<1>1. w.idx \in Nat /\ w.state \in States BY DEF Walks
<1>2. /\ token \in TokenOf(o.data) \cup Blanks /\ token.size \in Nat
      /\ ~(w.idx < Len(o.parser.tokens)) => token.type = "PRIMITIVE"
  BY <1>1, TokenAtFacts DEF Readable
<1>3. BrowseRound(o, names, w)
      = CASE w.state = "START" -> BrowseStart(w, token)
          [] w.state = "KEY" -> BrowseKey(o, names, counted, token)
          [] w.state \in {"SKIP", "PRINT"} -> BrowseValue(o, w, token)
          [] w.state = "STOP" -> stopped
          [] OTHER -> Refused(w, "INVALID_PARSER_STATE")
  BY DEF BrowseRound
<1>4. counted = [w EXCEPT !.rem = CountedRem(w, token)] BY DEF CountedRem
<1> HIDE DEF token, counted
<1>5. CASE w.state = "START"
  <2>1. BrowseRound(o, names, w) = BrowseStart(w, token) BY <1>3, <1>5
  <2> QED BY <1>2, <2>1, StartGoesOn
<1>6. CASE w.state = "KEY"
  <2>1. BrowseRound(o, names, w) = BrowseKey(o, names, counted, token) BY <1>3, <1>6
  <2>2. GoesOn(o, w, BrowseKey(o, names, [w EXCEPT !.rem = CountedRem(w, token)], token))
    BY <1>2, KeyGoesOn
  <2> QED BY <1>4, <2>1, <2>2
<1>7. CASE w.state \in {"SKIP", "PRINT"}
  <2>1. BrowseRound(o, names, w) = BrowseValue(o, w, token) BY <1>3, <1>7
  <2> QED BY <2>1, ValueGoesOn
<1>8. CASE w.state = "STOP"
  <2>1. BrowseRound(o, names, w) = stopped BY <1>3, <1>8
  <2>2. GoesOn(o, w, [[w EXCEPT !.rem = CountedRem(w, token)] EXCEPT !.idx = @ + 1, !.rem = @ - 1])
    BY <1>2, StopGoesOn
  <2> QED BY <1>4, <2>1, <2>2
<1>9. CASE w.state = "NOT_STARTED"
  <2>1. BrowseRound(o, names, w) = Refused(w, "INVALID_PARSER_STATE") BY <1>3, <1>9
  <2>2. w.child = None BY DEF Finishes, Stands
  <2>3. "INVALID_PARSER_STATE" \in Errors \ {"SUCCESS"} BY DEF Errors
  <2> QED BY <2>1, <2>2, <2>3, RefusedGoesOn
<1> QED BY <1>1, <1>5, <1>6, <1>7, <1>8, <1>9 DEF States

WalkStart(o) == [idx |-> o.idx, rem |-> o.rem, state |-> o.state,
                 child |-> None, key |-> <<>>, err |-> "SUCCESS"]
WalkEnd(w) == IF Stands(w) THEN w ELSE Refused(w, "TOKEN_NOT_FOUND")
WalkRun(o, names, h) ==
  h = [w \in Walks |-> IF w.err # "SUCCESS" \/ w.child # None THEN w
                       ELSE IF w.rem = 0 THEN Refused(w, "TOKEN_NOT_FOUND")
                       ELSE h[BrowseRound(o, names, w)]]
EndOfWalk(o, names) == (CHOOSE h : WalkRun(o, names, h))[WalkStart(o)]

LEMMA BrowseIsRun ==
  ASSUME NEW o, NEW names
  PROVE  LET end == EndOfWalk(o, names) IN
         JsoniBrowseJsonFile(o, names)
         = [obj |-> CursorAfter(o, end), err |-> end.err, key |-> end.key,
            token |-> IF end.child = None THEN UnusedToken
                      ELSE TokenAt(o.parser.tokens, o.num, end.child)]
BY DEF JsoniBrowseJsonFile, EndOfWalk, WalkRun, WalkStart

(* Rounds lead to later tokens, or behind them lower what remains.          *)
LEMMA WalksEnd ==
  ASSUME NEW o, Readable(o), NEW names
  PROVE  Ends(Walks, {w \in Walks : Finishes(w)}, [w \in Walks |-> BrowseRound(o, names, w)])
<1> DEFINE done == {w \in Walks : Finishes(w)}
           next == [w \in Walks |-> BrowseRound(o, names, w)]
           n == Len(o.parser.tokens)
           Unread(w) == IF Stands(w) THEN 0 ELSE IF w.idx < n THEN 1 + n - w.idx ELSE 1
           r == [w \in Walks |-> Unread(w)]
           s == [w \in Walks |-> w.rem]
<1>1. n \in Nat BY ParserFields DEF Readable
<1>2. \A w \in Walks : w.idx \in Nat /\ w.rem \in Nat BY DEF Walks
<1>3. r \in [Walks -> Nat] /\ s \in [Walks -> Nat] BY <1>1, <1>2
<1>4. \A w \in Walks : \/ w \in done
                       \/ next[w] \in Walks /\ (\/ r[next[w]] < r[w]
                                                \/ r[next[w]] = r[w] /\ s[next[w]] < s[w])
  <2> SUFFICES ASSUME NEW w \in Walks, ~Finishes(w)
               PROVE  next[w] \in Walks /\ (\/ r[next[w]] < r[w]
                                            \/ r[next[w]] = r[w] /\ s[next[w]] < s[w])
    OBVIOUS
  <2> DEFINE v == next[w]
  <2>1. GoesOn(o, w, v) BY RoundGoesOn
  <2> HIDE DEF next
  <2>2. ~Stands(w) BY DEF Finishes
  <2>3. v \in Walks BY <2>1 DEF GoesOn
  <2>4. \/ Stands(v)
        \/ w.idx < n /\ w.idx < v.idx
        \/ ~(w.idx < n) /\ w.idx <= v.idx /\ v.rem < w.rem
    BY <2>1 DEF GoesOn
  <2>5. w.idx \in Nat /\ v.idx \in Nat BY <1>2, <2>3
  <2>6. s[v] = v.rem /\ s[w] = w.rem BY <2>3
  <2>7. r[w] = (IF w.idx < n THEN 1 + n - w.idx ELSE 1) BY <2>2
  <2>8. r[v] = IF Stands(v) THEN 0 ELSE IF v.idx < n THEN 1 + n - v.idx ELSE 1 BY <2>3
  <2> DEFINE a == w.idx
             b == v.idx
  <2> HIDE DEF a, b, v, n, r, s
  <2>9. CASE Stands(v)
    <3>1. r[v] = 0 BY <2>8, <2>9
    <3>2. r[w] \in Nat /\ 0 < r[w] BY <1>1, <2>5, <2>7
    <3> QED BY <2>3, <3>1, <3>2 DEF v
  <2>10. CASE ~Stands(v) /\ a < n /\ a < b
    <3>1. r[w] = 1 + n - a BY <2>7, <2>10 DEF a
    <3>2. r[v] = IF b < n THEN 1 + n - b ELSE 1 BY <2>8, <2>10 DEF b
    <3>3. a \in Nat /\ b \in Nat BY <2>5 DEF a, b
    <3>4. r[v] < r[w] BY <1>1, <2>10, <3>1, <3>2, <3>3
    <3> QED BY <2>3, <3>4 DEF v
  <2>11. CASE ~Stands(v) /\ ~(a < n) /\ a <= b /\ v.rem < w.rem
    <3>1. r[w] = 1 BY <2>7, <2>11 DEF a
    <3>2. r[v] = IF b < n THEN 1 + n - b ELSE 1 BY <2>8, <2>11 DEF b
    <3>3. a \in Nat /\ b \in Nat BY <2>5 DEF a, b
    <3>4. ~(b < n) BY <1>1, <2>11, <3>3
    <3> QED BY <2>3, <2>6, <2>11, <3>1, <3>2, <3>4 DEF v
  <2> QED BY <2>4, <2>9, <2>10, <2>11 DEF a, b
<1> HIDE DEF done, next, r, s
<1>5. Ends(Walks, done, next) BY <1>3, <1>4, RanksEnd
<1> QED BY <1>5 DEF done, next

(* How a walk over a readable object ends.                                  *)
EndsWell(w, end) ==
  /\ end \in Walks /\ (end.child = None \/ end.child \in Nat)
  /\ end.state = "NOT_STARTED" => w.state = "NOT_STARTED"

LEMMA EndOfWalkFacts ==
  ASSUME NEW o, Readable(o), o.idx \in Nat, o.rem \in Nat, o.state \in States, NEW names
  PROVE  EndsWell(o, EndOfWalk(o, names))
<1> DEFINE done == {w \in Walks : Finishes(w)}
           next == [w \in Walks |-> BrowseRound(o, names, w)]
           val == [w \in Walks |-> WalkEnd(w)]
<1>1. Ends(Walks, done, next) BY WalksEnd
<1>2. \A h : Iterates(Walks, done, next, val, h) <=> WalkRun(o, names, h)
  <2> SUFFICES ASSUME NEW h
               PROVE  Iterates(Walks, done, next, val, h) <=> WalkRun(o, names, h)
    OBVIOUS
  <2>1. \A w \in Walks : (IF w \in done THEN val[w] ELSE h[next[w]])
                         = IF w.err # "SUCCESS" \/ w.child # None THEN w
                           ELSE IF w.rem = 0 THEN Refused(w, "TOKEN_NOT_FOUND")
                           ELSE h[BrowseRound(o, names, w)]
    BY DEF Finishes, Stands, WalkEnd
  <2> HIDE DEF done, next, val
  <2> QED BY <2>1 DEF Iterates, WalkRun
<1>3. PICK g : Iterates(Walks, done, next, val, g)
  <2> HIDE DEF done, next, val
  <2> QED BY <1>1, Iteration
<1> DEFINE h == CHOOSE h : WalkRun(o, names, h)
<1>4. WalkRun(o, names, h) BY <1>2, <1>3
<1>5. EndOfWalk(o, names) = h[WalkStart(o)] BY DEF EndOfWalk
<1> HIDE DEF h
<1>6. Iterates(Walks, done, next, val, h) BY <1>2, <1>4
<1> DEFINE Q == {w \in Walks : (w.child = None \/ w.child \in Nat) => EndsWell(w, h[w])}
<1>7. ASSUME NEW w \in Walks, w \in done \/ next[w] \in Q PROVE w \in Q
  <2> SUFFICES ASSUME w.child = None \/ w.child \in Nat PROVE EndsWell(w, h[w]) OBVIOUS
  <2>1. CASE w \in done
    <3>1. h[w] = WalkEnd(w) BY <1>6, <2>1 DEF Iterates
    <3>2. CASE Stands(w) BY <3>1, <3>2 DEF WalkEnd, EndsWell, Stands
    <3>3. CASE ~Stands(w)
      <4> DEFINE v == [w EXCEPT !.err = "TOKEN_NOT_FOUND"]
      <4>1. h[w] = v BY <3>1, <3>3 DEF WalkEnd, Refused
      <4>2. v \in Walks /\ v.child = w.child /\ v.state = w.state BY DEF Walks, Errors
      <4> HIDE DEF v
      <4> QED BY <4>1, <4>2 DEF EndsWell
    <3> QED BY <3>2, <3>3
  <2>2. CASE w \notin done
    <3>1. h[w] = h[next[w]] /\ next[w] = BrowseRound(o, names, w) BY <1>6, <2>2 DEF Iterates
    <3>2. GoesOn(o, w, BrowseRound(o, names, w)) BY <2>2, RoundGoesOn
    <3>3. next[w] \in Q BY <1>7, <2>2
    <3> HIDE DEF next
    <3>4. /\ next[w].child = None \/ next[w].child \in Nat
          /\ next[w].state = "NOT_STARTED" => w.state = "NOT_STARTED"
      BY <3>1, <3>2 DEF GoesOn
    <3> QED BY <3>1, <3>3, <3>4 DEF EndsWell
  <2> QED BY <2>1, <2>2
<1>8. Q = Walks
  <2>1. Q \in SUBSET Walks OBVIOUS
  <2> HIDE DEF Q, done, next
  <2> QED BY <1>1, <1>7, <2>1 DEF Ends
<1>9. /\ WalkStart(o) \in Walks /\ WalkStart(o).child = None
      /\ WalkStart(o).state = o.state
  <2>1. <<>> \in Seq(Chars) OBVIOUS
  <2>2. None \in Int /\ "SUCCESS" \in Errors BY DEF None, Errors
  <2> QED BY <2>1, <2>2 DEF WalkStart, Walks
<1> QED BY <1>5, <1>8, <1>9 DEF EndsWell

LEMMA BrowseFacts ==
  ASSUME NEW o, Readable(o), o.idx \in Nat, o.rem \in Nat, o.state \in States, NEW names
  PROVE  LET b == JsoniBrowseJsonFile(o, names)
             end == EndOfWalk(o, names) IN
         /\ b.err \in Errors /\ b.obj = CursorAfter(o, end)
         /\ end.idx \in Nat /\ end.rem \in Nat /\ end.state \in States
         /\ end.state = "NOT_STARTED" => o.state = "NOT_STARTED"
         /\ b.token \in TokenOf(o.data) \cup Blanks
<1> DEFINE b == JsoniBrowseJsonFile(o, names)
           end == EndOfWalk(o, names)
<1>1. EndsWell(o, end) BY EndOfWalkFacts
<1>2. /\ b.err = end.err /\ b.obj = CursorAfter(o, end)
      /\ b.token = IF end.child = None THEN UnusedToken
                   ELSE TokenAt(o.parser.tokens, o.num, end.child)
  <2> HIDE DEF end, b
  <2>1. b = [obj |-> CursorAfter(o, end), err |-> end.err, key |-> end.key,
             token |-> IF end.child = None THEN UnusedToken
                       ELSE TokenAt(o.parser.tokens, o.num, end.child)]
    BY BrowseIsRun DEF b, end
  <2> QED BY <2>1
<1> HIDE DEF b, end
<1>3. /\ end.err \in Errors /\ end.idx \in Nat /\ end.rem \in Nat /\ end.state \in States
      /\ (end.child = None \/ end.child \in Nat)
      /\ end.state = "NOT_STARTED" => o.state = "NOT_STARTED"
  BY <1>1 DEF EndsWell, Walks
<1>4. ASSUME end.child # None PROVE b.token \in TokenOf(o.data) \cup Blanks
  <2> DEFINE child == end.child
  <2>1. child \in Nat /\ b.token = TokenAt(o.parser.tokens, o.num, child) BY <1>2, <1>3, <1>4
  <2> HIDE DEF child
  <2>2. TokenAt(o.parser.tokens, o.num, child) \in TokenOf(o.data) \cup Blanks
    BY <2>1, TokenAtFacts DEF Readable
  <2> QED BY <2>1, <2>2
<1>5. end.child = None => b.token \in Blanks BY <1>2 DEF Blanks
<1> QED BY <1>2, <1>3, <1>4, <1>5 DEF b, end

-----------------------------------------------------------------------------
(* The tokens of a parse that succeeds.                                     *)

(* A string or primitive has its end, and nothing inside it.                *)
LeavesEnd(ts) ==
  \A i \in 1..Len(ts) : ~IsContainer(ts[i]) => ts[i].end # -1 /\ ts[i].size = 0

LEMMA KeptType ==
  ASSUME NEW t \in Token
  PROVE  /\ IsContainer(Bumped(t)) <=> IsContainer(t)
         /\ \A q : IsContainer(EndedAt(t, q)) <=> IsContainer(t)
<1>1. Bumped(t).type = t.type /\ \A q : EndedAt(t, q).type = t.type
  BY DEF Bumped, EndedAt, Token
<1> QED BY <1>1 DEF IsContainer

LEMMA TookLeaves ==
  ASSUME NEW p \in Parser, NEW q \in Parser, Nested(p), LeavesEnd(p.tokens),
         NEW token, Took(p, q, token), IsContainer(token) \/ (token.end # -1 /\ token.size = 0)
  PROVE  LeavesEnd(q.tokens)
<1> DEFINE n == Len(p.tokens)
           m == p.toksuper + 1
<1>1. n \in Nat /\ p.tokens \in Seq(Token) /\ p.toksuper \in Int /\ \A i \in 1..n : p.tokens[i] \in Token
  BY ParserFields, ParserIsParserIn
<1>2. /\ Len(q.tokens) = n + 1 /\ q.tokens[n + 1] = token
      /\ \A i \in 1..n : q.tokens[i] = IF i = m THEN Bumped(p.tokens[i]) ELSE p.tokens[i]
  BY DEF Took
<1>3. \A i \in 1..n : i = m => IsContainer(p.tokens[i])
  <2> SUFFICES ASSUME NEW i \in 1..n, i = m PROVE IsContainer(p.tokens[i]) OBVIOUS
  <2>1. p.toksuper = LastOpen(p.tokens) /\ p.toksuper # -1 BY <1>1 DEF Nested
  <2>2. IsOpen(p.tokens[m]) BY <1>1, <2>1, LastOpenFacts
  <2> QED BY <2>2 DEF IsOpen, LeavesEnd
<1>4. ASSUME NEW i \in 1..n, ~IsContainer(q.tokens[i])
      PROVE  q.tokens[i].end # -1 /\ q.tokens[i].size = 0
  <2>1. i # m BY <1>1, <1>2, <1>3, <1>4, KeptType
  <2> QED BY <1>2, <1>4, <2>1 DEF LeavesEnd
<1>5. \A i \in 1..n + 1 : i \in 1..n \/ i = n + 1 BY <1>1
<1> HIDE DEF n, m
<1> QED BY <1>2, <1>4, <1>5 DEF LeavesEnd

LEMMA RoundKeepsLeaves ==
  ASSUME NEW js \in Seq(Chars), NEW num, NEW p \in Parser, NEW r,
         RoundOf(Token, js, num, p, r), r.err = "SUCCESS", Nested(p), LeavesEnd(p.tokens)
  PROVE  LeavesEnd(r.parser.tokens)
<1> DEFINE q == r.parser
<1>1. q \in Parser BY ParserIsParserIn DEF RoundOf
<1>2. /\ p.tokens \in Seq(Token) /\ Len(p.tokens) \in Nat
      /\ \A i \in 1..Len(p.tokens) : p.tokens[i] \in Token
  BY ParserFields, ParserIsParserIn
<1>3. p.toksuper < Len(p.tokens)
  <2>1. p.toksuper \in -1..Len(p.tokens) - 1 BY <1>2, LastOpenFacts DEF Nested
  <2> QED BY <1>2, <2>1
<1>4. Began(p, q) \/ ReadOne(p, q) \/ Ended(p, q) \/ PassedOver(p, q) BY <1>3 DEF RoundOf
<1> SUFFICES LeavesEnd(q.tokens) OBVIOUS
<1> HIDE DEF q
<1>5. CASE Began(p, q)
  <2>1. PICK type \in {"OBJECT", "ARRAY"} : Took(p, q, NewToken(type, p.pos, -1)) BY <1>5 DEF Began
  <2> DEFINE token == NewToken(type, p.pos, -1)
  <2>2. IsContainer(token) BY DEF NewToken, IsContainer
  <2>3. Took(p, q, token) BY <2>1
  <2> HIDE DEF token
  <2> QED BY <1>1, <2>2, <2>3, TookLeaves
<1>6. CASE ReadOne(p, q)
  <2>1. PICK type \in {"STRING", "PRIMITIVE"}, start \in Nat, end \in Nat :
          Took(p, q, NewToken(type, start, end))
    BY <1>6 DEF ReadOne
  <2> DEFINE token == NewToken(type, start, end)
  <2>2. token.end # -1 /\ token.size = 0 BY NewTokenFields
  <2>3. Took(p, q, token) BY <2>1
  <2> HIDE DEF token
  <2> QED BY <1>1, <2>2, <2>3, TookLeaves
<1>7. CASE Ended(p, q)
  <2> DEFINE m == LastOpen(p.tokens) + 1
             pos == p.pos + 1
  <2>1. /\ Len(q.tokens) = Len(p.tokens)
        /\ \A i \in 1..Len(p.tokens) :
             q.tokens[i] = IF i = m THEN EndedAt(p.tokens[i], pos) ELSE p.tokens[i]
    BY <1>7 DEF Ended
  <2>2. IsContainer(p.tokens[m])
    <3>1. IsOpen(p.tokens[m]) /\ m \in 1..Len(p.tokens)
      <4>1. LastOpen(p.tokens) \in -1..Len(p.tokens) - 1 /\ LastOpen(p.tokens) # -1
        BY <1>2, <1>7, LastOpenFacts DEF Ended
      <4> QED BY <1>2, <4>1, LastOpenFacts
    <3> QED BY <3>1 DEF IsOpen, LeavesEnd
  <2> HIDE DEF m, pos
  <2>3. ASSUME NEW i \in 1..Len(p.tokens), ~IsContainer(q.tokens[i])
        PROVE  q.tokens[i].end # -1 /\ q.tokens[i].size = 0
    <3>1. i # m BY <1>2, <2>1, <2>2, <2>3, KeptType
    <3> QED BY <2>1, <2>3, <3>1 DEF LeavesEnd
  <2> QED BY <2>1, <2>3 DEF LeavesEnd
<1>8. CASE PassedOver(p, q) BY <1>8 DEF PassedOver
<1> QED BY <1>4, <1>5, <1>6, <1>7, <1>8

(* What is known of all tokens of a text that was parsed to its end.        *)
WellParsed(p) ==
  /\ p \in Parser /\ Nested(p) /\ LeavesEnd(p.tokens)
  /\ \A i \in 1..Len(p.tokens) :
       p.tokens[i].start \in Nat /\ p.tokens[i].end \in Nat

LEMMA SuccessIsWellParsed ==
  ASSUME NEW js \in Seq(Chars), NEW num, NEW p, p = jsmn_parse(js, num, jsmn_init).parser,
         jsmn_parse(js, num, jsmn_init).err = "SUCCESS"
  PROVE  WellParsed(p)
<1> DEFINE I == {q \in Parser : Nested(q) /\ LeavesEnd(q.tokens)}
<1>1. \A q \in I : ParseDone(js, num, q) \/ ParseNext(js, num, q) \in I
  <2> SUFFICES ASSUME NEW q \in I, ~ParseDone(js, num, q) PROVE ParseNext(js, num, q) \in I
    OBVIOUS
  <2> DEFINE r == ParseStep(js, num, q)
  <2>1. q.pos < Len(js) /\ r.err = "SUCCESS" BY DEF ParseDone
  <2>2. RoundOf(Token, js, num, q, r) BY <2>1, AllTokens, ParseStepFacts, ParserIsParserIn
  <2>3. r.parser \in Parser BY <2>2, ParserIsParserIn DEF RoundOf
  <2> HIDE DEF r
  <2>4. Nested(r.parser) BY <2>1, <2>2, RoundKeepsNested
  <2>5. LeavesEnd(r.parser.tokens) BY <2>1, <2>2, RoundKeepsLeaves
  <2> QED BY <2>3, <2>4, <2>5 DEF ParseNext, r
<1>2. jsmn_init \in I
  <2>1. jsmn_init.tokens = <<>> BY DEF jsmn_init
  <2>2. LeavesEnd(jsmn_init.tokens) BY <2>1 DEF LeavesEnd
  <2> QED BY <2>2, InitNested
<1>3. I \in SUBSET Parser OBVIOUS
<1> HIDE DEF I
<1>4. p \in I /\ LastOpen(p.tokens) = -1 BY <1>1, <1>2, <1>3, ParseKeeps
<1> USE DEF I
<1>5. p \in Parser /\ Nested(p) /\ LeavesEnd(p.tokens) BY <1>4
<1>6. p.tokens \in Seq(Token) /\ Len(p.tokens) \in Nat BY <1>5, ParserFields, ParserIsParserIn
<1>7. \A i \in 1..Len(p.tokens) : ~IsOpen(p.tokens[i])
  <2> DEFINE n == Len(p.tokens)
  <2>1. \A i \in -1 + 2..n : ~IsOpen(p.tokens[i])
    <3> HIDE DEF n
    <3> QED BY <1>4, <1>6, LastOpenFacts DEF n
  <2> QED BY <2>1
<1>8. \A i \in 1..Len(p.tokens) : p.tokens[i].start \in Nat /\ p.tokens[i].end \in Nat
  BY <1>5, <1>7 DEF Nested, Placed, ReadBefore, IsOpen
<1> QED BY <1>5, <1>8 DEF WellParsed

-----------------------------------------------------------------------------
(* The children of the root token.                                          *)

(* The indexes of the tokens right under the root, and those from d on.     *)
Kids(ts) == {i \in 1..Len(ts) - 1 : \A j \in 1..i - 1 : ts[j + 1].end <= ts[i + 1].start}
Coming(ts, d) == {i \in Kids(ts) : i >= d}
Standing(ts, d, rem) ==
  rem = Cardinality(Coming(ts, d)) /\ (Coming(ts, d) # {} => d \in Kids(ts))

(* An object whose root is a container of its type around everything else,  *)
(* with no empty container inside, and with a token behind each container,  *)
(* of the text or to spare.                                                 *)
Shaped(o) ==
  LET ts == o.parser.tokens
  IN  /\ Readable(o) /\ WellParsed(o.parser) /\ o.type \in {"Object", "Array"}
      /\ ts # <<>> /\ Len(ts) <= o.num /\ InReach(ts, o.num)
      /\ ts[1].type = IF o.type = "Object" THEN "OBJECT" ELSE "ARRAY"
      /\ \A i \in 2..Len(ts) : /\ ts[i].start < ts[1].end
                               /\ IsContainer(ts[i]) => ts[i].size # 0

(* The same, in numbers.                                                    *)
Numbers(ts, n) ==
  /\ n = Len(ts) /\ n \in Nat
  /\ \A i \in 1..n : ts[i].start \in Nat /\ ts[i].end \in Nat
  /\ \A i \in 1..n : \A j \in 1..i - 1 :
       /\ ts[j].start < ts[i].start
       /\ ts[i].start < ts[j].end => ts[i].end <= ts[j].end

LEMMA WellParsedNumbers ==
  ASSUME NEW p, WellParsed(p)
  PROVE  Numbers(p.tokens, Len(p.tokens)) /\ p.tokens \in Seq(Token)
<1> DEFINE ts == p.tokens
           n == Len(ts)
<1>1. n \in Nat /\ ts \in Seq(Token) BY ParserFields, ParserIsParserIn DEF WellParsed
<1>2. \A i \in 1..n : ts[i].start \in Nat /\ ts[i].end \in Nat BY DEF WellParsed
<1>3. \A i \in 1..n : \A j \in 1..i - 1 :
        /\ ts[j].start < ts[i].start
        /\ ts[i].start < ts[j].end => ts[i].end <= ts[j].end
  <2> SUFFICES ASSUME NEW i \in 1..n, NEW j \in 1..i - 1
               PROVE  /\ ts[j].start < ts[i].start
                      /\ ts[i].start < ts[j].end => ts[i].end <= ts[j].end
    OBVIOUS
  <2>1. Apart(ts, i, j) BY DEF WellParsed, Nested, Placed
  <2>2. j \in 1..n BY <1>1
  <2>3. ts[j].end # -1 BY <1>2, <2>2
  <2> QED BY <2>1, <2>3 DEF Apart
<1> QED BY <1>1, <1>2, <1>3 DEF Numbers

LEMMA DirectOfFacts ==
  ASSUME NEW p, WellParsed(p), NEW j \in 1..Len(p.tokens)
  PROVE  /\ IsFiniteSet(DirectOf(p.tokens, j))
         /\ p.tokens[j].size = Cardinality(DirectOf(p.tokens, j))
         /\ p.tokens[j].size = 0 <=> DirectOf(p.tokens, j) = {}
<1> DEFINE a == j + 1
           n == Len(p.tokens)
<1>1. n \in Nat BY WellParsedNumbers DEF Numbers
<1>2. DirectOf(p.tokens, j) \subseteq a..n BY DEF DirectOf
<1>3. a \in Int /\ n \in Int BY <1>1
<1>4. p.tokens[j].size = Cardinality(DirectOf(p.tokens, j))
  BY DEF WellParsed, Nested, CountsChildren
<1> HIDE DEF a, n
<1>5. IsFiniteSet(a..n) BY <1>3, FS_Interval
<1>6. IsFiniteSet(DirectOf(p.tokens, j)) BY <1>2, <1>5, FS_Subset
<1> QED BY <1>4, <1>6, FS_EmptySet

(* The root counts its children.                                            *)
LEMMA KidsCounted ==
  ASSUME NEW o, Shaped(o), NEW ts, ts = o.parser.tokens
  PROVE  IsFiniteSet(Kids(ts)) /\ ts[1].size = Cardinality(Kids(ts))
<1> DEFINE n == Len(ts)
<1>1. Numbers(ts, n) /\ ts \in Seq(Token) /\ WellParsed(o.parser)
  BY WellParsedNumbers DEF Shaped
<1>2. n \in Nat /\ n # 0
  <2>1. n \in Nat BY <1>1 DEF Numbers
  <2> QED BY <1>1, <2>1 DEF Shaped
<1>3. 1 \in 1..n BY <1>2
<1>4. \A i \in 2..n : Direct(ts, i, 1) <=> i - 1 \in Kids(ts)
  <2> SUFFICES ASSUME NEW i \in 2..n PROVE Direct(ts, i, 1) <=> i - 1 \in Kids(ts)
    OBVIOUS
  <2>1. Inside(ts, i, 1) BY DEF Inside, Shaped
  <2>2. \A k \in 2..i - 1 : Inside(ts, i, k) <=> ~(ts[k].end <= ts[i].start)
    <3> SUFFICES ASSUME NEW k \in 2..i - 1
                 PROVE  Inside(ts, i, k) <=> ~(ts[k].end <= ts[i].start)
      OBVIOUS
    <3>1. k \in 1..n /\ i \in 1..n BY <1>2
    <3> DEFINE e == ts[k].end
               s == ts[i].start
    <3>2. e \in Nat /\ s \in Nat BY <1>1, <3>1 DEF Numbers
    <3>3. Inside(ts, i, k) <=> (e = -1 \/ s < e) BY DEF Inside
    <3> HIDE DEF e, s
    <3>4. (e = -1 \/ s < e) <=> ~(e <= s) BY <3>2
    <3> QED BY <3>3, <3>4 DEF e, s
  <2>3. Direct(ts, i, 1) <=> \A k \in 2..i - 1 : ts[k].end <= ts[i].start
    <3>1. 1 + 1 = 2 OBVIOUS
    <3> QED BY <2>1, <2>2, <3>1 DEF Direct
  <2>4. i - 1 \in Kids(ts) <=> \A j \in 1..i - 2 : ts[j + 1].end <= ts[i].start
    <3>1. i - 1 \in 1..n - 1 /\ (i - 1) - 1 = i - 2 /\ (i - 1) + 1 = i BY <1>2
    <3> QED BY <3>1 DEF Kids
  <2>5. (\A j \in 1..i - 2 : ts[j + 1].end <= ts[i].start)
        <=> \A k \in 2..i - 1 : ts[k].end <= ts[i].start
    <3>1. ASSUME \A j \in 1..i - 2 : ts[j + 1].end <= ts[i].start, NEW k \in 2..i - 1
          PROVE  ts[k].end <= ts[i].start
      <4>1. k - 1 \in 1..i - 2 /\ (k - 1) + 1 = k OBVIOUS
      <4> QED BY <3>1, <4>1
    <3>2. ASSUME \A k \in 2..i - 1 : ts[k].end <= ts[i].start, NEW j \in 1..i - 2
          PROVE  ts[j + 1].end <= ts[i].start
      <4>1. j + 1 \in 2..i - 1 OBVIOUS
      <4> QED BY <3>2, <4>1
    <3> QED BY <3>1, <3>2
  <2> QED BY <2>3, <2>4, <2>5
<1> DEFINE D == DirectOf(ts, 1)
           K == Kids(ts)
           f == [i \in D |-> i - 1]
<1>5. D = {i \in 2..n : i - 1 \in K} BY <1>4 DEF DirectOf
<1>6. K \subseteq 1..n - 1 BY DEF Kids
<1> HIDE DEF D, K
<1>7. f \in [D -> K] BY <1>5
<1>8. f \in Bijection(D, K)
  <2>1. \A a, b \in D : f[a] = f[b] => a = b BY <1>2, <1>5
  <2>2. \A k \in K : \E a \in D : f[a] = k
    <3> SUFFICES ASSUME NEW k \in K PROVE \E a \in D : f[a] = k OBVIOUS
    <3>1. k + 1 \in 2..n /\ (k + 1) - 1 = k BY <1>2, <1>6
    <3> QED BY <1>5, <3>1
  <2> HIDE DEF f
  <2> QED BY <1>7, <2>1, <2>2 DEF Bijection, Injection, Surjection, IsInjective
<1>9. IsFiniteSet(D) /\ ts[1].size = Cardinality(D) BY <1>1, <1>3, DirectOfFacts DEF D
<1>10. IsFiniteSet(K) /\ Cardinality(K) = Cardinality(D)
  BY <1>8, <1>9, FS_Bijection DEF ExistsBijection
<1> QED BY <1>9, <1>10 DEF K

(* Where the cursor goes behind the child d: to the first token that starts *)
(* behind its end.                                                          *)
NextChild(ts, d, k) ==
  /\ k \in d + 1..Len(ts)
  /\ \A j \in d + 1..k - 1 : ts[j + 1].start < ts[d + 1].end
  /\ k < Len(ts) => ts[k + 1].start >= ts[d + 1].end

LEMMA LeafIsNext ==
  ASSUME NEW p, WellParsed(p), NEW d \in 1..Len(p.tokens) - 1, ~IsContainer(p.tokens[d + 1])
  PROVE  NextChild(p.tokens, d, d + 1)
<1> DEFINE ts == p.tokens
           n == Len(ts)
           c == d + 1
<1>1. Numbers(ts, n) BY WellParsedNumbers
<1>2. n \in Nat /\ c \in 1..n /\ c \in d + 1..n BY <1>1 DEF Numbers
<1>3. DirectOf(ts, c) = {} BY <1>2, DirectOfFacts DEF WellParsed, LeavesEnd
<1>4. ASSUME c < n PROVE ts[c + 1].start >= ts[c].end
  <2>1. c + 1 \in c + 1..n /\ c + 1 \in 1..n BY <1>2, <1>4
  <2>2. c + 1..(c + 1) - 1 = {} BY <1>2
  <2>3. ~Inside(ts, c + 1, c) BY <1>3, <2>1, <2>2 DEF DirectOf, Direct
  <2> DEFINE s == ts[c + 1].start
             e == ts[c].end
  <2>4. s \in Nat /\ e \in Nat BY <1>1, <1>2, <2>1 DEF Numbers
  <2>5. ~(s < e) BY <2>3 DEF Inside
  <2> HIDE DEF s, e
  <2>6. s >= e BY <2>4, <2>5
  <2> QED BY <2>6 DEF s, e
<1>5. d + 1..c - 1 = {} BY <1>2
<1> QED BY <1>2, <1>4, <1>5 DEF NextChild

(* A container with children is skipped with all of them.                   *)
LEMMA ContainerIsSkipped ==
  ASSUME NEW p, WellParsed(p), NEW d \in 1..Len(p.tokens) - 1,
         p.tokens[d + 1].size # 0
  PROVE  d + 2 \in d + 2..Len(p.tokens) /\ p.tokens[d + 2].start < p.tokens[d + 1].end
<1> DEFINE ts == p.tokens
           n == Len(ts)
           c == d + 1
<1>1. Numbers(ts, n) BY WellParsedNumbers
<1>2. n \in Nat /\ c \in 1..n BY <1>1 DEF Numbers
<1>3. DirectOf(ts, c) # {} BY <1>2, DirectOfFacts
<1>4. PICK i \in c + 1..n : Inside(ts, i, c) BY <1>3 DEF DirectOf, Direct
<1>5. i \in 1..n /\ c + 1 \in 1..n /\ c + 1 = d + 2 /\ d + 2 \in d + 2..n BY <1>2, <1>4
<1> DEFINE s == ts[i].start
           x == ts[c + 1].start
           e == ts[c].end
<1>6. s \in Nat /\ x \in Nat /\ e \in Nat BY <1>1, <1>2, <1>5 DEF Numbers
<1>7. s < e BY <1>4, <1>6 DEF Inside
<1>8. i = c + 1 \/ x < s
  <2>1. i # c + 1 => c + 1 \in 1..i - 1 BY <1>2, <1>4
  <2> QED BY <1>1, <1>5, <2>1 DEF Numbers
<1>9. x < e
  <2>1. i = c + 1 => x = s OBVIOUS
  <2> HIDE DEF x, s, e
  <2> QED BY <1>6, <1>7, <1>8, <2>1
<1> QED BY <1>5, <1>9

LEMMA SkipStands ==
  ASSUME NEW o, Shaped(o), NEW ts, ts = o.parser.tokens, NEW d \in 1..Len(ts) - 1
  PROVE  LET next == SkipJsonTokenIfNeeded(o, ts[d + 1], d + 1) IN
         next # None /\ NextChild(ts, d, next)
<1> DEFINE n == Len(ts)
           num == o.num
           idx == d + 1
           token == ts[d + 1]
           Outside(k) == LET t == TokenAt(o.parser.tokens, o.num, k)
                         IN  t.start = -1 \/ t.start >= token.end
           First(k) == Outside(k) /\ \A j \in idx + 1..k - 1 : ~Outside(j)
           found == CHOOSE k \in idx + 1..num - 1 : First(k)
           S == {k \in idx + 1..num - 1 : Outside(k)}
           next == SkipJsonTokenIfNeeded(o, ts[d + 1], d + 1)
<1>1. Numbers(ts, n) /\ WellParsed(o.parser) BY WellParsedNumbers DEF Shaped
<1>2. n \in Nat /\ num \in Nat /\ n <= num
  <2>1. n \in Nat BY <1>1 DEF Numbers
  <2> QED BY <2>1 DEF Shaped, Readable
<1>3. SkipJsonTokenIfNeeded(o, token, idx)
      = IF ~IsContainer(token) THEN idx
        ELSE IF \A k \in idx + 1..num - 1 : ~Outside(k) THEN None ELSE found
  BY DEF SkipJsonTokenIfNeeded
<1>4. CASE ~IsContainer(token)
  <2>1. next = idx BY <1>3, <1>4
  <2>2. NextChild(ts, d, idx) BY <1>1, <1>4, LeafIsNext
  <2>3. idx # None BY <1>2 DEF None
  <2> HIDE DEF next, idx
  <2> QED BY <2>1, <2>2, <2>3 DEF next
<1>5. CASE IsContainer(token)
  <2>1. token.size # 0
    <3>1. d + 1 \in 2..n BY <1>2
    <3> QED BY <1>5, <3>1 DEF Shaped
  <2>2. d + 2 \in d + 2..n /\ ts[d + 2].start < ts[d + 1].end BY <1>1, <2>1, ContainerIsSkipped
  <2>3. \A k \in idx + 1..n - 1 : Outside(k) <=> ts[k + 1].start >= token.end
    <3> SUFFICES ASSUME NEW k \in idx + 1..n - 1
                 PROVE  Outside(k) <=> ts[k + 1].start >= token.end
      OBVIOUS
    <3>1. k < n /\ k + 1 \in 1..n BY <1>2
    <3>2. TokenAt(o.parser.tokens, o.num, k) = ts[k + 1] BY <3>1 DEF TokenAt
    <3>3. ts[k + 1].start # -1
      <4>1. ts[k + 1].start \in Nat BY <1>1, <3>1 DEF Numbers
      <4> QED BY <4>1
    <3> QED BY <3>2, <3>3
  <2>4. n < num => Outside(n)
    <3> SUFFICES ASSUME n < num PROVE Outside(n) OBVIOUS
    <3>1. TokenAt(o.parser.tokens, o.num, n) = UnusedToken BY <1>2 DEF TokenAt
    <3> QED BY <3>1 DEF UnusedToken
  <2> HIDE DEF Outside
  <2>5. PICK m \in Nat : m \in idx + 1..num - 1 /\ m <= n /\ Outside(m)
    <3>1. CASE n < num
      <4>1. n \in idx + 1..num - 1 BY <1>2, <2>2, <3>1
      <4> QED BY <1>2, <2>4, <3>1, <4>1
    <3>2. CASE ~(n < num)
      <4>1. d + 1 \in 2..n BY <1>2
      <4>2. ts[n].start >= token.end BY <1>5, <3>2, <4>1 DEF Shaped, InReach
      <4>3. n # d + 2
        <5> DEFINE s == ts[n].start
                   e == token.end
        <5>1. s \in Nat /\ e \in Nat
          <6>1. n \in 1..n /\ d + 1 \in 1..n BY <1>2
          <6> QED BY <1>1, <6>1 DEF Numbers
        <5>2. n = d + 2 => s < e BY <2>2
        <5>3. s >= e BY <4>2
        <5> HIDE DEF s, e
        <5> QED BY <5>1, <5>2, <5>3
      <4> DEFINE l == n - 1
      <4>4. l \in Nat /\ l \in idx + 1..n - 1 /\ l \in idx + 1..num - 1 /\ l <= n /\ l + 1 = n
        BY <1>2, <2>2, <3>2, <4>3
      <4> HIDE DEF l
      <4>5. Outside(l) BY <2>3, <4>2, <4>4
      <4> QED BY <4>4, <4>5
    <3> QED BY <3>1, <3>2
  <2>6. \E k \in idx + 1..num - 1 : First(k)
    <3>1. S \in SUBSET Nat /\ m \in S BY <2>5
    <3>2. PICK k \in S : \A j \in S : k <= j
      <4> HIDE DEF S
      <4> QED BY <3>1, LeastOfNat
    <3>3. k \in idx + 1..num - 1 /\ Outside(k) OBVIOUS
    <3>4. ASSUME NEW j \in idx + 1..k - 1 PROVE ~Outside(j)
      <4>1. j \in idx + 1..num - 1 /\ ~(k <= j) BY <1>2, <3>3
      <4>2. j \notin S
        <5> HIDE DEF S
        <5> QED BY <3>2, <4>1
      <4> QED BY <4>1, <4>2
    <3> QED BY <3>3, <3>4
  <2>7. found \in idx + 1..num - 1 /\ First(found) BY <2>6
  <2>8. next = found BY <1>3, <1>5, <2>5
  <2> HIDE DEF found, next
  <2>9. found <= n
    <3> SUFFICES ASSUME ~(found <= n) PROVE FALSE OBVIOUS
    <3>1. m \in idx + 1..found - 1 BY <1>2, <2>5, <2>7
    <3> QED BY <2>5, <2>7, <3>1
  <2>10. found \in d + 1..n /\ found # None
    <3>1. found \in Nat /\ d + 1 <= found BY <2>7
    <3> QED BY <1>2, <2>9, <3>1 DEF None
  <2>11. ASSUME NEW j \in d + 1..found - 1 PROVE ts[j + 1].start < token.end
    <3>1. CASE j = d + 1
      <4>1. j + 1 = d + 2 BY <3>1
      <4> QED BY <2>2, <4>1
    <3>2. CASE j # d + 1
      <4>1. j \in idx + 1..found - 1 /\ j \in idx + 1..n - 1 BY <1>2, <2>7, <2>9, <3>2
      <4>2. ~(ts[j + 1].start >= token.end) BY <2>3, <2>7, <4>1
      <4> DEFINE s == ts[j + 1].start
                 e == token.end
      <4>3. s \in Nat /\ e \in Nat
        <5>1. j + 1 \in 1..n /\ d + 1 \in 1..n BY <1>2, <4>1
        <5> QED BY <1>1, <5>1 DEF Numbers
      <4> HIDE DEF s, e
      <4>4. s < e BY <4>2, <4>3 DEF s, e
      <4> QED BY <4>4 DEF s, e
    <3> QED BY <3>1, <3>2
  <2>12. ASSUME found < n PROVE ts[found + 1].start >= token.end
    <3>1. found \in idx + 1..n - 1 BY <1>2, <2>7, <2>12
    <3> QED BY <2>3, <2>7, <3>1
  <2>13. NextChild(ts, d, found) BY <2>10, <2>11, <2>12 DEF NextChild
  <2> QED BY <2>8, <2>10, <2>13 DEF next
<1> QED BY <1>4, <1>5

(* It is the next child.                                                    *)
LEMMA NextIsChild ==
  ASSUME NEW ts, NEW n, Numbers(ts, n), NEW d \in Kids(ts), NEW k, NextChild(ts, d, k)
  PROVE  /\ d \in Nat /\ k \in Nat /\ d < k /\ k <= n
         /\ Coming(ts, k) = Coming(ts, d) \ {d} /\ (Coming(ts, k) # {} => k \in Kids(ts))
<1>1. n \in Nat /\ n = Len(ts) BY DEF Numbers
<1>2. d \in 1..n - 1 /\ k \in d + 1..n BY <1>1 DEF Kids, NextChild
<1>3. d + 1 \in 1..n BY <1>1, <1>2
<1>4. ASSUME NEW i \in d + 1..k - 1 PROVE i \notin Kids(ts)
  <2>1. d \in 1..i - 1 /\ i + 1 \in 1..n BY <1>1, <1>2
  <2>2. i \in Kids(ts) => ts[d + 1].end <= ts[i + 1].start BY <2>1 DEF Kids
  <2>3. ts[i + 1].start < ts[d + 1].end BY DEF NextChild
  <2> DEFINE s == ts[i + 1].start
             e == ts[d + 1].end
  <2>4. s \in Nat /\ e \in Nat BY <1>3, <2>1 DEF Numbers
  <2> HIDE DEF s, e
  <2>5. s < e /\ ~(e <= s) BY <2>3, <2>4 DEF s, e
  <2> QED BY <2>2, <2>5 DEF s, e
<1>5. Coming(ts, k) = Coming(ts, d) \ {d}
  <2>1. \A i \in Kids(ts) : i \in Nat BY DEF Kids
  <2>2. \A i \in Kids(ts) : i >= k <=> (i >= d /\ i # d)
    <3> SUFFICES ASSUME NEW i \in Kids(ts) PROVE i >= k <=> (i >= d /\ i # d) OBVIOUS
    <3>1. i \in Nat /\ i \notin d + 1..k - 1 BY <1>4, <2>1
    <3> QED BY <1>1, <1>2, <3>1
  <2> QED BY <2>2 DEF Coming
<1>6. ASSUME k < n PROVE k \in Kids(ts)
  <2>1. k \in 1..n - 1 /\ k + 1 \in 1..n BY <1>1, <1>2, <1>6
  <2> DEFINE x == ts[k + 1].start
             e == ts[d + 1].end
  <2>2. x \in Nat /\ e \in Nat /\ x >= e BY <1>1, <1>3, <1>6, <2>1 DEF Numbers, NextChild
  <2>3. ASSUME NEW j \in 1..k - 1 PROVE ts[j + 1].end <= x
    <3> DEFINE f == ts[j + 1].end
               s == ts[j + 1].start
               y == ts[d + 1].start
    <3>1. j + 1 \in 1..n BY <1>1, <1>2
    <3>2. f \in Nat /\ s \in Nat /\ y \in Nat BY <1>3, <3>1 DEF Numbers
    <3>3. CASE j < d
      <4>1. j \in 1..d - 1 BY <1>2, <3>3
      <4>2. f <= y BY <4>1 DEF Kids
      <4>3. y < x
        <5>1. d + 1 \in 1..(k + 1) - 1 BY <1>2
        <5> QED BY <2>1, <5>1 DEF Numbers
      <4> HIDE DEF f, y, x
      <4>4. f <= x BY <2>2, <3>2, <4>2, <4>3
      <4> QED BY <4>4 DEF f
    <3>4. CASE j = d
      <4>1. f = e BY <3>4
      <4> HIDE DEF f, e, x
      <4>2. f <= x BY <2>2, <4>1
      <4> QED BY <4>2 DEF f
    <3>5. CASE d < j
      <4>1. j \in d + 1..k - 1 BY <1>2, <3>5
      <4>2. s < e BY <4>1 DEF NextChild
      <4>3. d + 1 \in 1..(j + 1) - 1 BY <1>2, <3>5
      <4>4. f <= e BY <3>1, <4>2, <4>3 DEF Numbers
      <4> HIDE DEF f, e, x
      <4>5. f <= x BY <2>2, <3>2, <4>4
      <4> QED BY <4>5 DEF f
    <3>6. j \in Nat /\ d \in Nat BY <1>2
    <3> QED BY <3>3, <3>4, <3>5, <3>6
  <2> QED BY <1>1, <2>1, <2>3 DEF Kids
<1>7. Coming(ts, k) # {} => k < n
  <2> SUFFICES ASSUME NEW i \in Kids(ts), i >= k PROVE k < n BY DEF Coming
  <2>1. i \in 1..n - 1 BY <1>1 DEF Kids
  <2> QED BY <1>1, <1>2, <2>1
<1> QED BY <1>1, <1>2, <1>5, <1>6, <1>7

-----------------------------------------------------------------------------
(* The walk over a shaped object.                                           *)

Even(n) == n % 2 = 0
Resting(o) == IF o.type = "Object" THEN "KEY" ELSE "PRINT"

(* Between two calls: before the first child was found, or at a child.      *)
CursorOk(o) ==
  /\ o.idx \in Nat /\ o.rem \in Nat /\ o.state \in States \ {"NOT_STARTED"}
  /\ IF o.idx = 0 THEN o.rem = 1 /\ (o.state = "STOP" => o.parser.tokens[1].size = 0)
     ELSE /\ Standing(o.parser.tokens, o.idx, o.rem) /\ o.state = Resting(o)
          /\ o.type = "Object" => Even(o.rem)

(* During a call: at the root, behind an empty root, or at a child, which   *)
(* in an object is a key or a value.                                        *)
AtRoot(w) == w.state = "START" /\ w.idx = 0 /\ w.rem = 1
AtEmpty(ts, w) ==
  w.state = "STOP" /\ ts[1].size = 0 /\ (w.rem = 0 \/ (w.idx = 0 /\ w.rem = 1))
AtChild(o, w) ==
  /\ w.idx # 0 /\ Standing(o.parser.tokens, w.idx, w.rem)
  /\ IF o.type = "Object" THEN \/ w.state = "KEY" /\ Even(w.rem)
                               \/ w.state \in {"PRINT", "SKIP"} /\ ~Even(w.rem)
     ELSE w.state = "PRINT"
OnWay(o, w) ==
  /\ w \in Walks /\ w.err = "SUCCESS" /\ w.child = None
  /\ (o.idx = 0 /\ (AtRoot(w) \/ AtEmpty(o.parser.tokens, w))) \/ AtChild(o, w)

(* At the end of a call: at the child behind the one that was found, or     *)
(* without one in a state in which the next call can go on.                 *)
AtEnd(o, w) ==
  \/ /\ w.err = "SUCCESS" /\ w.child \in Kids(o.parser.tokens)
     /\ w.idx # 0 /\ Standing(o.parser.tokens, w.idx, w.rem)
     /\ o.type = "Object" => Even(w.rem)
     /\ w.state = Resting(o)
  \/ /\ w.err \in {"TOKEN_NOT_FOUND", "INVALID_JSON_FILE"}
     /\ w.state # "NOT_STARTED"
     /\ IF o.idx = 0 THEN w.state = "STOP" => o.parser.tokens[1].size = 0
        ELSE w.state = Resting(o)

LEMMA StandingFacts ==
  ASSUME NEW o, Shaped(o), NEW ts, ts = o.parser.tokens, NEW d \in Nat, NEW rem \in Nat,
         rem # 0, Standing(ts, d, rem)
  PROVE  /\ d \in Kids(ts) /\ d \in 1..Len(ts) - 1 /\ d < Len(ts)
         /\ \A k : NextChild(ts, d, k) => /\ k \in Nat /\ k # 0 /\ Standing(ts, k, rem - 1)
<1>1. Numbers(ts, Len(ts)) BY WellParsedNumbers DEF Shaped
<1>2. IsFiniteSet(Kids(ts)) BY KidsCounted
<1>3. IsFiniteSet(Coming(ts, d))
  <2>1. Coming(ts, d) \subseteq Kids(ts) BY DEF Coming
  <2> QED BY <1>2, <2>1, FS_Subset
<1>4. Coming(ts, d) # {} BY FS_EmptySet DEF Standing
<1>5. d \in Kids(ts) BY <1>4 DEF Standing
<1>6. d \in 1..Len(ts) - 1 /\ Len(ts) \in Nat BY <1>1, <1>5 DEF Kids, Numbers
<1>7. d \in Coming(ts, d) BY <1>5 DEF Coming
<1>8. ASSUME NEW k, NextChild(ts, d, k) PROVE k \in Nat /\ k # 0 /\ Standing(ts, k, rem - 1)
  <2>1. /\ k \in Nat /\ d < k /\ Coming(ts, k) = Coming(ts, d) \ {d}
        /\ Coming(ts, k) # {} => k \in Kids(ts)
    BY <1>1, <1>5, <1>8, NextIsChild
  <2>2. Cardinality(Coming(ts, k)) = rem - 1
    <3> DEFINE c == Coming(ts, d)
    <3>1. IsFiniteSet(c) /\ d \in c /\ Coming(ts, k) = c \ {d} BY <1>3, <1>7, <2>1
    <3>2. Cardinality(c) = rem BY DEF Standing
    <3> HIDE DEF c
    <3>3. Cardinality(c \ {d}) = Cardinality(c) - 1 BY <3>1, FS_RemoveElement
    <3> QED BY <3>1, <3>2, <3>3
  <2>3. k # 0 BY <2>1
  <2> QED BY <2>1, <2>2, <2>3 DEF Standing
<1> QED BY <1>5, <1>6, <1>8

LEMMA ParitySteps ==
  ASSUME NEW n \in Nat, n # 0
  PROVE  n - 1 \in Nat /\ (Even(n - 1) <=> ~Even(n))
BY DEF Even

LEMMA RefusedFields ==
  ASSUME NEW w \in Walks, NEW err \in Errors
  PROVE  /\ Refused(w, err) \in Walks /\ Refused(w, err).err = err
         /\ Refused(w, err).state = w.state
<1> DEFINE v == [w EXCEPT !.err = err]
<1>1. v \in Walks /\ v.err = err /\ v.state = w.state BY DEF Walks
<1> QED BY <1>1 DEF Refused

LEMMA RootRound ==
  ASSUME NEW o, Shaped(o), o.idx = 0, NEW w \in Walks, w.err = "SUCCESS", w.child = None,
         AtRoot(w), NEW token, token = o.parser.tokens[1]
  PROVE  LET v == BrowseStart(w, token) IN OnWay(o, v) \/ (v \in Walks /\ AtEnd(o, v))
<1> DEFINE ts == o.parser.tokens
           n == Len(ts)
           bad == ~IsContainer(token) \/ (token.type = "OBJECT" /\ token.size % 2 # 0)
           state == IF token.size = 0 THEN "STOP"
                    ELSE IF token.type = "ARRAY" THEN "PRINT" ELSE "KEY"
           idx == w.idx + 1
           rem == w.rem + token.size - 1
           v == [w EXCEPT !.idx = idx, !.rem = rem, !.state = state]
<1>1. w.idx = 0 /\ w.rem = 1 /\ w.state = "START" BY DEF AtRoot
<1>2. n \in Nat /\ n # 0 /\ ts \in Seq(Token)
  <2>1. n \in Nat /\ ts \in Seq(Token) BY WellParsedNumbers DEF Shaped, Numbers
  <2> QED BY <2>1 DEF Shaped
<1>3. token \in Token
  <2>1. 1 \in 1..n BY <1>2
  <2> QED BY <1>2, <2>1, ElementOfSeq
<1>4. token.size \in Nat BY <1>3 DEF Token
<1>5. token.type = IF o.type = "Object" THEN "OBJECT" ELSE "ARRAY" BY DEF Shaped
<1>6. BrowseStart(w, token) = IF bad THEN Refused(w, "INVALID_JSON_FILE") ELSE v
  BY DEF BrowseStart
<1>7. CASE bad
  <2> DEFINE err == "INVALID_JSON_FILE"
  <2>1. err \in Errors BY DEF Errors
  <2> HIDE DEF err
  <2>2. Refused(w, err) \in Walks /\ Refused(w, err).err = err /\ Refused(w, err).state = w.state
    BY <2>1, RefusedFields
  <2> QED BY <1>1, <1>6, <1>7, <2>2 DEF AtEnd, err
<1>8. CASE ~bad
  <2>1. idx = 1 /\ rem = token.size BY <1>1, <1>4
  <2>2. state \in States BY DEF States
  <2> HIDE DEF idx, rem, state
  <2>3. /\ v \in Walks /\ v.idx = 1 /\ v.rem = token.size /\ v.state = state
        /\ v.err = "SUCCESS" /\ v.child = None
    BY <1>4, <2>1, <2>2 DEF Walks
  <2> HIDE DEF v
  <2>4. CASE token.size = 0
    <3>1. AtEmpty(ts, v) BY <2>3, <2>4 DEF AtEmpty, state
    <3> QED BY <1>6, <1>8, <2>3, <3>1 DEF OnWay
  <2>5. CASE token.size # 0
    <3>1. state = Resting(o) BY <1>5, <2>5 DEF state, Resting
    <3>2. Standing(ts, 1, token.size)
      <4>1. Coming(ts, 1) = Kids(ts)
        <5>1. \A i \in Kids(ts) : i >= 1 BY <1>2 DEF Kids
        <5> QED BY <5>1 DEF Coming
      <4>2. Kids(ts) # {} => 1 \in Kids(ts)
        <5>1. Kids(ts) # {} => 1 \in 1..n - 1 BY <1>2 DEF Kids
        <5>2. 1..1 - 1 = {} OBVIOUS
        <5> QED BY <5>1, <5>2 DEF Kids
      <4>3. token.size = Cardinality(Kids(ts)) BY KidsCounted
      <4> QED BY <4>1, <4>2, <4>3 DEF Standing
    <3>3. o.type = "Object" => Even(token.size) BY <1>5, <1>8 DEF Even
    <3>4. AtChild(o, v)
      <4>1. o.type \in {"Object", "Array"} BY DEF Shaped
      <4> QED BY <2>3, <3>1, <3>2, <3>3, <4>1 DEF AtChild, Resting
    <3> QED BY <1>6, <1>8, <2>3, <3>4 DEF OnWay
  <2> QED BY <2>4, <2>5
<1> QED BY <1>7, <1>8

LEMMA EmptyRound ==
  ASSUME NEW o, Shaped(o), o.idx = 0, NEW w \in Walks, w.err = "SUCCESS", w.child = None,
         AtEmpty(o.parser.tokens, w), w.rem # 0, NEW token, token = o.parser.tokens[1]
  PROVE  OnWay(o, [[w EXCEPT !.rem = CountedRem(w, token)] EXCEPT !.idx = @ + 1, !.rem = @ - 1])
<1> DEFINE total == CountedRem(w, token)
           counted == [w EXCEPT !.rem = total]
           idx == counted.idx + 1
           rem == counted.rem - 1
           v == [counted EXCEPT !.idx = idx, !.rem = rem]
<1>1. w.idx = 0 /\ w.rem = 1 /\ w.state = "STOP" /\ token.size = 0 BY DEF AtEmpty
<1>2. total = 1 BY <1>1 DEF CountedRem
<1> HIDE DEF total
<1>3. /\ counted \in Walks /\ counted.rem = 1 /\ counted.idx = 0
      /\ counted.state = "STOP" /\ counted.err = "SUCCESS" /\ counted.child = None
  BY <1>1, <1>2 DEF Walks
<1> HIDE DEF counted
<1>4. idx = 1 /\ rem = 0 BY <1>3
<1>5. [counted EXCEPT !.idx = @ + 1, !.rem = @ - 1] = v OBVIOUS
<1> HIDE DEF idx, rem
<1>6. /\ v \in Walks /\ v.rem = 0 /\ v.state = "STOP" /\ v.err = "SUCCESS" /\ v.child = None
  BY <1>3, <1>4 DEF Walks
<1> HIDE DEF v
<1>7. AtEmpty(o.parser.tokens, v) BY <1>1, <1>6 DEF AtEmpty
<1>8. OnWay(o, v) BY <1>6, <1>7 DEF OnWay
<1> QED BY <1>5, <1>8 DEF total, counted

LEMMA KeyRound ==
  ASSUME NEW o, Shaped(o), CursorOk(o), NEW names,
         NEW w \in Walks, w.err = "SUCCESS", w.child = None,
         AtChild(o, w), w.state = "KEY", w.rem # 0,
         NEW token, token = o.parser.tokens[w.idx + 1],
         NEW counted, counted = [w EXCEPT !.rem = CountedRem(w, token)]
  PROVE  LET v == BrowseKey(o, names, counted, token) IN
         OnWay(o, v) \/ (v \in Walks /\ AtEnd(o, v))
<1> DEFINE ts == o.parser.tokens
           name == TextOf(o.data, token)
           wanted == names = {} \/ name \in names
           idx == w.idx + 1
           rem == w.rem - 1
           state == IF wanted THEN "PRINT" ELSE "SKIP"
           key == IF wanted THEN name ELSE w.key
           v == [w EXCEPT !.idx = idx, !.rem = rem, !.state = state, !.key = key]
           total == CountedRem(w, token)
<1>1. w.idx \in Nat /\ w.rem \in Nat /\ w.key \in Seq(Chars) BY DEF Walks
<1>2. o.type = "Object" /\ Even(w.rem) BY DEF AtChild, Shaped
<1>3. /\ w.idx \in Kids(ts) /\ w.idx \in 1..Len(ts) - 1
      /\ \A k : NextChild(ts, w.idx, k) => k \in Nat /\ k # 0 /\ Standing(ts, k, w.rem - 1)
  BY <1>1, StandingFacts DEF AtChild
<1>4. token \in TokenOf(o.data) /\ token.size \in Nat /\ o.data \in Seq(Chars)
  <2>1. o.parser \in ParserIn(TokenOf(o.data)) /\ o.data \in Seq(Chars) BY DEF Shaped, Readable
  <2>2. Len(ts) \in Nat /\ \A i \in 1..Len(ts) : ts[i] \in TokenOf(o.data)
    BY <2>1, ParserFields
  <2>3. w.idx + 1 \in 1..Len(ts) BY <1>3, <2>2
  <2>4. token \in TokenOf(o.data) BY <2>2, <2>3
  <2> QED BY <2>1, <2>4 DEF TokenOf
<1>5. CASE token.type # "STRING"
  <2> DEFINE err == "INVALID_JSON_FILE"
  <2>1. err \in Errors BY DEF Errors
  <2>2. total \in Nat BY <1>1, <1>4 DEF CountedRem
  <2> HIDE DEF err, total
  <2>3. [w EXCEPT !.rem = total] \in Walks /\ [w EXCEPT !.rem = total].state = "KEY"
    BY <2>2 DEF Walks
  <2>4. counted \in Walks /\ counted.state = "KEY" BY <2>3 DEF total
  <2>5. /\ Refused(counted, err) \in Walks /\ Refused(counted, err).err = err
        /\ Refused(counted, err).state = "KEY"
    BY <2>1, <2>4, RefusedFields
  <2>6. BrowseKey(o, names, counted, token) = Refused(counted, err)
    BY <1>5 DEF BrowseKey, err
  <2>7. Resting(o) = "KEY" BY <1>2 DEF Resting
  <2> QED BY <2>5, <2>6, <2>7 DEF AtEnd, err
<1>6. CASE token.type = "STRING"
  <2>1. ~IsContainer(token) BY <1>6 DEF IsContainer
  <2>2. counted = w
    <3>1. CountedRem(w, token) = w.rem BY <1>1, <2>1 DEF CountedRem
    <3> QED BY <3>1 DEF Walks
  <2>3. BrowseKey(o, names, counted, token) = v BY <1>6, <2>2 DEF BrowseKey
  <2>4. name \in Seq(Chars) BY <1>4, TextOfFacts
  <2> HIDE DEF name
  <2>5. state \in {"PRINT", "SKIP"} /\ key \in Seq(Chars) BY <1>1, <2>4
  <2>6. NextChild(ts, w.idx, idx) BY <1>3, <2>1, LeafIsNext DEF Shaped
  <2>7. idx \in Nat /\ idx # 0 /\ Standing(ts, idx, rem) BY <1>3, <2>6
  <2>8. rem \in Nat /\ ~Even(rem) BY <1>1, <1>2, ParitySteps
  <2> HIDE DEF idx, rem, state, key
  <2>9. /\ v \in Walks /\ v.idx = idx /\ v.rem = rem /\ v.state = state
        /\ v.err = "SUCCESS" /\ v.child = None
    BY <2>5, <2>7, <2>8 DEF Walks, States
  <2> HIDE DEF v
  <2>10. AtChild(o, v) BY <1>2, <2>5, <2>7, <2>8, <2>9 DEF AtChild
  <2> QED BY <2>3, <2>9, <2>10 DEF OnWay
<1> QED BY <1>5, <1>6

LEMMA ValueRound ==
  ASSUME NEW o, Shaped(o), CursorOk(o), o.rem # 0,
         NEW w \in Walks, w.err = "SUCCESS", w.child = None,
         AtChild(o, w), w.state \in {"SKIP", "PRINT"}, w.rem # 0,
         NEW token, token = o.parser.tokens[w.idx + 1]
  PROVE  LET v == BrowseValue(o, w, token) IN
         OnWay(o, v) \/ (v \in Walks /\ AtEnd(o, v))
<1> DEFINE ts == o.parser.tokens
           next == SkipJsonTokenIfNeeded(o, token, w.idx + 1)
           state == IF o.rem = 0 THEN "STOP" ELSE IF o.type = "Object" THEN "KEY" ELSE "PRINT"
           rem == w.rem - 1
           child == IF w.state = "PRINT" THEN w.idx ELSE w.child
           v == [w EXCEPT !.idx = next, !.rem = rem, !.state = state, !.child = child]
<1>1. w.idx \in Nat /\ w.rem \in Nat BY DEF Walks
<1>2. o.type = "Object" => ~Even(w.rem) BY DEF AtChild
<1>3. /\ w.idx \in Kids(ts) /\ w.idx \in 1..Len(ts) - 1
      /\ \A k : NextChild(ts, w.idx, k) => k \in Nat /\ k # 0 /\ Standing(ts, k, w.rem - 1)
  BY <1>1, StandingFacts DEF AtChild
<1>4. next # None /\ NextChild(ts, w.idx, next)
  <2> DEFINE d == w.idx
  <2>1. d \in 1..Len(ts) - 1 BY <1>3
  <2> HIDE DEF d
  <2>2. LET k == SkipJsonTokenIfNeeded(o, ts[d + 1], d + 1) IN k # None /\ NextChild(ts, d, k)
    BY <2>1, SkipStands
  <2> QED BY <2>2 DEF d
<1>5. BrowseValue(o, w, token) = v BY <1>4 DEF BrowseValue
<1>6. state = Resting(o) BY DEF Resting
<1>7. rem \in Nat /\ (o.type = "Object" => Even(rem)) BY <1>1, <1>2, ParitySteps
<1>8. next \in Nat /\ next # 0 /\ Standing(ts, next, rem) BY <1>3, <1>4
<1>9. state \in States BY DEF States
<1>10. child \in Int BY <1>1 DEF None
<1> HIDE DEF next, state, rem, child
<1>11. /\ v \in Walks /\ v.idx = next /\ v.rem = rem /\ v.state = state
       /\ v.err = "SUCCESS" /\ v.child = child
  BY <1>7, <1>8, <1>9, <1>10 DEF Walks
<1> HIDE DEF v
<1>12. CASE w.state = "PRINT"
  <2>1. v.child \in Kids(ts) BY <1>3, <1>11, <1>12 DEF child
  <2> QED BY <1>5, <1>6, <1>7, <1>8, <1>11, <2>1 DEF AtEnd
<1>13. CASE w.state = "SKIP"
  <2>1. o.type = "Object" BY <1>13 DEF AtChild
  <2>2. v.child = None /\ v.state = "KEY" BY <1>6, <1>11, <1>13, <2>1 DEF child, Resting
  <2>3. AtChild(o, v) BY <1>7, <1>8, <1>11, <2>1, <2>2 DEF AtChild
  <2> QED BY <1>5, <1>11, <2>2, <2>3 DEF OnWay
<1> QED BY <1>12, <1>13

(* A round that is not the last stays on the way, and the last one ends it. *)
LEMMA RoundStays ==
  ASSUME NEW o, Shaped(o), CursorOk(o), o.rem # 0, NEW names,
         NEW w, OnWay(o, w), w.rem # 0
  PROVE  LET v == BrowseRound(o, names, w) IN
         OnWay(o, v) \/ (v \in Walks /\ AtEnd(o, v))
<1> DEFINE ts == o.parser.tokens
           token == TokenAt(o.parser.tokens, o.num, w.idx)
           counted == [w EXCEPT !.rem = @ + IF IsContainer(token) THEN token.size ELSE 0]
           stopped == [counted EXCEPT !.idx = @ + 1, !.rem = @ - 1]
<1>1. w \in Walks /\ w.err = "SUCCESS" /\ w.child = None /\ w.idx \in Nat /\ w.rem \in Nat
  BY DEF OnWay, Walks
<1>2. BrowseRound(o, names, w)
      = CASE w.state = "START" -> BrowseStart(w, token)
          [] w.state = "KEY" -> BrowseKey(o, names, counted, token)
          [] w.state \in {"SKIP", "PRINT"} -> BrowseValue(o, w, token)
          [] w.state = "STOP" -> stopped
          [] OTHER -> Refused(w, "INVALID_PARSER_STATE")
  BY DEF BrowseRound
<1>3. counted = [w EXCEPT !.rem = CountedRem(w, token)] BY DEF CountedRem
<1>4. ts # <<>> /\ ts \in Seq(Token) /\ Len(ts) \in Nat /\ 0 < Len(ts)
  <2>1. ts \in Seq(Token) /\ Len(ts) \in Nat /\ ts # <<>>
    BY WellParsedNumbers DEF Shaped, Numbers
  <2>2. Len(ts) # 0 BY <2>1
  <2> QED BY <2>1, <2>2
<1>5. w.idx < Len(ts) => token = ts[w.idx + 1] BY DEF TokenAt
<1>6. w.idx = 0 => token = ts[1] BY <1>4, <1>5
<1>7. AtChild(o, w) => token = ts[w.idx + 1]
  <2>1. AtChild(o, w) => w.idx < Len(ts) BY <1>1, StandingFacts DEF AtChild
  <2> QED BY <1>5, <2>1
<1> HIDE DEF token, counted
<1>8. CASE AtRoot(w) /\ o.idx = 0
  <2>1. BrowseRound(o, names, w) = BrowseStart(w, token) BY <1>2, <1>8 DEF AtRoot
  <2>2. token = ts[1] BY <1>6, <1>8 DEF AtRoot
  <2> QED BY <1>1, <1>8, <2>1, <2>2, RootRound
<1>9. CASE AtEmpty(ts, w) /\ o.idx = 0
  <2>1. BrowseRound(o, names, w) = stopped BY <1>2, <1>9 DEF AtEmpty
  <2>2. token = ts[1] BY <1>6, <1>9 DEF AtEmpty
  <2>3. OnWay(o, [[w EXCEPT !.rem = CountedRem(w, token)] EXCEPT !.idx = @ + 1, !.rem = @ - 1])
    BY <1>1, <1>9, <2>2, EmptyRound
  <2> QED BY <1>3, <2>1, <2>3
<1>10. CASE AtChild(o, w) /\ w.state = "KEY"
  <2>1. BrowseRound(o, names, w) = BrowseKey(o, names, counted, token) BY <1>2, <1>10
  <2> QED BY <1>1, <1>3, <1>7, <1>10, <2>1, KeyRound
<1>11. CASE AtChild(o, w) /\ w.state \in {"SKIP", "PRINT"}
  <2>1. BrowseRound(o, names, w) = BrowseValue(o, w, token) BY <1>2, <1>11
  <2> QED BY <1>1, <1>7, <1>11, <2>1, ValueRound
<1>12. AtChild(o, w) => w.state \in {"KEY", "SKIP", "PRINT"} BY DEF AtChild
<1> QED BY <1>8, <1>9, <1>10, <1>11, <1>12 DEF OnWay

(* A set that every round keeps, and every end leaves, tells the end.       *)
LEMMA WalkReaches ==
  ASSUME NEW o, Readable(o), NEW names, NEW P \in SUBSET Walks, NEW E,
         \A w \in P : IF Finishes(w) THEN WalkEnd(w) \in E ELSE BrowseRound(o, names, w) \in P,
         WalkStart(o) \in P
  PROVE  EndOfWalk(o, names) \in E
<1> DEFINE done == {w \in Walks : Finishes(w)}
           next == [w \in Walks |-> BrowseRound(o, names, w)]
           val == [w \in Walks |-> WalkEnd(w)]
<1>1. Ends(Walks, done, next) BY WalksEnd
<1>2. \A h : Iterates(Walks, done, next, val, h) <=> WalkRun(o, names, h)
  <2> SUFFICES ASSUME NEW h
               PROVE  Iterates(Walks, done, next, val, h) <=> WalkRun(o, names, h)
    OBVIOUS
  <2>1. \A w \in Walks : (IF w \in done THEN val[w] ELSE h[next[w]])
                         = IF w.err # "SUCCESS" \/ w.child # None THEN w
                           ELSE IF w.rem = 0 THEN Refused(w, "TOKEN_NOT_FOUND")
                           ELSE h[BrowseRound(o, names, w)]
    BY DEF Finishes, Stands, WalkEnd
  <2> HIDE DEF done, next, val
  <2> QED BY <2>1 DEF Iterates, WalkRun
<1>3. PICK g : Iterates(Walks, done, next, val, g)
  <2> HIDE DEF done, next, val
  <2> QED BY <1>1, Iteration
<1> DEFINE h == CHOOSE h : WalkRun(o, names, h)
<1>4. WalkRun(o, names, h) BY <1>2, <1>3
<1>5. EndOfWalk(o, names) = h[WalkStart(o)] BY DEF EndOfWalk
<1> HIDE DEF h
<1>6. Iterates(Walks, done, next, val, h) BY <1>2, <1>4
<1> DEFINE Q == {w \in Walks : w \in P => h[w] \in E}
<1>7. ASSUME NEW w \in Walks, w \in done \/ next[w] \in Q PROVE w \in Q
  <2> SUFFICES ASSUME w \in P PROVE h[w] \in E OBVIOUS
  <2>1. CASE w \in done
    <3>1. h[w] = WalkEnd(w) BY <1>6, <2>1 DEF Iterates
    <3> QED BY <2>1, <3>1
  <2>2. CASE w \notin done
    <3>1. h[w] = h[next[w]] /\ next[w] = BrowseRound(o, names, w) BY <1>6, <2>2 DEF Iterates
    <3>2. next[w] \in Q /\ next[w] \in P BY <1>7, <2>2, <3>1
    <3> HIDE DEF next
    <3> QED BY <3>1, <3>2
  <2> QED BY <2>1, <2>2
<1>8. Q = Walks
  <2>1. Q \in SUBSET Walks OBVIOUS
  <2> HIDE DEF Q, done, next
  <2> QED BY <1>1, <1>7, <2>1 DEF Ends
<1> QED BY <1>5, <1>8

(* Where a call ends that started between two children.                     *)
LEMMA EndOfShapedWalk ==
  ASSUME NEW o, Shaped(o), CursorOk(o), o.rem # 0, NEW names,
         ~(o.idx = 0 /\ o.state \in {"KEY", "SKIP", "PRINT"})
  PROVE  LET end == EndOfWalk(o, names) IN end \in Walks /\ AtEnd(o, end)
<1> DEFINE P == {w \in Walks : OnWay(o, w) \/ AtEnd(o, w)}
           E == {w \in Walks : AtEnd(o, w)}
<1>1. \A w \in Walks : AtEnd(o, w) => Stands(w)
  <2> SUFFICES ASSUME NEW w \in Walks, AtEnd(o, w) PROVE Stands(w) OBVIOUS
  <2>1. \A k \in Kids(o.parser.tokens) : k # None BY DEF Kids, None
  <2> QED BY <2>1 DEF AtEnd, Stands
<1>2. ASSUME NEW w \in P, Finishes(w) PROVE WalkEnd(w) \in E
  <2>1. CASE AtEnd(o, w) BY <1>1, <2>1 DEF WalkEnd
  <2>2. CASE OnWay(o, w)
    <3>1. ~Stands(w) /\ w.rem = 0 BY <1>2, <2>2 DEF OnWay, Stands, Finishes
    <3> DEFINE err == "TOKEN_NOT_FOUND"
    <3>2. err \in Errors BY DEF Errors
    <3> HIDE DEF err
    <3>3. /\ Refused(w, err) \in Walks /\ Refused(w, err).err = err
          /\ Refused(w, err).state = w.state
      BY <3>2, RefusedFields
    <3>4. WalkEnd(w) = Refused(w, err) BY <3>1 DEF WalkEnd, err
    <3>5. CASE AtEmpty(o.parser.tokens, w) /\ o.idx = 0
      BY <3>3, <3>4, <3>5 DEF AtEmpty, AtEnd, err
    <3>6. CASE AtChild(o, w)
      <4>1. o.type = "Object" => w.state = "KEY"
        <5>1. Even(0) BY DEF Even
        <5> QED BY <3>1, <3>6, <5>1 DEF AtChild
      <4>2. w.state = Resting(o) /\ w.state \in {"KEY", "PRINT"}
        BY <3>6, <4>1 DEF AtChild, Resting
      <4> QED BY <3>3, <3>4, <4>2 DEF AtEnd, err
    <3>7. ~AtRoot(w) BY <3>1 DEF AtRoot
    <3> QED BY <2>2, <3>5, <3>6, <3>7 DEF OnWay
  <2> QED BY <2>1, <2>2
<1>3. ASSUME NEW w \in P, ~Finishes(w) PROVE BrowseRound(o, names, w) \in P
  <2>1. ~AtEnd(o, w) /\ w.rem # 0 BY <1>1, <1>3 DEF Finishes
  <2>2. OnWay(o, w) BY <2>1
  <2>3. LET v == BrowseRound(o, names, w) IN OnWay(o, v) \/ (v \in Walks /\ AtEnd(o, v))
    BY <2>1, <2>2, RoundStays
  <2>4. \A v : OnWay(o, v) => v \in Walks BY DEF OnWay
  <2> QED BY <2>3, <2>4
<1>4. WalkStart(o) \in P
  <2> DEFINE w == WalkStart(o)
  <2>1. /\ w.idx = o.idx /\ w.rem = o.rem /\ w.state = o.state /\ w.child = None
        /\ w.err = "SUCCESS" /\ w \in Walks
    <3>1. <<>> \in Seq(Chars) OBVIOUS
    <3>2. None \in Int /\ "SUCCESS" \in Errors BY DEF None, Errors
    <3> QED BY <3>1, <3>2 DEF WalkStart, Walks, CursorOk
  <2> HIDE DEF w
  <2>2. CASE o.idx = 0
    <3>1. o.state \in {"START", "STOP"} BY <2>2 DEF CursorOk, States
    <3>2. o.rem = 1 /\ (o.state = "STOP" => o.parser.tokens[1].size = 0)
      BY <2>2 DEF CursorOk
    <3>3. AtRoot(w) \/ AtEmpty(o.parser.tokens, w)
      BY <2>1, <2>2, <3>1, <3>2 DEF AtRoot, AtEmpty
    <3> QED BY <2>1, <2>2, <3>3 DEF OnWay, w
  <2>3. CASE o.idx # 0
    <3>1. AtChild(o, w) BY <2>1, <2>3 DEF AtChild, CursorOk, Resting, Shaped
    <3> QED BY <2>1, <3>1 DEF OnWay, w
  <2> QED BY <2>2, <2>3
<1>5. Readable(o) BY DEF Shaped
<1> HIDE DEF P, E
<1>6. P \in SUBSET Walks BY DEF P
<1>7. EndOfWalk(o, names) \in E BY <1>2, <1>3, <1>4, <1>5, <1>6, WalkReaches
<1> QED BY <1>7 DEF E

(* A call that starts between two children leaves the cursor between two,   *)
(* does not read behind the tokens, and finds a child of the root.          *)
LEMMA BrowseKeepsCursor ==
  ASSUME NEW o, Shaped(o), CursorOk(o), o.rem # 0, NEW names,
         ~(o.idx = 0 /\ o.state \in {"KEY", "SKIP", "PRINT"})
  PROVE  LET b == JsoniBrowseJsonFile(o, names)
             end == EndOfWalk(o, names) IN
         /\ b.err # "WILD" /\ b.obj = CursorAfter(o, end)
         /\ IF b.err = "SUCCESS"
            THEN /\ end.idx # 0 /\ Standing(o.parser.tokens, end.idx, end.rem)
                 /\ end.idx \in Nat /\ end.rem \in Nat
                 /\ end.state = Resting(o) /\ (o.type = "Object" => Even(end.rem))
                 /\ \E i \in 2..Len(o.parser.tokens) : b.token = o.parser.tokens[i]
            ELSE /\ end.state \in States \ {"NOT_STARTED"}
                 /\ IF o.idx = 0 THEN end.state = "STOP" => o.parser.tokens[1].size = 0
                    ELSE end.state = Resting(o)
         /\ b.err = end.err
<1> DEFINE b == JsoniBrowseJsonFile(o, names)
           end == EndOfWalk(o, names)
           ts == o.parser.tokens
<1>1. end \in Walks /\ AtEnd(o, end) BY EndOfShapedWalk
<1>2. /\ b.err = end.err /\ b.obj = CursorAfter(o, end)
      /\ b.token = IF end.child = None THEN UnusedToken
                   ELSE TokenAt(o.parser.tokens, o.num, end.child)
  <2> HIDE DEF end, b
  <2>1. b = [obj |-> CursorAfter(o, end), err |-> end.err, key |-> end.key,
             token |-> IF end.child = None THEN UnusedToken
                       ELSE TokenAt(o.parser.tokens, o.num, end.child)]
    BY BrowseIsRun DEF b, end
  <2> QED BY <2>1
<1> HIDE DEF b, end
<1>3. end.idx \in Nat /\ end.rem \in Nat /\ end.state \in States BY <1>1 DEF Walks
<1>4. b.err # "WILD" BY <1>1, <1>2 DEF AtEnd
<1>5. ASSUME b.err = "SUCCESS" PROVE \E i \in 2..Len(ts) : b.token = ts[i]
  <2> DEFINE k == end.child
  <2>1. k \in Kids(ts) BY <1>1, <1>2, <1>5 DEF AtEnd
  <2>2. Len(ts) \in Nat BY WellParsedNumbers DEF Shaped, Numbers
  <2>3. k \in 1..Len(ts) - 1 BY <2>1 DEF Kids
  <2>4. b.token = TokenAt(ts, o.num, k)
    <3>1. k # None BY <2>2, <2>3 DEF None
    <3> QED BY <1>2, <3>1
  <2> HIDE DEF k
  <2>5. k < Len(ts) /\ k + 1 \in 2..Len(ts) BY <2>2, <2>3
  <2>6. b.token = ts[k + 1] BY <2>4, <2>5 DEF TokenAt
  <2> QED BY <2>5, <2>6
<1>6. b.err = "SUCCESS" =>
        /\ end.idx # 0 /\ Standing(ts, end.idx, end.rem)
        /\ end.state = Resting(o) /\ (o.type = "Object" => Even(end.rem))
  BY <1>1, <1>2 DEF AtEnd
<1>7. b.err # "SUCCESS" =>
        /\ end.state # "NOT_STARTED"
        /\ IF o.idx = 0 THEN end.state = "STOP" => ts[1].size = 0 ELSE end.state = Resting(o)
  BY <1>1, <1>2 DEF AtEnd
<1> QED BY <1>2, <1>3, <1>4, <1>5, <1>6, <1>7 DEF b, end

-----------------------------------------------------------------------------
(* What a walk finds.                                                       *)

(* The children in front of d, and the n-th child.                          *)
Before(ts, d) == {k \in Kids(ts) : k < d}
Nth(ts, n) == ts[1 + CHOOSE i \in Kids(ts) : Cardinality(Before(ts, i)) = n - 1]

LEMMA BeforeCounted ==
  ASSUME NEW o, Shaped(o), NEW ts, ts = o.parser.tokens, NEW d \in Nat, NEW rem, Standing(ts, d, rem)
  PROVE  /\ Cardinality(Kids(ts)) \in Nat /\ rem \in Nat /\ rem <= Cardinality(Kids(ts))
         /\ Cardinality(Before(ts, d)) = Cardinality(Kids(ts)) - rem
<1> DEFINE K == Kids(ts)
           C == Coming(ts, d)
<1>1. IsFiniteSet(K) BY KidsCounted
<1>2. C \subseteq K /\ Before(ts, d) = K \ C
  <2>1. \A k \in K : k < d <=> ~(k >= d)
    <3>1. \A k \in K : k \in Nat
      <4>1. Len(ts) \in Nat BY WellParsedNumbers DEF Shaped, Numbers
      <4> QED BY <4>1 DEF Kids
    <3> HIDE DEF K
    <3> QED BY <3>1
  <2> QED BY <2>1 DEF Before, Coming
<1>3. rem = Cardinality(C) BY DEF Standing
<1> HIDE DEF K, C
<1>4. IsFiniteSet(C) /\ Cardinality(C) <= Cardinality(K) BY <1>1, <1>2, FS_Subset
<1>5. Cardinality(C) \in Nat /\ Cardinality(K) \in Nat BY <1>1, <1>4, FS_CardinalityType
<1>6. K \cap C = C BY <1>2
<1>7. Cardinality(K \ C) = Cardinality(K) - Cardinality(C)
  <2>1. Cardinality(K \ C) = Cardinality(K) - Cardinality(K \cap C) BY <1>1, FS_Difference
  <2> QED BY <1>6, <2>1
<1> QED BY <1>2, <1>3, <1>4, <1>5, <1>7 DEF K

(* No two children have the same number of children in front.               *)
LEMMA NthIs ==
  ASSUME NEW o, Shaped(o), NEW ts, ts = o.parser.tokens, NEW d \in Kids(ts), NEW n \in Nat,
         Cardinality(Before(ts, d)) = n - 1
  PROVE  Nth(ts, n) = ts[d + 1]
<1> DEFINE K == Kids(ts)
<1>1. IsFiniteSet(K) BY KidsCounted
<1>2. \A k \in K : k \in Nat
  <2>1. Len(ts) \in Nat BY WellParsedNumbers DEF Shaped, Numbers
  <2> QED BY <2>1 DEF Kids
<1>3. ASSUME NEW i \in K, NEW j \in K, i < j
      PROVE  Cardinality(Before(ts, i)) # Cardinality(Before(ts, j))
  <2> DEFINE I == Before(ts, i)
             J == Before(ts, j)
  <2>1. I \subseteq K /\ J \subseteq K /\ I \subseteq J /\ i \in J /\ i \notin I
    <3> HIDE DEF K
    <3>1. \A k \in K : k < i => k < j BY <1>2, <1>3
    <3>2. ~(i < i) BY <1>2, <1>3
    <3> QED BY <1>3, <3>1, <3>2 DEF Before, K
  <2> HIDE DEF I, J, K
  <2>2. IsFiniteSet(J) BY <1>1, <2>1, FS_Subset
  <2>3. I \in SUBSET J BY <2>1
  <2>4. Cardinality(J) = Cardinality(I) => J = I BY <2>2, <2>3, FS_Subset
  <2> QED BY <2>1, <2>4 DEF I, J
<1>4. ASSUME NEW i \in K, Cardinality(Before(ts, i)) = n - 1 PROVE i = d
  <2>1. i \in Nat /\ d \in Nat BY <1>2
  <2>2. ~(i < d) BY <1>3, <1>4
  <2>3. ~(d < i) BY <1>3, <1>4
  <2> QED BY <2>1, <2>2, <2>3
<1> DEFINE c == CHOOSE i \in K : Cardinality(Before(ts, i)) = n - 1
<1>5. c = d BY <1>4
<1>6. Nth(ts, n) = ts[1 + c] BY DEF Nth
<1> HIDE DEF c
<1>7. 1 + d = d + 1 BY <1>2
<1> QED BY <1>5, <1>6, <1>7

(* The child at which the walk stands with rem tokens to go.                *)
LEMMA NthAhead ==
  ASSUME NEW o, Shaped(o), NEW ts, ts = o.parser.tokens, NEW d \in Nat, NEW rem \in Nat,
         rem # 0, Standing(ts, d, rem), NEW n \in Nat, n = Cardinality(Kids(ts)) - rem + 1
  PROVE  d \in Kids(ts) /\ ts[d + 1] = Nth(ts, n) /\ Cardinality(Before(ts, d)) = n - 1
<1>1. d \in Kids(ts) BY StandingFacts
<1> DEFINE k == Cardinality(Kids(ts))
           b == Cardinality(Before(ts, d))
<1>2. k \in Nat /\ b = k - rem BY BeforeCounted
<1>3. n = k - rem + 1 OBVIOUS
<1> HIDE DEF k, b
<1>4. b = n - 1 BY <1>2, <1>3
<1> QED BY <1>1, <1>4, NthIs DEF b

(* Whether a search for names stops at the j-th element, and whether it     *)
(* passes over the elements behind the a-th up to the b-th.                 *)
KeyOf(o, j) == TextOf(o.data, Nth(o.parser.tokens, 2 * j - 1))
Wanted(o, names, j) == names = {} \/ o.type = "Array" \/ KeyOf(o, j) \in names
NoneWanted(o, names, a, b) == \A j \in a + 1..b : ~Wanted(o, names, j)

(* An object with keys that are strings, and a value for each.              *)
Keyed(o) ==
  LET ts == o.parser.tokens
  IN  o.type = "Object" =>
        /\ Even(Cardinality(Kids(ts)))
        /\ \A d \in Kids(ts) : Even(Cardinality(Before(ts, d))) => ts[d + 1].type = "STRING"

(* A walk that started with a elements passed, at a child: what it has not  *)
(* wanted so far, and in front of a value what it wants.                    *)
Looking(o, names, a, w) ==
  LET all == Cardinality(Kids(o.parser.tokens))
  IN  IF o.type = "Array" THEN w.rem = all - a /\ w.key = <<>>
      ELSE \E j \in Nat :
             \/ /\ w.state = "KEY" /\ w.rem = all - 2 * j /\ a <= j
                /\ NoneWanted(o, names, a, j) /\ w.key = <<>>
             \/ /\ w.state = "SKIP" /\ w.rem = all - 2 * j + 1 /\ a < j
                /\ NoneWanted(o, names, a, j) /\ w.key = <<>>
             \/ /\ w.state = "PRINT" /\ w.rem = all - 2 * j + 1 /\ a < j
                /\ NoneWanted(o, names, a, j - 1) /\ Wanted(o, names, j)
                /\ w.key = KeyOf(o, j)

(* The j-th element is the first that was wanted, and the walk is behind it.*)
Found(o, names, a, w, j) ==
  LET ts == o.parser.tokens
      per == IF o.type = "Object" THEN 2 ELSE 1
  IN  /\ j \in Nat /\ a < j /\ NoneWanted(o, names, a, j - 1) /\ Wanted(o, names, j)
      /\ w.rem = Cardinality(Kids(ts)) - per * j
      /\ w.child \in Kids(ts) /\ ts[w.child + 1] = Nth(ts, per * j)
      /\ w.key = IF o.type = "Object" THEN KeyOf(o, j) ELSE <<>>

LEMMA RootFinds ==
  ASSUME NEW o, Shaped(o), Keyed(o), o.idx = 0, NEW names,
         NEW w \in Walks, w.err = "SUCCESS", w.child = None, w.key = <<>>,
         AtRoot(w), NEW token, token = o.parser.tokens[1],
         NEW v, v = BrowseStart(w, token)
  PROVE  /\ v.err = "SUCCESS" /\ v.child = None /\ v.key = <<>>
         /\ AtChild(o, v) => Looking(o, names, 0, v)
<1> DEFINE ts == o.parser.tokens
           all == Cardinality(Kids(ts))
           idx == w.idx + 1
           rem == w.rem + token.size - 1
           state == IF token.size = 0 THEN "STOP"
                    ELSE IF token.type = "ARRAY" THEN "PRINT" ELSE "KEY"
<1>1. token.size = all /\ all \in Nat
  <2>1. IsFiniteSet(Kids(ts)) /\ token.size = all BY KidsCounted
  <2> QED BY <2>1, FS_CardinalityType
<1>2. token.type = IF o.type = "Object" THEN "OBJECT" ELSE "ARRAY" BY DEF Shaped
<1>3. o.type = "Object" => all % 2 = 0 BY DEF Keyed, Even
<1>4. v = [w EXCEPT !.idx = idx, !.rem = rem, !.state = state]
  <2> HIDE DEF all
  <2> QED BY <1>1, <1>2, <1>3 DEF BrowseStart, IsContainer
<1>5. rem = all
  <2> HIDE DEF all
  <2> QED BY <1>1 DEF AtRoot
<1> HIDE DEF idx, rem, all
<1>6. /\ v.err = "SUCCESS" /\ v.child = None /\ v.key = <<>> /\ v.rem = all
      /\ v.state = state
  BY <1>4, <1>5 DEF Walks
<1>7. ASSUME AtChild(o, v) PROVE Looking(o, names, 0, v)
  <2>1. o.type \in {"Object", "Array"} BY DEF Shaped
  <2>2. CASE o.type = "Array"
    <3>1. v.rem = all - 0 BY <1>1, <1>6
    <3> QED BY <1>6, <2>2, <3>1 DEF Looking, all
  <2>3. CASE o.type = "Object"
    <3>1. v.state = "KEY" BY <1>2, <1>6, <1>7, <2>3 DEF AtChild
    <3>2. v.rem = all - 2 * 0 /\ 0 \in Nat /\ 0 <= 0 BY <1>1, <1>6
    <3>3. NoneWanted(o, names, 0, 0)
      <4>1. 0 + 1..0 = {} OBVIOUS
      <4> QED BY <4>1 DEF NoneWanted
    <3> QED BY <1>6, <2>3, <3>1, <3>2, <3>3 DEF Looking, all
  <2> QED BY <2>1, <2>2, <2>3
<1> QED BY <1>6, <1>7

LEMMA KeyFinds ==
  ASSUME NEW o, Shaped(o), Keyed(o), NEW names, NEW a \in Nat,
         NEW w \in Walks, w.err = "SUCCESS", w.child = None, AtChild(o, w), w.state = "KEY",
         w.rem # 0, Looking(o, names, a, w),
         NEW token, token = o.parser.tokens[w.idx + 1],
         NEW counted, counted = [w EXCEPT !.rem = CountedRem(w, token)],
         NEW v, v = BrowseKey(o, names, counted, token)
  PROVE  v.err = "SUCCESS" /\ v.child = None /\ Looking(o, names, a, v)
<1> DEFINE ts == o.parser.tokens
           all == Cardinality(Kids(ts))
           name == TextOf(o.data, token)
           wanted == names = {} \/ name \in names
           d == w.idx
           idx == d + 1
           rem == w.rem - 1
           state == IF wanted THEN "PRINT" ELSE "SKIP"
           key == IF wanted THEN name ELSE w.key
<1>1. d \in Nat /\ w.rem \in Nat /\ w.rem # 0 /\ Standing(ts, d, w.rem) /\ o.type = "Object"
  BY DEF Walks, AtChild, Shaped
<1>2. all \in Nat /\ Even(all) BY <1>1, BeforeCounted DEF Keyed
<1>3. PICK i \in Nat : /\ w.rem = all - 2 * i /\ a <= i
                       /\ NoneWanted(o, names, a, i) /\ w.key = <<>>
  BY <1>1 DEF Looking
<1> DEFINE j == i + 1
           n == 2 * j - 1
<1>4. /\ j \in Nat /\ n \in Nat /\ n = all - w.rem + 1 /\ a < j /\ rem = all - 2 * j + 1
      /\ j - 1 = i /\ Even(n - 1)
  <2> DEFINE left == w.rem
  <2>1. all \in Nat /\ i \in Nat /\ left \in Nat /\ left # 0 /\ left = all - 2 * i /\ a <= i
    BY <1>1, <1>2, <1>3
  <2> HIDE DEF all, left
  <2>2. j \in Nat /\ n \in Nat /\ n = all - left + 1 /\ a < j /\ left - 1 = all - 2 * j + 1
        /\ j - 1 = i /\ n - 1 = 2 * i
    BY <2>1
  <2> HIDE DEF n
  <2>3. Even(n - 1) BY <2>2 DEF Even
  <2> QED BY <2>2, <2>3 DEF left
<1> HIDE DEF n, j, rem
<1>5. d \in Kids(ts) /\ ts[d + 1] = Nth(ts, n) /\ Cardinality(Before(ts, d)) = n - 1
  <2> HIDE DEF d
  <2> QED BY <1>1, <1>4, NthAhead
<1>6. token.type = "STRING" BY <1>1, <1>4, <1>5 DEF Keyed
<1>7. counted = w
  <2>1. CountedRem(w, token) = w.rem BY <1>1, <1>6 DEF CountedRem, IsContainer
  <2> QED BY <2>1 DEF Walks
<1>8. name = KeyOf(o, j) BY <1>5 DEF KeyOf, n
<1>9. wanted <=> Wanted(o, names, j) BY <1>1, <1>8 DEF Wanted
<1>10. v = [w EXCEPT !.idx = idx, !.rem = rem, !.state = state, !.key = key]
  BY <1>6, <1>7 DEF BrowseKey, rem
<1> HIDE DEF idx, state, key, name, wanted
<1>11. /\ v.err = "SUCCESS" /\ v.child = None /\ v.rem = rem /\ v.state = state /\ v.key = key
  BY <1>10 DEF Walks
<1>12. CASE Wanted(o, names, j)
  <2>1. v.state = "PRINT" /\ v.key = KeyOf(o, j) BY <1>8, <1>9, <1>11, <1>12 DEF state, key
  <2>2. NoneWanted(o, names, a, j - 1) BY <1>3, <1>4
  <2> QED BY <1>1, <1>4, <1>11, <1>12, <2>1, <2>2 DEF Looking
<1>13. CASE ~Wanted(o, names, j)
  <2>1. v.state = "SKIP" /\ v.key = <<>> BY <1>3, <1>9, <1>11, <1>13 DEF state, key
  <2>2. NoneWanted(o, names, a, j)
    <3>1. \A k \in a + 1..j : k \in a + 1..i \/ k = j BY <1>3, <1>4
    <3> QED BY <1>3, <1>13, <3>1 DEF NoneWanted
  <2> QED BY <1>1, <1>4, <1>11, <2>1, <2>2 DEF Looking
<1> QED BY <1>11, <1>12, <1>13

LEMMA ValueFinds ==
  ASSUME NEW o, Shaped(o), NEW names, NEW a \in Nat,
         NEW w \in Walks, w.err = "SUCCESS", w.child = None, AtChild(o, w),
         w.state \in {"SKIP", "PRINT"}, w.rem # 0, Looking(o, names, a, w),
         NEW token, token = o.parser.tokens[w.idx + 1],
         NEW v, v = BrowseValue(o, w, token), o.rem # 0, v.err # "WILD"
  PROVE  /\ v.err = "SUCCESS"
         /\ IF w.state = "PRINT" THEN \E j : Found(o, names, a, v, j)
            ELSE v.child = None /\ Looking(o, names, a, v)
<1> DEFINE ts == o.parser.tokens
           all == Cardinality(Kids(ts))
           next == SkipJsonTokenIfNeeded(o, token, w.idx + 1)
           state == IF o.rem = 0 THEN "STOP" ELSE IF o.type = "Object" THEN "KEY" ELSE "PRINT"
           d == w.idx
           rem == w.rem - 1
           child == IF w.state = "PRINT" THEN d ELSE w.child
<1>1. d \in Nat /\ w.rem \in Nat /\ w.rem # 0 /\ Standing(ts, d, w.rem) BY DEF Walks, AtChild
<1>2. all \in Nat BY <1>1, BeforeCounted
<1>3. next # None
  <2>1. ASSUME next = None PROVE v.err = "WILD"
    <3>1. v = Refused(w, "WILD") BY <2>1 DEF BrowseValue
    <3> QED BY <3>1 DEF Refused, Walks
  <2> QED BY <2>1
<1>4. v = [w EXCEPT !.idx = next, !.rem = rem, !.state = state, !.child = child]
  BY <1>3 DEF BrowseValue
<1> HIDE DEF next, state, rem, child
<1>5. /\ v.err = "SUCCESS" /\ v.child = child /\ v.rem = rem /\ v.state = state /\ v.key = w.key
  BY <1>4 DEF Walks
<1>6. o.type \in {"Object", "Array"} BY DEF Shaped
<1>7. CASE o.type = "Array"
  <2> DEFINE j == a + 1
             n == 1 * j
  <2>1. w.rem = all - a /\ w.key = <<>> BY <1>7 DEF Looking
  <2>2. /\ n \in Nat /\ n = all - w.rem + 1 /\ a < j /\ j \in Nat /\ rem = all - n
        /\ a + 1..j - 1 = {}
    <3> HIDE DEF all
    <3> QED BY <1>1, <1>2, <2>1 DEF rem
  <2>3. d \in Kids(ts) /\ ts[d + 1] = Nth(ts, n)
    <3> HIDE DEF d, n
    <3> QED BY <1>1, <2>2, NthAhead
  <2> HIDE DEF j
  <2>4. w.state = "PRINT" /\ child = d BY <1>7 DEF AtChild, child
  <2>5. NoneWanted(o, names, a, j - 1) /\ Wanted(o, names, j)
    BY <1>7, <2>2 DEF NoneWanted, Wanted
  <2>6. Found(o, names, a, v, j) BY <1>5, <1>7, <2>1, <2>2, <2>3, <2>4, <2>5 DEF Found
  <2> QED BY <1>5, <2>4, <2>6
<1>8. CASE o.type = "Object"
  <2>1. PICK j \in Nat :
          /\ w.rem = all - 2 * j + 1 /\ a < j
          /\ \/ w.state = "SKIP" /\ NoneWanted(o, names, a, j) /\ w.key = <<>>
             \/ /\ w.state = "PRINT" /\ NoneWanted(o, names, a, j - 1) /\ Wanted(o, names, j)
                /\ w.key = KeyOf(o, j)
    BY <1>8 DEF Looking
  <2> DEFINE n == 2 * j
  <2>2. n \in Nat /\ n = all - w.rem + 1 /\ rem = all - n /\ a <= j
    <3> HIDE DEF all
    <3> QED BY <1>1, <1>2, <2>1 DEF rem
  <2>3. d \in Kids(ts) /\ ts[d + 1] = Nth(ts, n)
    <3> HIDE DEF d, n
    <3> QED BY <1>1, <2>2, NthAhead
  <2>4. CASE w.state = "PRINT"
    <3>1. child = d BY <2>4 DEF child
    <3>2. Found(o, names, a, v, j) BY <1>5, <1>8, <2>1, <2>2, <2>3, <2>4, <3>1 DEF Found
    <3> QED BY <1>5, <2>4, <3>2
  <2>5. CASE w.state = "SKIP"
    <3>1. v.child = None /\ v.state = "KEY" /\ v.key = <<>>
      BY <1>5, <1>8, <2>1, <2>5 DEF child, state
    <3>2. v.rem = all - 2 * j /\ NoneWanted(o, names, a, j) BY <1>5, <2>1, <2>2, <2>5
    <3>3. Looking(o, names, a, v) BY <1>8, <2>2, <3>1, <3>2 DEF Looking
    <3> QED BY <1>5, <2>5, <3>1, <3>3
  <2> QED BY <2>4, <2>5
<1> QED BY <1>6, <1>7, <1>8

(* A search on its way: what it has passed, or the root before it.          *)
Sought(o, names, a, w) ==
  /\ OnWay(o, w)
  /\ w.state = "START" => w.key = <<>>
  /\ AtChild(o, w) => Looking(o, names, a, w)

LEMMA RoundFinds ==
  ASSUME NEW o, Shaped(o), Keyed(o), CursorOk(o), o.rem # 0, NEW names,
         NEW a \in Nat, o.idx = 0 => a = 0,
         NEW w, Sought(o, names, a, w), w.rem # 0
  PROVE  LET v == BrowseRound(o, names, w) IN
         \/ Sought(o, names, a, v)
         \/ v \in Walks /\ v.err = "SUCCESS" /\ \E j : Found(o, names, a, v, j)
<1> DEFINE ts == o.parser.tokens
           v == BrowseRound(o, names, w)
           token == TokenAt(o.parser.tokens, o.num, w.idx)
           counted == [w EXCEPT !.rem = @ + IF IsContainer(token) THEN token.size ELSE 0]
           stopped == [counted EXCEPT !.idx = @ + 1, !.rem = @ - 1]
<1>1. w \in Walks /\ w.err = "SUCCESS" /\ w.child = None /\ w.idx \in Nat /\ w.rem \in Nat
  BY DEF OnWay, Walks, Sought
<1>2. v = CASE w.state = "START" -> BrowseStart(w, token)
            [] w.state = "KEY" -> BrowseKey(o, names, counted, token)
            [] w.state \in {"SKIP", "PRINT"} -> BrowseValue(o, w, token)
            [] w.state = "STOP" -> stopped
            [] OTHER -> Refused(w, "INVALID_PARSER_STATE")
  BY DEF BrowseRound
<1>3. counted = [w EXCEPT !.rem = CountedRem(w, token)] BY DEF CountedRem
<1>4. Len(ts) \in Nat /\ 0 < Len(ts)
  <2>1. ts \in Seq(Token) /\ Len(ts) \in Nat /\ ts # <<>>
    BY WellParsedNumbers DEF Shaped, Numbers
  <2>2. Len(ts) # 0 BY <2>1
  <2> QED BY <2>1, <2>2
<1>5. w.idx < Len(ts) => token = ts[w.idx + 1] BY DEF TokenAt
<1>6. w.idx = 0 => token = ts[1] BY <1>4, <1>5
<1>7. AtChild(o, w) => token = ts[w.idx + 1]
  <2>1. AtChild(o, w) => w.idx < Len(ts) BY <1>1, StandingFacts DEF AtChild
  <2> QED BY <1>5, <2>1
<1>8. OnWay(o, v) \/ (v \in Walks /\ AtEnd(o, v)) BY RoundStays DEF Sought
<1>9. AtEnd(o, v) => v.err # "SUCCESS" \/ v.child # None
  <2>1. \A k \in Kids(ts) : k # None
    <3>1. \A k \in Kids(ts) : k \in Nat BY <1>4 DEF Kids
    <3> QED BY <3>1 DEF None
  <2> QED BY <2>1 DEF AtEnd
<1>10. v.err # "WILD" BY <1>8 DEF OnWay, AtEnd
<1>11. v \in Walks BY <1>8 DEF OnWay
<1> HIDE DEF token, counted, v
<1>12. CASE AtRoot(w) /\ o.idx = 0
  <2>1. v = BrowseStart(w, token) BY <1>2, <1>12 DEF AtRoot
  <2>2. token = ts[1] /\ w.key = <<>> BY <1>6, <1>12 DEF AtRoot, Sought
  <2>3. /\ v.err = "SUCCESS" /\ v.child = None /\ v.key = <<>>
        /\ AtChild(o, v) => Looking(o, names, 0, v)
    BY <1>1, <1>12, <2>1, <2>2, RootFinds
  <2> QED BY <1>8, <1>9, <1>12, <2>3 DEF Sought, v
<1>13. CASE AtEmpty(ts, w) /\ o.idx = 0
  <2>1. v = stopped BY <1>2, <1>13 DEF AtEmpty
  <2>2. v.err = "SUCCESS" /\ v.child = None /\ v.state = "STOP"
    <3> DEFINE idx == w.idx + 1  rem == CountedRem(w, token) - 1
    <3>1. v = [w EXCEPT !.idx = idx, !.rem = rem] BY <1>1, <1>3, <2>1 DEF Walks
    <3> HIDE DEF idx, rem
    <3> QED BY <1>1, <1>13, <3>1 DEF Walks, AtEmpty
  <2>3. ~AtChild(o, v) BY <2>2 DEF AtChild
  <2> QED BY <1>8, <1>9, <2>2, <2>3 DEF Sought, v
<1>14. CASE AtChild(o, w) /\ w.state = "KEY"
  <2>1. v = BrowseKey(o, names, counted, token) BY <1>2, <1>14
  <2>2. v.err = "SUCCESS" /\ v.child = None /\ Looking(o, names, a, v)
    BY <1>1, <1>3, <1>7, <1>14, <2>1, KeyFinds DEF Sought
  <2>3. o.type = "Object" BY <1>14 DEF AtChild, Shaped
  <2>4. v.state # "START" BY <2>2, <2>3 DEF Looking
  <2> QED BY <1>8, <1>9, <2>2, <2>4 DEF Sought, v
<1>15. CASE AtChild(o, w) /\ w.state \in {"SKIP", "PRINT"}
  <2>1. v = BrowseValue(o, w, token) BY <1>2, <1>15
  <2>2. /\ v.err = "SUCCESS"
        /\ IF w.state = "PRINT" THEN \E j : Found(o, names, a, v, j)
           ELSE v.child = None /\ Looking(o, names, a, v)
    BY <1>1, <1>7, <1>10, <1>15, <2>1, ValueFinds DEF Sought
  <2>3. CASE w.state = "PRINT" BY <1>11, <2>2, <2>3 DEF v
  <2>4. CASE w.state = "SKIP"
    <3>1. o.type = "Object" BY <1>15, <2>4 DEF AtChild
    <3>2. v.child = None /\ Looking(o, names, a, v) /\ v.state # "START"
      BY <2>2, <2>4, <3>1 DEF Looking
    <3> QED BY <1>8, <1>9, <2>2, <3>2 DEF Sought, v
  <2> QED BY <1>15, <2>3, <2>4
<1>16. AtChild(o, w) => w.state \in {"KEY", "SKIP", "PRINT"} BY DEF AtChild
<1> QED BY <1>12, <1>13, <1>14, <1>15, <1>16 DEF OnWay, Sought

(* How many elements a container has, and the end of a search behind the    *)
(* first a of them.                                                         *)
Per(o) == IF o.type = "Object" THEN 2 ELSE 1
Count(o) == Cardinality(Kids(o.parser.tokens)) \div Per(o)
Searched(o, names, a, end) ==
  \/ end.err = "SUCCESS" /\ \E j : Found(o, names, a, end, j)
  \/ end.err = "TOKEN_NOT_FOUND" /\ NoneWanted(o, names, a, Count(o))

LEMMA FinishFinds ==
  ASSUME NEW o, Shaped(o), Keyed(o), NEW names, NEW a \in Nat, o.idx = 0 => a = 0,
         NEW w, Sought(o, names, a, w), w.rem = 0
  PROVE  NoneWanted(o, names, a, Count(o))
<1> DEFINE ts == o.parser.tokens
           all == Cardinality(Kids(ts))
<1>1. all \in Nat /\ ts[1].size = all /\ o.type \in {"Object", "Array"}
  <2>1. IsFiniteSet(Kids(ts)) /\ ts[1].size = all BY KidsCounted
  <2> QED BY <2>1, FS_CardinalityType DEF Shaped
<1>2. \A b \in Int : b <= a => NoneWanted(o, names, a, b)
  <2> SUFFICES ASSUME NEW b \in Int, b <= a PROVE NoneWanted(o, names, a, b) OBVIOUS
  <2>1. a + 1..b = {} OBVIOUS
  <2> QED BY <2>1 DEF NoneWanted
<1>3. ~AtRoot(w) BY DEF AtRoot
<1>4. CASE AtEmpty(ts, w) /\ o.idx = 0
  <2>1. all = 0 /\ a = 0 BY <1>1, <1>4 DEF AtEmpty
  <2>2. Count(o) = 0
    <3> HIDE DEF all
    <3>1. Count(o) = all \div Per(o) BY DEF Count, all
    <3> QED BY <2>1, <3>1 DEF Per
  <2> QED BY <1>2, <2>1, <2>2
<1>5. CASE AtChild(o, w)
  <2>1. Looking(o, names, a, w) BY <1>5 DEF Sought
  <2>2. CASE o.type = "Array"
    <3>1. 0 = all - a BY <2>1, <2>2 DEF Looking
    <3> HIDE DEF all
    <3>2. Count(o) = all \div 1 BY <2>2 DEF Count, all, Per
    <3>3. Count(o) \in Int /\ Count(o) <= a BY <1>1, <3>1, <3>2
    <3> QED BY <1>2, <3>3
  <2>3. CASE o.type = "Object"
    <3>1. w.state = "KEY"
      <4>1. Even(0) BY DEF Even
      <4> QED BY <1>5, <2>3, <4>1 DEF AtChild
    <3>2. PICK j \in Nat : 0 = all - 2 * j /\ NoneWanted(o, names, a, j)
      BY <2>1, <2>3, <3>1 DEF Looking
    <3> HIDE DEF all
    <3>3. Count(o) = all \div 2 BY <2>3 DEF Count, all, Per
    <3>4. all = 2 * j BY <1>1, <3>2
    <3>5. Count(o) = j BY <3>3, <3>4
    <3> QED BY <3>2, <3>5
  <2> QED BY <1>1, <2>2, <2>3
<1> QED BY <1>3, <1>4, <1>5 DEF Sought, OnWay

(* A search that starts behind the first a elements finds the first that is *)
(* wanted, or nothing when none is.                                         *)
LEMMA EndFinds ==
  ASSUME NEW o, Shaped(o), Keyed(o), CursorOk(o), o.rem # 0, NEW names,
         ~(o.idx = 0 /\ o.state \in {"KEY", "SKIP", "PRINT"}),
         NEW a \in Nat, Cardinality(Before(o.parser.tokens, o.idx)) = Per(o) * a
  PROVE  Searched(o, names, a, EndOfWalk(o, names))
<1> DEFINE P == {w \in Walks : \/ Sought(o, names, a, w)
                               \/ w.err = "SUCCESS" /\ \E j : Found(o, names, a, w, j)}
           E == {w \in Walks : Searched(o, names, a, w)}
           ts == o.parser.tokens
           all == Cardinality(Kids(ts))
<1>1. \A w, j : Found(o, names, a, w, j) => w.child # None
  <2>1. Len(ts) \in Nat BY WellParsedNumbers DEF Shaped, Numbers
  <2>2. \A k \in Kids(ts) : k \in Nat BY <2>1 DEF Kids
  <2> QED BY <2>2 DEF Found, None
<1>2. Readable(o) /\ o.idx \in Nat BY DEF Shaped, CursorOk
<1>3. o.idx = 0 => a = 0
  <2> SUFFICES ASSUME o.idx = 0 PROVE a = 0 OBVIOUS
  <2>1. Before(ts, 0) = {}
    <3>1. Len(ts) \in Nat BY WellParsedNumbers DEF Shaped, Numbers
    <3> QED BY <3>1 DEF Before, Kids
  <2>2. Cardinality(Before(ts, 0)) = 0 BY <2>1, FS_EmptySet
  <2> QED BY <2>2 DEF Per
<1>4. ASSUME NEW w \in P, Finishes(w) PROVE WalkEnd(w) \in E
  <2>1. CASE w.err = "SUCCESS" /\ \E j : Found(o, names, a, w, j)
    <3>1. Stands(w) BY <1>1, <2>1 DEF Stands
    <3> QED BY <2>1, <3>1 DEF WalkEnd, Searched
  <2>2. CASE Sought(o, names, a, w)
    <3>1. ~Stands(w) /\ w.rem = 0 BY <1>4, <2>2 DEF Sought, OnWay, Stands, Finishes
    <3> DEFINE err == "TOKEN_NOT_FOUND"
    <3>2. err \in Errors BY DEF Errors
    <3> HIDE DEF err
    <3>3. Refused(w, err) \in Walks /\ Refused(w, err).err = err BY <3>2, RefusedFields
    <3>4. WalkEnd(w) = Refused(w, err) BY <3>1 DEF WalkEnd, err
    <3>5. NoneWanted(o, names, a, Count(o)) BY <1>3, <2>2, <3>1, FinishFinds
    <3> QED BY <3>3, <3>4, <3>5 DEF Searched, err
  <2> QED BY <2>1, <2>2
<1>5. ASSUME NEW w \in P, ~Finishes(w) PROVE BrowseRound(o, names, w) \in P
  <2> DEFINE v == BrowseRound(o, names, w)
  <2>1. ~Stands(w) /\ w.rem # 0 BY <1>5 DEF Finishes
  <2>2. Sought(o, names, a, w) BY <1>1, <2>1 DEF Stands
  <2>3. \/ Sought(o, names, a, v)
        \/ v \in Walks /\ v.err = "SUCCESS" /\ \E j : Found(o, names, a, v, j)
    BY <1>3, <2>1, <2>2, RoundFinds
  <2>4. Sought(o, names, a, v) => v \in Walks BY DEF Sought, OnWay
  <2> QED BY <2>3, <2>4
<1>6. WalkStart(o) \in P
  <2> DEFINE w == WalkStart(o)
  <2>1. /\ w.idx = o.idx /\ w.rem = o.rem /\ w.state = o.state /\ w.child = None
        /\ w.err = "SUCCESS" /\ w \in Walks /\ w.key = <<>>
    <3>1. <<>> \in Seq(Chars) OBVIOUS
    <3>2. None \in Int /\ "SUCCESS" \in Errors BY DEF None, Errors
    <3> QED BY <3>1, <3>2 DEF WalkStart, Walks, CursorOk
  <2> HIDE DEF w
  <2>2. CASE o.idx = 0
    <3>1. o.state \in {"START", "STOP"} BY <2>2 DEF CursorOk, States
    <3>2. o.rem = 1 /\ (o.state = "STOP" => ts[1].size = 0) BY <2>2 DEF CursorOk
    <3>3. (AtRoot(w) \/ AtEmpty(ts, w)) /\ ~AtChild(o, w)
      BY <2>1, <2>2, <3>1, <3>2 DEF AtRoot, AtEmpty, AtChild
    <3> QED BY <2>1, <2>2, <3>3 DEF OnWay, Sought, w
  <2>3. CASE o.idx # 0
    <3>1. AtChild(o, w) BY <2>1, <2>3 DEF AtChild, CursorOk, Resting, Shaped
    <3>2. all \in Nat /\ o.rem \in Nat /\ Per(o) * a = all - o.rem
      <4>1. Standing(ts, o.idx, o.rem) BY <2>3 DEF CursorOk
      <4> QED BY <1>2, <4>1, BeforeCounted
    <3>3. Looking(o, names, a, w)
      <4>1. CASE o.type = "Array"
        <5>1. o.rem = all - a
          <6> HIDE DEF all
          <6> QED BY <3>2, <4>1 DEF Per
        <5> QED BY <2>1, <4>1, <5>1 DEF Looking
      <4>2. CASE o.type = "Object"
        <5>1. o.rem = all - 2 * a /\ a <= a
          <6> HIDE DEF all
          <6> QED BY <3>2, <4>2 DEF Per
        <5>2. NoneWanted(o, names, a, a)
          <6>1. a + 1..a = {} OBVIOUS
          <6> QED BY <6>1 DEF NoneWanted
        <5>3. w.state = "KEY" BY <2>1, <2>3, <4>2 DEF CursorOk, Resting
        <5> QED BY <2>1, <4>2, <5>1, <5>2, <5>3 DEF Looking
      <4> QED BY <4>1, <4>2 DEF Shaped
    <3>4. w.state # "START" BY <3>1 DEF AtChild
    <3> QED BY <2>1, <3>1, <3>3, <3>4 DEF OnWay, Sought, w
  <2> QED BY <2>2, <2>3
<1> HIDE DEF P, E
<1>7. P \in SUBSET Walks BY DEF P
<1>8. EndOfWalk(o, names) \in E BY <1>2, <1>4, <1>5, <1>6, <1>7, WalkReaches
<1> QED BY <1>8 DEF E
=============================================================================
