---------------------------- MODULE CsvRecordsProofs ----------------------------
(***************************************************************************)
(* Proofs about CsvRecords: the types of the object, and that every read   *)
(* makes progress, whatever the file holds. Both rest on what one call of  *)
(* CsviReadField does, and that on the recursive functions it is made of.  *)
(***************************************************************************)
EXTENDS CsvRecords, TLAPS, FiniteSetTheorems, NaturalsInduction, SequenceTheorems

-----------------------------------------------------------------------------
(* Recursive functions.                                                      *)

(* Induction on the numbers up to N.                                         *)
LEMMA Induction ==
  ASSUME NEW N \in Nat, NEW T, 0 \in T,
         \A i \in Nat : i < N /\ i \in T => i + 1 \in T
  PROVE  \A i \in 0..N : i \in T
<1> DEFINE Missing == {i \in 0..N : i \notin T}
           R == OpToRel(<, Nat)
<1>1. R = {ss \in Nat \X Nat : ss[1] < ss[2]} BY DEF OpToRel
<1>2. IsWellFoundedOn(R, Nat) BY NatLessThanWellFounded
<1>3. ASSUME Missing # {} PROVE FALSE
  <2> HIDE DEF R
  <2>1. Missing \subseteq Nat OBVIOUS
  <2>2. PICK x \in Missing : \A y \in Missing : ~(<<y, x>> \in R)
    <3> HIDE DEF Missing
    <3> QED BY <1>2, <1>3, <2>1, WFMin
  <2>3. x \in 0..N /\ x \notin T /\ x # 0 OBVIOUS
  <2>4. x - 1 \in Nat /\ x - 1 < N /\ x - 1 + 1 = x /\ <<x - 1, x>> \in R BY <1>1, <2>3
  <2>5. x - 1 \notin Missing BY <2>2, <2>4
  <2> QED BY <2>3, <2>4, <2>5
<1> QED BY <1>3

(* A function that gives each next value from the one before exists.         *)
Steps(N, V) == [(1..N) \X V -> V]
Follows(N, V, v, F, g) ==
  g \in [0..N -> V] /\ g[0] = v /\ \A i \in 1..N : g[i] = F[<<i, g[i - 1]>>]

LEMMA Recursion ==
  ASSUME NEW N \in Nat, NEW V, NEW v \in V, NEW F \in Steps(N, V)
  PROVE  \E g : Follows(N, V, v, F, g)
<1> USE DEF Steps
<1> DEFINE Goes(n, g) == g[0] = v /\ \A i \in 1..n : g[i] = F[<<i, g[i - 1]>>]
           T == {n \in Nat : \E g \in [0..n -> V] : Goes(n, g)}
<1>1. 0 \in T
  <2> DEFINE g == [i \in 0..0 |-> v]
  <2>1. g \in [0..0 -> V] OBVIOUS
  <2>2. g[0] = v OBVIOUS
  <2>3. Goes(0, g) BY <2>2
  <2> HIDE DEF g, Goes
  <2> QED BY <2>1, <2>3
<1>2. ASSUME NEW n \in Nat, n < N, n \in T PROVE n + 1 \in T
  <2>1. PICK g \in [0..n -> V] : Goes(n, g)
    BY <1>2
  <2> DEFINE e == F[<<n + 1, g[n]>>]
             h == [i \in 0..n + 1 |-> IF i = n + 1 THEN e ELSE g[i]]
  <2>2. e \in V BY <1>2, <2>1
  <2>3. h \in [0..n + 1 -> V] BY <2>1, <2>2
  <2>4. h[0] = v BY <2>1
  <2>5. ASSUME NEW i \in 1..n + 1 PROVE h[i] = F[<<i, h[i - 1]>>]
    <3>1. CASE i = n + 1
      <4>1. h[i] = e /\ h[i - 1] = g[n] BY <3>1
      <4> QED BY <3>1, <4>1
    <3>2. CASE i # n + 1
      <4>1. i \in 1..n /\ h[i] = g[i] /\ h[i - 1] = g[i - 1] BY <3>2
      <4> QED BY <2>1, <4>1
    <3> QED BY <3>1, <3>2
  <2>6. Goes(n + 1, h) BY <2>4, <2>5
  <2> HIDE DEF h, Goes
  <2> QED BY <2>3, <2>6
<1>3. N \in T
  <2>1. \A i \in Nat : i < N /\ i \in T => i + 1 \in T BY <1>2
  <2> HIDE DEF T
  <2>2. \A n \in 0..N : n \in T BY <1>1, <2>1, Induction
  <2>3. N \in 0..N OBVIOUS
  <2> QED BY <2>2, <2>3
<1> QED BY <1>3 DEF Follows

-----------------------------------------------------------------------------
(* What a call of CsviReadField may do to the object.                        *)

Object ==
  [mode : {"closed", "read", "write", "append"}, sep : Characters, always : BOOLEAN,
   n : Nat, cur : Nat, pos : Nat, eof : BOOLEAN, err : Errors, after : Nat,
   records : Nat, filter : Seq(Nat)]

FieldResult == [obj : Object, text : Seq(Characters) \cup {Unset}]

(* The reader changes its place, its count, its error and the end mark only. *)
Kept(o, q) ==
  /\ q.mode = o.mode /\ q.sep = o.sep /\ q.always = o.always /\ q.n = o.n
  /\ q.after = o.after /\ q.records = o.records /\ q.filter = o.filter

(* It ends at p with this error or none.                                     *)
EndsAt(o, r, p, errors) ==
  /\ r \in FieldResult /\ Kept(o, r.obj)
  /\ r.obj.pos = p /\ r.obj.err \in errors

LEMMA FailedType ==
  ASSUME NEW o \in Object, NEW p \in Nat, NEW error \in Errors
  PROVE  EndsAt(o, Failed(o, p, error), p, {error})
BY DEF Failed, EndsAt, Kept, FieldResult, Object

LEMMA AdvancedType ==
  ASSUME NEW cur \in Nat, NEW count \in Nat
  PROVE  Advanced(cur, count) \in Nat
BY DwordAssumption DEF Advanced

LEMMA CompletedType ==
  ASSUME NEW o \in Object, NEW p \in Nat, NEW t \in Seq(Characters), NEW c, NEW b \in BOOLEAN
  PROVE  EndsAt(o, Completed(o, p, t, c, b), p, {"NO_ERROR", "END_OF_LINE"})
<1>1. Advanced(o.cur, 1) \in Nat BY AdvancedType DEF Object
<1>2. {"NO_ERROR", "END_OF_LINE"} \subseteq Errors BY DEF Errors
<1>3. (IF ~b /\ c = EndOfLine THEN "END_OF_LINE" ELSE "NO_ERROR") \in {"NO_ERROR", "END_OF_LINE"}
  OBVIOUS
<1> QED BY <1>1, <1>2, <1>3 DEF Completed, EndsAt, Kept, FieldResult, Object

LEMMA CharAtType ==
  ASSUME NEW f \in Seq(Characters), NEW p \in Nat
  PROVE  CharAt(f, p) \in Characters
BY CharactersDiffer DEF CharAt

(* A round of the scan in an enquoted field, given what the rounds one and   *)
(* two characters further return.                                            *)
Round(f, o, b, remaining, i, p, one, two) ==
  LET c == CharAt(f, p)
      d == CharAt(f, p + 1)
  IN  IF i = remaining THEN Failed(o, p, "UNEXPECTED_EOF")
      ELSE IF c # Quote THEN Prefixed(c, one)
      ELSE IF i + 1 >= remaining THEN Failed(o, p + 1, "UNEXPECTED_EOF")
      ELSE IF d = Quote THEN Prefixed(Quote, two)
      ELSE IF d = o.sep \/ (d = EndOfLine /\ (~b \/ IsLastField(o)))
      THEN Completed(o, p + 2, <<>>, d, b)
      ELSE Failed(o, p + 2, "FIELD_TERMINATOR")

ScanEquation(f, o, b, remaining, g) ==
  g = [w \in [i : 0..remaining, p : Nat] |->
        Round(f, o, b, remaining, w.i, w.p,
              g[[i |-> w.i + 1, p |-> w.p + 1]], g[[i |-> w.i + 1, p |-> w.p + 2]])]

LEMMA QuotedFieldIsScan ==
  ASSUME NEW f, NEW o, NEW b
  PROVE  QuotedField(f, o, b) =
           (CHOOSE g : ScanEquation(f, o, b, Len(f) - (o.pos + 1), g))
             [[i |-> 0, p |-> o.pos + 1]]
BY DEF QuotedField, ScanEquation, Round
ScanErrors == {"UNEXPECTED_EOF", "QUOTE_IN_FIELD", "FIELD_TERMINATOR", "NO_ERROR", "END_OF_LINE"}

(* The results that end at p or behind it.                                   *)
Behind(o, p) ==
  {r \in FieldResult : Kept(o, r.obj) /\ r.obj.pos >= p /\ r.obj.err \in ScanErrors}

LEMMA EndsBehind ==
  ASSUME NEW o, NEW p \in Nat, NEW q \in Nat, q >= p, NEW r,
         NEW errors, errors \subseteq ScanErrors, EndsAt(o, r, q, errors)
  PROVE  r \in Behind(o, p)
BY DEF EndsAt, Behind

LEMMA BehindFurther ==
  ASSUME NEW o, NEW p \in Nat, NEW q \in Nat, q >= p, NEW r \in Behind(o, q)
  PROVE  r \in Behind(o, p)
<1>1. r.obj.pos \in Nat BY DEF Behind, FieldResult, Object
<1> QED BY <1>1 DEF Behind

LEMMA PrefixedType ==
  ASSUME NEW c \in Characters, NEW r \in FieldResult
  PROVE  Prefixed(c, r) \in FieldResult /\ Prefixed(c, r).obj = r.obj
<1>1. CASE r.text = Unset
  <2>1. Prefixed(c, r) = r BY <1>1 DEF Prefixed, FieldResult
  <2> QED BY <2>1
<1>2. CASE r.text # Unset
  <2>1. r.text \in Seq(Characters) BY <1>2 DEF FieldResult
  <2>2. <<c>> \o r.text \in Seq(Characters)
    <3>1. <<c>> \in Seq(Characters) OBVIOUS
    <3> QED BY <2>1, <3>1
  <2> QED BY <1>2, <2>2 DEF Prefixed, FieldResult
<1> QED BY <1>1, <1>2

LEMMA RoundType ==
  ASSUME NEW f \in Seq(Characters), NEW o \in Object, NEW b \in BOOLEAN, NEW remaining \in Int,
         NEW i \in Nat, NEW p \in Nat, NEW one \in FieldResult, NEW two \in FieldResult
  PROVE  Round(f, o, b, remaining, i, p, one, two) \in FieldResult
<1>1. \A q \in {p, p + 1, p + 2} : \A e \in ScanErrors : Failed(o, q, e) \in FieldResult
  <2>1. ScanErrors \subseteq Errors BY DEF ScanErrors, Errors
  <2> SUFFICES ASSUME NEW q \in {p, p + 1, p + 2}, NEW e \in ScanErrors
               PROVE  Failed(o, q, e) \in FieldResult
    OBVIOUS
  <2>2. q \in Nat /\ e \in Errors BY <2>1
  <2>3. EndsAt(o, Failed(o, q, e), q, {e}) BY <2>2, FailedType
  <2> QED BY <2>3 DEF EndsAt
<1>2. \A c : Completed(o, p + 2, <<>>, c, b) \in FieldResult
  <2>1. <<>> \in Seq(Characters) /\ p + 2 \in Nat OBVIOUS
  <2> QED BY <2>1, CompletedType DEF EndsAt
<1>3. Prefixed(CharAt(f, p), one) \in FieldResult /\ Prefixed(Quote, two) \in FieldResult
  BY CharAtType, PrefixedType, CharactersDiffer
<1> QED BY <1>1, <1>2, <1>3 DEF Round, ScanErrors

LEMMA RoundBehind ==
  ASSUME NEW f \in Seq(Characters), NEW o \in Object, NEW b \in BOOLEAN, NEW remaining \in Int,
         NEW i \in Nat, NEW p \in Nat, NEW one, NEW two,
         i # remaining => one \in Behind(o, p) /\ two \in Behind(o, p)
  PROVE  Round(f, o, b, remaining, i, p, one, two) \in Behind(o, p)
<1>1. \A q \in {p, p + 1, p + 2} : \A e \in ScanErrors : Failed(o, q, e) \in Behind(o, p)
  <2> SUFFICES ASSUME NEW q \in {p, p + 1, p + 2}, NEW e \in ScanErrors
               PROVE  Failed(o, q, e) \in Behind(o, p)
    OBVIOUS
  <2>1. e \in Errors /\ {e} \subseteq ScanErrors BY DEF ScanErrors, Errors
  <2>2. q \in Nat /\ q >= p OBVIOUS
  <2>3. EndsAt(o, Failed(o, q, e), q, {e}) BY <2>1, <2>2, FailedType
  <2> QED BY <2>1, <2>2, <2>3, EndsBehind
<1>2. \A c : Completed(o, p + 2, <<>>, c, b) \in Behind(o, p)
  <2>1. {"NO_ERROR", "END_OF_LINE"} \subseteq ScanErrors /\ p + 2 \in Nat /\ p + 2 >= p
    BY DEF ScanErrors
  <2>2. <<>> \in Seq(Characters) OBVIOUS
  <2> QED BY <2>1, <2>2, CompletedType, EndsBehind
<1>3. i # remaining => /\ Prefixed(CharAt(f, p), one) \in Behind(o, p)
                       /\ Prefixed(Quote, two) \in Behind(o, p)
  BY CharAtType, PrefixedType, CharactersDiffer DEF Behind
<1> QED BY <1>1, <1>2, <1>3 DEF Round, ScanErrors

(* The scan is well defined.                                                 *)
LEMMA ScanExists ==
  ASSUME NEW f \in Seq(Characters), NEW o \in Object, NEW b \in BOOLEAN, NEW remaining \in Nat
  PROVE  \E g : ScanEquation(f, o, b, remaining, g)
<1> DEFINE V == [Nat -> FieldResult]
           At(i, p, v) == Round(f, o, b, remaining, i, p, v[p + 1], v[p + 2])
           F == [x \in (1..remaining) \X V |-> [p \in Nat |-> At(remaining - x[1], p, x[2])]]
           Stop == [p \in Nat |-> Failed(o, p, "UNEXPECTED_EOF")]
<1>1. Stop \in V
  <2>1. "UNEXPECTED_EOF" \in Errors BY DEF Errors
  <2>2. \A p \in Nat : Failed(o, p, "UNEXPECTED_EOF") \in FieldResult
    BY <2>1, FailedType DEF EndsAt
  <2> QED BY <2>2
<1>2. ASSUME NEW i \in Nat, NEW v \in V PROVE [p \in Nat |-> At(i, p, v)] \in V
  <2>1. \A p \in Nat : At(i, p, v) \in FieldResult
    <3> SUFFICES ASSUME NEW p \in Nat PROVE At(i, p, v) \in FieldResult
      OBVIOUS
    <3>1. v[p + 1] \in FieldResult /\ v[p + 2] \in FieldResult OBVIOUS
    <3> QED BY <3>1, RoundType
  <2> HIDE DEF At
  <2> QED BY <2>1
<1>3. F \in [(1..remaining) \X V -> V]
  <2>1. \A x \in (1..remaining) \X V : remaining - x[1] \in Nat /\ x[2] \in V OBVIOUS
  <2>2. \A x \in (1..remaining) \X V : [p \in Nat |-> At(remaining - x[1], p, x[2])] \in V
    <3> HIDE DEF At, V
    <3> QED BY <1>2, <2>1
  <2> HIDE DEF At, V
  <2> QED BY <2>2
<1>4. PICK h \in [0..remaining -> V] :
        h[0] = Stop /\ \A i \in 1..remaining : h[i] = F[<<i, h[i - 1]>>]
  <2> HIDE DEF F, Stop, V
  <2>1. F \in Steps(remaining, V) BY <1>3 DEF Steps
  <2>2. \E h : Follows(remaining, V, Stop, F, h) BY <1>1, <2>1, Recursion
  <2> QED BY <2>2 DEF Follows
<1> DEFINE W == [i : 0..remaining, p : Nat]
           g == [w \in W |-> h[remaining - w.i][w.p]]
<1>5. ASSUME NEW w \in W
      PROVE  g[w] = Round(f, o, b, remaining, w.i, w.p,
                          g[[i |-> w.i + 1, p |-> w.p + 1]], g[[i |-> w.i + 1, p |-> w.p + 2]])
  <2>1. w.i \in 0..remaining /\ w.p \in Nat /\ g[w] = h[remaining - w.i][w.p] OBVIOUS
  <2>2. CASE w.i = remaining
    <3>1. g[w] = Failed(o, w.p, "UNEXPECTED_EOF") BY <1>4, <2>1, <2>2
    <3> QED BY <2>2, <3>1 DEF Round
  <2>3. CASE w.i # remaining
    <3> DEFINE i == remaining - w.i
    <3>1. i \in 1..remaining /\ i - 1 = remaining - (w.i + 1) /\ remaining - i = w.i BY <2>1, <2>3
    <3>2. h[i - 1] \in V BY <1>4, <3>1
    <3>3. h[i] = [p \in Nat |-> At(remaining - i, p, h[i - 1])]
      <4>1. <<i, h[i - 1]>> \in (1..remaining) \X V BY <3>1, <3>2
      <4>2. F[<<i, h[i - 1]>>] = [p \in Nat |-> At(remaining - i, p, h[i - 1])]
        <5> HIDE DEF At, V, i
        <5> QED BY <4>1
      <4> QED BY <1>4, <3>1, <4>2
    <3>4. h[i][w.p] = At(w.i, w.p, h[i - 1])
      <4> HIDE DEF At, i
      <4> QED BY <2>1, <3>1, <3>3
    <3>5. \A count \in {1, 2} :
            g[[i |-> w.i + 1, p |-> w.p + count]] = h[i - 1][w.p + count]
      <4> SUFFICES ASSUME NEW count \in {1, 2}
                   PROVE  g[[i |-> w.i + 1, p |-> w.p + count]] = h[i - 1][w.p + count]
        OBVIOUS
      <4>1. [i |-> w.i + 1, p |-> w.p + count] \in W BY <2>1, <2>3
      <4> QED BY <3>1, <4>1
    <3> QED BY <2>1, <3>4, <3>5
  <2> QED BY <2>2, <2>3
<1>6. ScanEquation(f, o, b, remaining, g)
  <2> DEFINE Value(w) == Round(f, o, b, remaining, w.i, w.p,
                          g[[i |-> w.i + 1, p |-> w.p + 1]], g[[i |-> w.i + 1, p |-> w.p + 2]])
  <2>1. g = [w \in W |-> Value(w)]
    <3>1. \A w \in W : g[w] = Value(w) BY <1>5
    <3> HIDE DEF Value
    <3>2. g = [w \in W |-> g[w]] OBVIOUS
    <3> QED BY <3>1, <3>2
  <2> HIDE DEF g
  <2> QED BY <2>1 DEF ScanEquation
<1> QED BY <1>6
LEMMA ScanBehind ==
  ASSUME NEW f \in Seq(Characters), NEW o \in Object, NEW b \in BOOLEAN, NEW remaining \in Nat,
         NEW g, ScanEquation(f, o, b, remaining, g), NEW q \in Nat
  PROVE  g[[i |-> 0, p |-> q]] \in Behind(o, q)
<1> DEFINE T == {k \in Nat : k <= remaining =>
                   \A p \in Nat : g[[i |-> remaining - k, p |-> p]] \in Behind(o, p)}
           Value(w) == Round(f, o, b, remaining, w.i, w.p,
                         g[[i |-> w.i + 1, p |-> w.p + 1]], g[[i |-> w.i + 1, p |-> w.p + 2]])
<1>1. ASSUME NEW i \in 0..remaining, NEW p \in Nat
      PROVE  g[[i |-> i, p |-> p]] =
               Round(f, o, b, remaining, i, p,
                     g[[i |-> i + 1, p |-> p + 1]], g[[i |-> i + 1, p |-> p + 2]])
  <2> DEFINE w == [i |-> i, p |-> p]
  <2>1. w \in [i : 0..remaining, p : Nat] /\ w.i = i /\ w.p = p OBVIOUS
  <2>2. g = [x \in [i : 0..remaining, p : Nat] |-> Value(x)] BY DEF ScanEquation
  <2>3. g[w] = Value(w)
    <3> HIDE DEF Value, w
    <3> QED BY <2>1, <2>2
  <2> QED BY <2>1, <2>3
<1>2. 0 \in T
  <2> SUFFICES ASSUME NEW p \in Nat PROVE g[[i |-> remaining - 0, p |-> p]] \in Behind(o, p)
    OBVIOUS
  <2>1. remaining - 0 = remaining /\ remaining \in 0..remaining OBVIOUS
  <2>2. g[[i |-> remaining, p |-> p]] = Failed(o, p, "UNEXPECTED_EOF") BY <1>1, <2>1 DEF Round
  <2>3. "UNEXPECTED_EOF" \in Errors /\ {"UNEXPECTED_EOF"} \subseteq ScanErrors
    BY DEF ScanErrors, Errors
  <2>4. Failed(o, p, "UNEXPECTED_EOF") \in Behind(o, p)
    <3>1. EndsAt(o, Failed(o, p, "UNEXPECTED_EOF"), p, {"UNEXPECTED_EOF"}) BY <2>3, FailedType
    <3>2. p >= p OBVIOUS
    <3> HIDE DEF Value, T
    <3> QED BY <2>3, <3>1, <3>2, EndsBehind
  <2> QED BY <2>1, <2>2, <2>4
<1>3. ASSUME NEW k \in Nat, k < remaining, k \in T PROVE k + 1 \in T
  <2> SUFFICES ASSUME NEW p \in Nat PROVE g[[i |-> remaining - (k + 1), p |-> p]] \in Behind(o, p)
    OBVIOUS
  <2> DEFINE i == remaining - (k + 1)
  <2>1. i \in 0..remaining /\ i \in Nat /\ i + 1 = remaining - k /\ k <= remaining BY <1>3
  <2>2. \A count \in {1, 2} : g[[i |-> i + 1, p |-> p + count]] \in Behind(o, p)
    <3> SUFFICES ASSUME NEW count \in {1, 2}
                 PROVE  g[[i |-> i + 1, p |-> p + count]] \in Behind(o, p)
      OBVIOUS
    <3>1. \A q1 \in Nat : g[[i |-> remaining - k, p |-> q1]] \in Behind(o, q1) BY <1>3, <2>1
    <3>2. p + count \in Nat /\ p + count >= p OBVIOUS
    <3> HIDE DEF i
    <3>3. g[[i |-> i + 1, p |-> p + count]] \in Behind(o, p + count) BY <2>1, <3>1, <3>2
    <3> QED BY <3>2, <3>3, BehindFurther
  <2>3. g[[i |-> i, p |-> p]] \in Behind(o, p)
    <3> HIDE DEF i
    <3> QED BY <1>1, <2>1, <2>2, RoundBehind
  <2> QED BY <2>3
<1>4. remaining \in T
  <2>1. \A k \in Nat : k < remaining /\ k \in T => k + 1 \in T BY <1>3
  <2> HIDE DEF T
  <2>2. \A k \in 0..remaining : k \in T BY <1>2, <2>1, Induction
  <2>3. remaining \in 0..remaining OBVIOUS
  <2> QED BY <2>2, <2>3
<1>5. remaining - remaining = 0 OBVIOUS
<1> QED BY <1>4, <1>5

LEMMA QuotedFieldBehind ==
  ASSUME NEW f \in Seq(Characters), NEW o \in Object, NEW b \in BOOLEAN, o.pos < Len(f)
  PROVE  QuotedField(f, o, b) \in Behind(o, o.pos + 1)
<1> DEFINE remaining == Len(f) - (o.pos + 1)
           g == CHOOSE g : ScanEquation(f, o, b, remaining, g)
<1>1. remaining \in Nat /\ o.pos + 1 \in Nat BY LenProperties DEF Object
<1> HIDE DEF remaining
<1>2. ScanEquation(f, o, b, remaining, g)
  <2>1. \E h : ScanEquation(f, o, b, remaining, h) BY <1>1, ScanExists
  <2> QED BY <2>1
<1>3. g[[i |-> 0, p |-> o.pos + 1]] \in Behind(o, o.pos + 1)
  <2> HIDE DEF g
  <2> QED BY <1>1, <1>2, ScanBehind
<1> QED BY <1>3, QuotedFieldIsScan DEF remaining

LEMMA LeastOf ==
  ASSUME NEW S \in SUBSET Nat, S # {}
  PROVE  Min(S) \in S /\ \A x \in S : Min(S) <= x
<1> DEFINE R == OpToRel(<, Nat)
<1>1. R = {ss \in Nat \X Nat : ss[1] < ss[2]} BY DEF OpToRel
<1>2. IsWellFoundedOn(R, Nat) BY NatLessThanWellFounded
<1> HIDE DEF R
<1>3. PICK x \in S : \A y \in S : ~(<<y, x>> \in R) BY <1>2, WFMin
<1>4. \A y \in S : x <= y
  <2>1. \A y \in S : ~(y < x) BY <1>1, <1>3
  <2> QED BY <1>3, <2>1
<1> QED BY <1>3, <1>4 DEF Min

LEMMA PlainFieldBehind ==
  ASSUME NEW f \in Seq(Characters), NEW o \in Object, NEW b \in BOOLEAN, o.pos < Len(f)
  PROVE  PlainField(f, o, b) \in Behind(o, o.pos + 1)
<1> DEFINE Ends(c) == c \in {Quote, o.sep, EndOfLine}
           I == {i \in o.pos + 2..Len(f) : Ends(f[i])}
           k == SelectInSubSeq(f, o.pos + 2, Len(f), LAMBDA c : Ends(c))
           p == o.pos + 1
<1>1. o.pos \in Nat /\ Len(f) \in Nat /\ p \in Nat BY LenProperties DEF Object
<1>2. k = IF I # {} THEN Min(I) ELSE 0 BY DEF SelectInSubSeq
<1>3. k = 0 \/ k \in o.pos + 2..Len(f)
  <2>1. I \in SUBSET Nat BY <1>1
  <2> HIDE DEF k
  <2>2. I # {} => Min(I) \in I
    <3> HIDE DEF I
    <3> QED BY <2>1, LeastOf
  <2> QED BY <1>2, <2>2
<1>4. ASSUME NEW q \in Nat, q >= p, NEW e \in ScanErrors PROVE Failed(o, q, e) \in Behind(o, p)
  <2>1. e \in Errors /\ {e} \subseteq ScanErrors BY DEF ScanErrors, Errors
  <2> QED BY <1>1, <1>4, <2>1, FailedType, EndsBehind
<1>5. ASSUME NEW q \in Nat, q >= p, NEW t \in Seq(Characters), NEW c
      PROVE  Completed(o, q, t, c, b) \in Behind(o, p)
  <2>1. {"NO_ERROR", "END_OF_LINE"} \subseteq ScanErrors BY DEF ScanErrors
  <2> QED BY <1>1, <1>5, <2>1, CompletedType, EndsBehind
<1>6. CASE k = 0
  <2>1. PlainField(f, o, b) = Failed(o, Len(f), "UNEXPECTED_EOF") BY <1>6 DEF PlainField
  <2>2. Len(f) >= p /\ "UNEXPECTED_EOF" \in ScanErrors BY <1>1 DEF ScanErrors
  <2> QED BY <1>1, <1>4, <2>1, <2>2
<1>7. CASE k # 0
  <2>1. k \in o.pos + 2..Len(f) /\ k \in Nat /\ k >= p BY <1>1, <1>3, <1>7
  <2>2. SubSeq(f, o.pos + 1, k - 1) \in Seq(Characters)
    <3> HIDE DEF k
    <3> QED BY <1>1, <2>1, SubSeqProperties
  <2>3. PlainField(f, o, b) \in
          {Failed(o, k, "QUOTE_IN_FIELD"), Failed(o, k, "FIELD_TERMINATOR"),
           Completed(o, k, SubSeq(f, o.pos + 1, k - 1), f[k], b)}
    BY <1>7 DEF PlainField
  <2>4. {"QUOTE_IN_FIELD", "FIELD_TERMINATOR"} \subseteq ScanErrors BY DEF ScanErrors
  <2> HIDE DEF k
  <2> QED BY <1>4, <1>5, <2>1, <2>2, <2>3, <2>4
<1> QED BY <1>6, <1>7
(* A field is read, or the end of the file is reported and nothing read.     *)
AtEnd(f, o, r) ==
  /\ o.eof \/ o.pos >= Len(f)
  /\ r \in FieldResult /\ Kept(o, r.obj)
  /\ r.obj.pos = o.pos /\ r.obj.err = "END_OF_FILE"

FieldOutcome(f, o, r) ==
  AtEnd(f, o, r) \/ (o.pos < Len(f) /\ r \in Behind(o, o.pos + 1))

LEMMA ReadFieldOutcome ==
  ASSUME NEW f \in Seq(Characters), NEW o \in Object, NEW b \in BOOLEAN
  PROVE  FieldOutcome(f, o, CsviReadField(f, o, b))
<1> DEFINE r == CsviReadField(f, o, b)
           p == o.pos + 1
           c == CharAt(f, o.pos)
<1>1. o.pos \in Nat /\ Len(f) \in Nat /\ p \in Nat /\ o.eof \in BOOLEAN BY LenProperties DEF Object
<1>2. CASE o.eof \/ o.pos >= Len(f)
  <2> DEFINE e == [o EXCEPT !.eof = TRUE]
  <2>1. r = Failed(e, o.pos, "END_OF_FILE") BY <1>2 DEF CsviReadField
  <2>2. e \in Object /\ Kept(o, e) BY DEF Object, Kept
  <2>3. "END_OF_FILE" \in Errors BY DEF Errors
  <2>4. EndsAt(e, r, o.pos, {"END_OF_FILE"})
    <3> HIDE DEF e, r
    <3> QED BY <1>1, <2>1, <2>2, <2>3, FailedType
  <2>5. AtEnd(f, o, r)
    <3> HIDE DEF e, r
    <3> QED BY <1>2, <2>2, <2>4 DEF EndsAt, AtEnd, Kept
  <2> QED BY <2>5 DEF FieldOutcome
<1>3. CASE ~(o.eof \/ o.pos >= Len(f))
  <2>1. o.pos < Len(f) BY <1>1, <1>3
  <2>2. \A e \in ScanErrors : Failed(o, p, e) \in Behind(o, p)
    <3> SUFFICES ASSUME NEW e \in ScanErrors PROVE Failed(o, p, e) \in Behind(o, p)
      OBVIOUS
    <3>1. e \in Errors /\ {e} \subseteq ScanErrors /\ p >= p BY <1>1 DEF ScanErrors, Errors
    <3> HIDE DEF p
    <3>2. EndsAt(o, Failed(o, p, e), p, {e}) BY <1>1, <3>1, FailedType
    <3> QED BY <1>1, <3>1, <3>2, EndsBehind
  <2>3. Completed(o, p, <<>>, c, b) \in Behind(o, p)
    <3>1. <<>> \in Seq(Characters) /\ p >= p BY <1>1
    <3>2. {"NO_ERROR", "END_OF_LINE"} \subseteq ScanErrors BY DEF ScanErrors
    <3> HIDE DEF p, c
    <3>3. EndsAt(o, Completed(o, p, <<>>, c, b), p, {"NO_ERROR", "END_OF_LINE"})
      BY <1>1, <3>1, CompletedType
    <3> QED BY <1>1, <3>1, <3>2, <3>3, EndsBehind
  <2>4. QuotedField(f, o, b) \in Behind(o, p) /\ PlainField(f, o, b) \in Behind(o, p)
    BY <2>1, QuotedFieldBehind, PlainFieldBehind
  <2>5. r \in {Failed(o, p, "END_OF_LINE"), Failed(o, p, "FIELD_TERMINATOR"),
               Failed(o, p, "UNEXPECTED_EOF"), Completed(o, p, <<>>, c, b),
               QuotedField(f, o, b), PlainField(f, o, b)}
    BY <1>3 DEF CsviReadField
  <2>6. {"END_OF_LINE", "FIELD_TERMINATOR", "UNEXPECTED_EOF"} \subseteq ScanErrors
    BY DEF ScanErrors
  <2>7. r \in Behind(o, p)
    <3> HIDE DEF r, p, c
    <3> QED BY <2>2, <2>3, <2>4, <2>5, <2>6
  <2> QED BY <2>1, <2>7 DEF FieldOutcome
<1> QED BY <1>2, <1>3

LEMMA OutcomeType ==
  ASSUME NEW f \in Seq(Characters), NEW o \in Object, NEW r, FieldOutcome(f, o, r)
  PROVE  /\ r \in FieldResult /\ Kept(o, r.obj) /\ r.obj.pos >= o.pos
         /\ r.obj.err \in ScanErrors \cup {"END_OF_FILE"}
         /\ r.obj.err = "END_OF_FILE" \/ r.obj.pos > o.pos
<1>1. o.pos \in Nat BY DEF Object
<1>2. r \in FieldResult => r.obj.pos \in Nat BY DEF FieldResult, Object
<1> QED BY <1>1, <1>2 DEF FieldOutcome, AtEnd, Behind

(* The object that the k-th field is read with.                              *)
Before(o, read, k) == IF k = 1 THEN o ELSE read[k - 1].obj

ReadEquation(f, o, b, count, read) ==
  read = [k \in 1..count |-> CsviReadField(f, Before(o, read, k), b)]

LEMMA ReadExists ==
  ASSUME NEW f \in Seq(Characters), NEW o \in Object, NEW b \in BOOLEAN, NEW count \in Nat
  PROVE  \E read : ReadEquation(f, o, b, count, read)
<1> DEFINE F == [x \in (1..count) \X FieldResult |-> CsviReadField(f, x[2].obj, b)]
           start == [obj |-> o, text |-> Unset]
<1>1. start \in FieldResult BY DEF FieldResult
<1>2. F \in Steps(count, FieldResult)
  <2>1. \A v \in FieldResult : CsviReadField(f, v.obj, b) \in FieldResult
    <3> SUFFICES ASSUME NEW v \in FieldResult PROVE CsviReadField(f, v.obj, b) \in FieldResult
      OBVIOUS
    <3>1. v.obj \in Object BY DEF FieldResult
    <3> QED BY <3>1, ReadFieldOutcome, OutcomeType
  <2>2. \A x \in (1..count) \X FieldResult : x[2] \in FieldResult OBVIOUS
  <2> QED BY <2>1, <2>2 DEF Steps
<1>3. PICK g : Follows(count, FieldResult, start, F, g)
  <2> HIDE DEF F, start
  <2> QED BY <1>1, <1>2, Recursion
<1> DEFINE read == [k \in 1..count |-> g[k]]
           Value(k) == CsviReadField(f, Before(o, read, k), b)
<1>4. ASSUME NEW k \in 1..count PROVE read[k] = Value(k)
  <2>1. k - 1 \in 0..count /\ g[k - 1] \in FieldResult BY <1>3 DEF Follows
  <2>2. <<k, g[k - 1]>> \in (1..count) \X FieldResult BY <2>1
  <2>3. g[k] = F[<<k, g[k - 1]>>]
    <3> HIDE DEF F, start
    <3> QED BY <1>3 DEF Follows
  <2>4. g[k] = CsviReadField(f, g[k - 1].obj, b) BY <2>2, <2>3
  <2>5. g[k - 1].obj = Before(o, read, k)
    <3>1. CASE k = 1
      <4>1. g[0] = start
        <5> HIDE DEF F, start
        <5> QED BY <1>3 DEF Follows
      <4> QED BY <3>1, <4>1 DEF Before
    <3>2. CASE k # 1
      <4>1. k - 1 \in 1..count BY <3>2
      <4> QED BY <3>2, <4>1 DEF Before
    <3> QED BY <3>1, <3>2
  <2> QED BY <2>4, <2>5
<1>5. read = [k \in 1..count |-> Value(k)]
  <2> HIDE DEF Value
  <2> QED BY <1>4
<1>6. ReadEquation(f, o, b, count, read)
  <2> HIDE DEF read
  <2> QED BY <1>5 DEF ReadEquation
<1> QED BY <1>6

(* What the record and the header loop find.                                 *)
LEMMA FieldResultsFacts ==
  ASSUME NEW f \in Seq(Characters), NEW o \in Object, NEW b \in BOOLEAN, NEW count \in Nat
  PROVE  LET read == FieldResults(f, o, b, count) IN
         /\ read \in Seq(FieldResult) /\ Len(read) = count
         /\ \A k \in 1..count : /\ Before(o, read, k) \in Object
                                /\ FieldOutcome(f, Before(o, read, k), read[k])
                                /\ Kept(o, read[k].obj)
                                /\ Before(o, read, k).pos >= o.pos
<1> DEFINE read == FieldResults(f, o, b, count)
           T == {j \in Nat : j <= count => \A k \in 1..j :
                   /\ Before(o, read, k) \in Object
                   /\ FieldOutcome(f, Before(o, read, k), read[k])
                   /\ Kept(o, read[k].obj)
                   /\ Before(o, read, k).pos >= o.pos}
<1>1. read = CHOOSE g : ReadEquation(f, o, b, count, g)
  BY DEF FieldResults, ReadEquation, Before
<1>2. ReadEquation(f, o, b, count, read)
  <2> HIDE DEF read
  <2> QED BY <1>1, ReadExists
<1> HIDE DEF read
<1>3. DOMAIN read = 1..count /\ \A k \in 1..count : read[k] = CsviReadField(f, Before(o, read, k), b)
  BY <1>2 DEF ReadEquation
<1>4. 0 \in T OBVIOUS
<1>5. ASSUME NEW j \in Nat, j < count, j \in T PROVE j + 1 \in T
  <2> DEFINE k == j + 1
             q == Before(o, read, k)
  <2>1. k \in 1..count BY <1>5
  <2>2. q \in Object /\ q.pos >= o.pos /\ Kept(o, q)
    <3>1. CASE j = 0
      <4>1. q = o BY <3>1 DEF Before
      <4>2. o.pos \in Nat BY DEF Object
      <4> QED BY <4>1, <4>2 DEF Kept
    <3>2. CASE j # 0
      <4> DEFINE q0 == Before(o, read, j)
      <4>1. /\ q0 \in Object /\ FieldOutcome(f, q0, read[j])
            /\ Kept(o, read[j].obj) /\ q0.pos >= o.pos
        BY <1>5, <3>2
      <4>2. q = read[j].obj BY <3>2 DEF Before
      <4> HIDE DEF q0, q
      <4>3. read[j] \in FieldResult /\ read[j].obj.pos >= q0.pos BY <4>1, OutcomeType
      <4>4. q0.pos \in Nat /\ o.pos \in Nat /\ q.pos \in Nat /\ q \in Object
        BY <4>1, <4>2, <4>3 DEF Object, FieldResult
      <4> QED BY <4>1, <4>2, <4>3, <4>4
    <3> QED BY <3>1, <3>2
  <2> HIDE DEF q
  <2>3. FieldOutcome(f, q, read[k])
    <3>1. FieldOutcome(f, q, CsviReadField(f, q, b)) BY <2>2, ReadFieldOutcome
    <3> QED BY <1>3, <2>1, <3>1 DEF q
  <2>4. Kept(q, read[k].obj) BY <2>2, <2>3, OutcomeType
  <2>5. Kept(o, read[k].obj) BY <2>2, <2>4 DEF Kept
  <2>6. ASSUME NEW i \in 1..j + 1, j + 1 <= count
        PROVE  /\ Before(o, read, i) \in Object
               /\ FieldOutcome(f, Before(o, read, i), read[i])
               /\ Kept(o, read[i].obj)
               /\ Before(o, read, i).pos >= o.pos
    <3>1. CASE i = k BY <2>2, <2>3, <2>5, <3>1 DEF q
    <3>2. CASE i # k
      <4>1. i \in 1..j BY <3>2
      <4> QED BY <1>5, <4>1
    <3> QED BY <3>1, <3>2
  <2> QED BY <2>6
<1>6. count \in T
  <2>1. \A j \in Nat : j < count /\ j \in T => j + 1 \in T BY <1>5
  <2> HIDE DEF T
  <2>2. \A j \in 0..count : j \in T BY <1>4, <2>1, Induction
  <2>3. count \in 0..count OBVIOUS
  <2> QED BY <2>2, <2>3
<1>7. \A k \in 1..count : /\ Before(o, read, k) \in Object
                          /\ FieldOutcome(f, Before(o, read, k), read[k])
                          /\ Kept(o, read[k].obj)
                          /\ Before(o, read, k).pos >= o.pos
  BY <1>6
<1>8. \A k \in 1..count : read[k] \in FieldResult BY <1>7, OutcomeType
<1>9. read = [k \in 1..count |-> read[k]] BY <1>2 DEF ReadEquation
<1>10. read \in [1..count -> FieldResult] BY <1>8, <1>9
<1>11. read \in Seq(FieldResult) BY <1>10, SeqDef
<1>12. Len(read) = count BY <1>3, <1>11, LenProperties
<1> QED BY <1>7, <1>11, <1>12 DEF read
(* The first field that stops a loop, 0 if none does.                        *)
LEMMA StopFacts ==
  ASSUME NEW count \in Nat, NEW read \in Seq(FieldResult), Len(read) = count
  PROVE  LET n == SelectInSeq(read, Stopped) IN
         /\ n \in 0..count
         /\ n # 0 => Stopped(read[n])
         /\ n = 0 => \A k \in 1..count : ~Stopped(read[k])
<1> DEFINE I == {i \in 1..Len(read) : Stopped(read[i])}
<1>1. SelectInSeq(read, Stopped) = IF I # {} THEN Min(I) ELSE 0 BY DEF SelectInSeq
<1>2. I \in SUBSET Nat OBVIOUS
<1>3. I # {} => Min(I) \in I
  <2> HIDE DEF I
  <2> QED BY <1>2, LeastOf
<1> QED BY <1>1, <1>3

(* A record is read, or the end is reported.                                 *)
LEMMA ReadRecordFacts ==
  ASSUME NEW f \in Seq(Characters), NEW o \in Object, o.n > 0
  PROVE  LET r == ReadRecord(f, o) IN
         /\ r.obj \in Object /\ Kept(o, r.obj)
         /\ r.obj.err = "END_OF_FILE" \/ r.obj.pos > o.pos
<1> DEFINE read == FieldResults(f, o, TRUE, o.n)
           bad == SelectInSeq(read, Stopped)
           k == IF bad = 0 THEN o.n ELSE bad
<1>1. ReadRecord(f, o).obj = read[k].obj BY DEF ReadRecord
<1>2. o.n \in Nat /\ o.pos \in Nat BY DEF Object
<1>3. /\ read \in Seq(FieldResult) /\ Len(read) = o.n
      /\ \A j \in 1..o.n : /\ Before(o, read, j) \in Object
                           /\ FieldOutcome(f, Before(o, read, j), read[j])
                           /\ Kept(o, read[j].obj)
                           /\ Before(o, read, j).pos >= o.pos
  BY <1>2, FieldResultsFacts
<1> HIDE DEF read
<1>4. bad \in 0..o.n BY <1>2, <1>3, StopFacts
<1>5. k \in 1..o.n BY <1>2, <1>4
<1> HIDE DEF k
<1>6. /\ read[k] \in FieldResult
      /\ read[k].obj.err = "END_OF_FILE" \/ read[k].obj.pos > Before(o, read, k).pos
  BY <1>3, <1>5, OutcomeType
<1>7. read[k].obj \in Object /\ read[k].obj.pos \in Nat /\ Before(o, read, k).pos \in Nat
  BY <1>3, <1>5, <1>6 DEF FieldResult, Object
<1> QED BY <1>1, <1>2, <1>3, <1>5, <1>6, <1>7

(* The loop over the header ends: each field that is read consumes a         *)
(* character, so one of the first Len(f) + 1 is not read.                    *)
LEMMA ReadHeaderFacts ==
  ASSUME NEW f \in Seq(Characters), NEW o \in Object, o.pos = 0
  PROVE  LET h == CsviReadHeader(f, o) IN
         /\ h.obj \in Object /\ h.obj.n > 0
         /\ h.obj.mode = o.mode /\ h.obj.sep = o.sep
         /\ h.texts \in Seq(Seq(Characters) \cup {Unset})
<1> DEFINE count == Len(f) + 1
           read == FieldResults(f, o, FALSE, count)
           n == SelectInSeq(read, Stopped)
           T == {j \in Nat : j <= count => \A k \in 1..j : read[k].obj.pos >= k}
<1>1. Len(f) \in Nat /\ count \in Nat BY LenProperties
<1>2. /\ read \in Seq(FieldResult) /\ Len(read) = count
      /\ \A k \in 1..count : /\ Before(o, read, k) \in Object
                             /\ FieldOutcome(f, Before(o, read, k), read[k])
                             /\ Kept(o, read[k].obj)
  <2> HIDE DEF count
  <2> QED BY <1>1, FieldResultsFacts
<1> DEFINE h == CsviReadHeader(f, o)
<1>3. /\ h.obj = [read[n].obj EXCEPT !.n = n, !.err = IF @ = "END_OF_LINE" THEN "NO_ERROR" ELSE @]
      /\ h.texts = [k \in 1..n |-> read[k].text]
  BY DEF CsviReadHeader
<1> HIDE DEF read, h
<1>4. n \in 0..count /\ (n = 0 => \A k \in 1..count : ~Stopped(read[k]))
  <2> HIDE DEF count
  <2> QED BY <1>1, <1>2, StopFacts
<1>5. ASSUME n = 0 PROVE FALSE
  <2>1. \A k \in 1..count : read[k].obj.err = "NO_ERROR" BY <1>4, <1>5 DEF Stopped
  <2>2. ASSUME NEW k \in 1..count
        PROVE  /\ Before(o, read, k).pos < Len(f) /\ Before(o, read, k).pos \in Nat
               /\ read[k].obj.pos > Before(o, read, k).pos /\ read[k].obj.pos \in Nat
    <3> DEFINE q == Before(o, read, k)
    <3>1. q \in Object /\ FieldOutcome(f, q, read[k]) /\ read[k].obj.err = "NO_ERROR"
      BY <1>2, <2>1
    <3> HIDE DEF q
    <3>2. q.pos < Len(f) BY <3>1 DEF FieldOutcome, AtEnd
    <3>3. read[k] \in FieldResult /\ read[k].obj.pos > q.pos BY <3>1, OutcomeType
    <3>4. q.pos \in Nat /\ read[k].obj.pos \in Nat BY <3>1, <3>3 DEF FieldResult, Object
    <3> QED BY <3>2, <3>3, <3>4 DEF q
  <2>3. 0 \in T OBVIOUS
  <2>4. ASSUME NEW j \in Nat, j < count, j \in T PROVE j + 1 \in T
    <3>1. j + 1 \in 1..count BY <1>1, <2>4
    <3> HIDE DEF count
    <3>2. read[j + 1].obj.pos > Before(o, read, j + 1).pos /\ Before(o, read, j + 1).pos \in Nat
          /\ read[j + 1].obj.pos \in Nat
      BY <2>2, <3>1
    <3>3. CASE j = 0
      <4>1. \A k \in 1..j + 1 : k = j + 1 BY <3>3
      <4> QED BY <3>2, <3>3, <4>1
    <3>4. CASE j # 0
      <4>1. Before(o, read, j + 1) = read[j].obj BY <3>4 DEF Before
      <4>2. \A k \in 1..j : read[k].obj.pos >= k BY <1>1, <2>4
      <4>3. read[j].obj.pos >= j BY <3>4, <4>2
      <4>4. read[j + 1].obj.pos >= j + 1 BY <3>2, <4>1, <4>3
      <4>5. \A k \in 1..j + 1 : k \in 1..j \/ k = j + 1 OBVIOUS
      <4> QED BY <4>2, <4>4, <4>5
    <3> QED BY <3>3, <3>4
  <2>5. \A j \in 0..count : j \in T
    <3>1. \A j \in Nat : j < count /\ j \in T => j + 1 \in T BY <2>4
    <3> HIDE DEF T, count
    <3> QED BY <1>1, <2>3, <3>1, Induction
  <2>6. count \in 1..count /\ count \in 0..count BY <1>1
  <2>7. Before(o, read, count).pos >= Len(f)
    <3>1. CASE count = 1
      <4>1. Before(o, read, count) = o BY <3>1 DEF Before
      <4> QED BY <1>1, <3>1, <4>1
    <3>2. CASE count # 1
      <4>1. count - 1 \in 1..count /\ count - 1 = Len(f) BY <1>1, <3>2
      <4>2. Before(o, read, count) = read[count - 1].obj BY <3>2 DEF Before
      <4>3. \A k \in 1..count : read[k].obj.pos >= k BY <2>5, <2>6
      <4> QED BY <4>1, <4>2, <4>3
    <3> QED BY <3>1, <3>2
  <2>8. Before(o, read, count).pos < Len(f) /\ Before(o, read, count).pos \in Nat
    <3> HIDE DEF count
    <3> QED BY <2>2, <2>6
  <2> QED BY <1>1, <2>7, <2>8
<1>6. n \in 1..count BY <1>4, <1>5
<1> HIDE DEF n
<1>7. read[n] \in FieldResult /\ Kept(o, read[n].obj) BY <1>2, <1>6, OutcomeType
<1>8. h.obj \in Object /\ h.obj.n = n /\ h.obj.mode = read[n].obj.mode /\ h.obj.sep = read[n].obj.sep
  <2>1. n \in Nat /\ read[n].obj \in Object BY <1>1, <1>6, <1>7 DEF FieldResult
  <2>2. "NO_ERROR" \in Errors BY DEF Errors
  <2> QED BY <1>3, <2>1, <2>2 DEF Object
<1>9. n > 0 BY <1>1, <1>6
<1>10. h.texts \in Seq(Seq(Characters) \cup {Unset})
  <2>1. \A k \in 1..n : k \in 1..count BY <1>1, <1>6 DEF count
  <2>2. \A k \in 1..n : read[k] \in FieldResult BY <1>2, <2>1, OutcomeType
  <2>3. \A k \in 1..n : read[k].text \in Seq(Characters) \cup {Unset} BY <2>2 DEF FieldResult
  <2>4. n \in Nat BY <1>1, <1>6
  <2>5. h.texts \in [1..n -> Seq(Characters) \cup {Unset}] BY <1>3, <2>3
  <2> QED BY <2>4, <2>5, SeqDef
<1> QED BY <1>7, <1>8, <1>9, <1>10 DEF Kept, h

-----------------------------------------------------------------------------
(* What a write appends.                                                     *)

LEMMA FunctionIsSeq ==
  ASSUME NEW n \in Nat, NEW S, NEW s \in [1..n -> S]
  PROVE  s \in Seq(S)
BY SeqDef

FlattenEquation(ss, g) ==
  g = [i \in 1..Len(ss) |-> IF i = 1 THEN ss[i] ELSE g[i - 1] \o ss[i]]

LEMMA FlattenExists ==
  ASSUME NEW S, NEW ss \in Seq(Seq(S))
  PROVE  \E g : FlattenEquation(ss, g)
<1> DEFINE N == Len(ss)
           F == [x \in (1..N) \X Seq(S) |-> IF x[1] = 1 THEN ss[1] ELSE x[2] \o ss[x[1]]]
<1>1. N \in Nat /\ \A i \in 1..N : ss[i] \in Seq(S) BY LenProperties, ElementOfSeq
<1>2. F \in Steps(N, Seq(S))
  <2>1. ASSUME NEW x \in (1..N) \X Seq(S)
        PROVE  (IF x[1] = 1 THEN ss[1] ELSE x[2] \o ss[x[1]]) \in Seq(S)
    <3>1. x[1] \in 1..N /\ x[2] \in Seq(S) /\ ss[x[1]] \in Seq(S) BY <1>1
    <3> QED BY <3>1, ConcatProperties
  <2> HIDE DEF N
  <2> QED BY <2>1 DEF Steps
<1>3. <<>> \in Seq(S) OBVIOUS
<1>4. PICK g : Follows(N, Seq(S), <<>>, F, g)
  <2> HIDE DEF F, N
  <2> QED BY <1>1, <1>2, <1>3, Recursion
<1> DEFINE h == [i \in 1..N |-> g[i]]
           Value(i) == IF i = 1 THEN ss[i] ELSE h[i - 1] \o ss[i]
<1>5. ASSUME NEW i \in 1..N PROVE h[i] = Value(i)
  <2>1. g[i - 1] \in Seq(S)
    <3>1. g \in [0..N -> Seq(S)]
      <4> HIDE DEF F, N
      <4> QED BY <1>4 DEF Follows
    <3>2. i - 1 \in 0..N BY <1>1
    <3> HIDE DEF N
    <3> QED BY <3>1, <3>2
  <2>2. g[i] = F[<<i, g[i - 1]>>]
    <3> HIDE DEF F, N
    <3> QED BY <1>4 DEF Follows
  <2>3. g[i] = IF i = 1 THEN ss[1] ELSE g[i - 1] \o ss[i] BY <2>1, <2>2
  <2>4. CASE i = 1 BY <2>3, <2>4
  <2>5. CASE i # 1
    <3>1. i - 1 \in 1..N BY <1>1, <2>5
    <3> QED BY <2>3, <2>5, <3>1
  <2> QED BY <2>4, <2>5
<1>6. h = [i \in 1..N |-> Value(i)]
  <2> HIDE DEF Value
  <2> QED BY <1>5
<1>7. FlattenEquation(ss, h)
  <2> HIDE DEF h
  <2> QED BY <1>6 DEF FlattenEquation
<1> QED BY <1>7

LEMMA FlattenType ==
  ASSUME NEW S, NEW ss \in Seq(Seq(S))
  PROVE  FlattenSeq(ss) \in Seq(S)
<1> DEFINE N == Len(ss)
           g == CHOOSE g : FlattenEquation(ss, g)
           T == {j \in Nat : 1 <= j /\ j <= N => g[j] \in Seq(S)}
<1>1. N \in Nat /\ \A i \in 1..N : ss[i] \in Seq(S) BY LenProperties, ElementOfSeq
<1>2. FlattenSeq(ss) = IF N = 0 THEN ss ELSE g[N] BY DEF FlattenSeq, FlattenEquation
<1>3. FlattenEquation(ss, g) BY FlattenExists
<1> HIDE DEF g
<1>4. \A i \in 1..N : g[i] = IF i = 1 THEN ss[i] ELSE g[i - 1] \o ss[i] BY <1>3 DEF FlattenEquation
<1> HIDE DEF N
<1>5. 0 \in T OBVIOUS
<1>6. ASSUME NEW j \in Nat, j < N, j \in T PROVE j + 1 \in T
  <2>1. j + 1 \in 1..N BY <1>1, <1>6
  <2>2. CASE j = 0
    <3>1. g[j + 1] = ss[j + 1] BY <1>4, <2>1, <2>2
    <3> QED BY <1>1, <2>1, <3>1
  <2>3. CASE j # 0
    <3>1. g[j] \in Seq(S) BY <1>1, <1>6, <2>3
    <3>2. j + 1 # 1 /\ j + 1 - 1 = j BY <2>3
    <3>3. g[j + 1] = g[j] \o ss[j + 1]
      <4>1. g[j + 1] = IF j + 1 = 1 THEN ss[j + 1] ELSE g[j + 1 - 1] \o ss[j + 1] BY <1>4, <2>1
      <4> QED BY <3>2, <4>1
    <3>4. ss[j + 1] \in Seq(S) BY <1>1, <2>1
    <3>5. g[j + 1] \in Seq(S) BY <3>1, <3>3, <3>4, ConcatProperties
    <3> QED BY <3>5
  <2> QED BY <2>2, <2>3
<1>7. \A j \in 0..N : j \in T
  <2>1. \A j \in Nat : j < N /\ j \in T => j + 1 \in T BY <1>6
  <2> HIDE DEF T
  <2> QED BY <1>1, <1>5, <2>1, Induction
<1>8. CASE N = 0
  <2>1. ss = <<>> BY <1>8, EmptySeq DEF N
  <2> QED BY <1>2, <1>8, <2>1
<1>9. CASE N # 0
  <2>1. N \in 0..N /\ 1 <= N BY <1>1, <1>9
  <2> QED BY <1>2, <1>7, <1>9, <2>1
<1> QED BY <1>8, <1>9

LEMMA WriteFieldType ==
  ASSUME NEW t \in Seq(Characters), NEW o, o.sep \in Characters
  PROVE  CsviWriteField(t, o) \in Seq(Characters)
<1> DEFINE pieces == [i \in DOMAIN t |-> IF t[i] = Quote THEN <<Quote, Quote>> ELSE <<t[i]>>]
           ending == IF IsLastField(o) THEN EndOfLine ELSE o.sep
           body == IF NeedsQuotes(t, o) THEN <<Quote>> \o DoubleQuotes(t) \o <<Quote>> ELSE t
<1>1. Len(t) \in Nat /\ DOMAIN t = 1..Len(t) /\ \A i \in 1..Len(t) : t[i] \in Characters
  BY LenProperties, ElementOfSeq
<1>2. \A c \in Characters : <<c>> \in Seq(Characters) /\ <<Quote, c>> \in Seq(Characters)
  BY CharactersDiffer
<1>3. Quote \in Characters /\ EndOfLine \in Characters BY CharactersDiffer
<1>4. pieces \in Seq(Seq(Characters))
  <2>1. pieces \in [1..Len(t) -> Seq(Characters)] BY <1>1, <1>2, <1>3
  <2> HIDE DEF pieces
  <2> QED BY <1>1, <2>1, SeqDef
<1>5. DoubleQuotes(t) \in Seq(Characters)
  <2>1. DoubleQuotes(t) = FlattenSeq(pieces) BY DEF DoubleQuotes
  <2> HIDE DEF pieces
  <2> QED BY <1>4, <2>1, FlattenType
<1>6. body \in Seq(Characters) BY <1>2, <1>3, <1>5, ConcatProperties
<1>7. <<ending>> \in Seq(Characters) BY <1>2, <1>3
<1>8. CsviWriteField(t, o) = body \o <<ending>> BY DEF CsviWriteField
<1> HIDE DEF body, ending
<1> QED BY <1>6, <1>7, <1>8, ConcatProperties

LEMMA EncodedType ==
  ASSUME NEW ts \in Seq(Seq(Characters)), NEW o \in Object
  PROVE  /\ EncodedFields(ts, o) \in Seq(Seq(Characters))
         /\ FlattenSeq(EncodedFields(ts, o)) \in Seq(Characters)
<1> DEFINE At(k) == [o EXCEPT !.cur = Advanced(@, k - 1)]
<1>1. Len(ts) \in Nat /\ DOMAIN ts = 1..Len(ts) /\ \A k \in 1..Len(ts) : ts[k] \in Seq(Characters)
  BY LenProperties, ElementOfSeq
<1>2. \A k \in 1..Len(ts) : At(k).sep = o.sep /\ o.sep \in Characters BY DEF Object
<1>3. EncodedFields(ts, o) = [k \in 1..Len(ts) |-> CsviWriteField(ts[k], At(k))]
  BY <1>1 DEF EncodedFields
<1> HIDE DEF At
<1>4. \A k \in 1..Len(ts) : CsviWriteField(ts[k], At(k)) \in Seq(Characters)
  BY <1>1, <1>2, WriteFieldType
<1>5. EncodedFields(ts, o) \in [1..Len(ts) -> Seq(Characters)] BY <1>3, <1>4
<1>6. EncodedFields(ts, o) \in Seq(Seq(Characters)) BY <1>1, <1>5, FunctionIsSeq
<1> QED BY <1>6, FlattenType

-----------------------------------------------------------------------------
(* The inductive invariant: an object of the right type is in place before   *)
(* and after each call, the file and what was written for it are texts.      *)

OkObject(o) ==
  /\ o \in Object
  /\ o.sep \in (Separators \cup {Comma}) \ {Quote, EndOfLine}
  /\ o.mode # "closed" => o.n > 0

AnswerInv ==
  /\ ret.ok \in BOOLEAN /\ ret.number \in Nat
  /\ ret.error \in Errors /\ failure \in Errors

FileInv ==
  /\ file \in Seq(Characters)
  /\ fileSep \in Separators \cup {Comma, Unset}
  /\ written \in [header : Headers \cup {<<>>}, records : Seq(Seq(Texts))]

StateInv == mapped \in BOOLEAN /\ process \in {"running", "dead"}

TypeInv == OkObject(csv) /\ AnswerInv /\ FileInv /\ StateInv

LEMMA NoErrorIsError == "NO_ERROR" \in Errors
BY DEF Errors

LEMMA OpenedOk ==
  ASSUME NEW m \in {"closed", "read", "write", "append"}
  PROVE  /\ Opened(m) \in Object /\ Opened(m).pos = 0 /\ Opened(m).mode = m
         /\ Opened(m).sep = Comma /\ Opened(m).cur = 0
         /\ m = "closed" => OkObject(Opened(m))
<1>1. <<>> \in Seq(Nat) OBVIOUS
<1>2. Comma \in Characters /\ Comma \notin {Quote, EndOfLine} BY CharactersDiffer
<1>3. Opened(m) \in Object BY <1>1, <1>2, NoErrorIsError DEF Opened, Object
<1> QED BY <1>2, <1>3 DEF Opened, OkObject

LEMMA ReturnsStep ==
  ASSUME NEW call, NEW o, NEW ok \in BOOLEAN, NEW values, NEW number \in Nat,
         OkObject(o), Returns(call, o, ok, values, number)
  PROVE  OkObject(csv)' /\ AnswerInv'
<1>1. o.err \in Errors BY DEF OkObject, Object
<1>2. csv' = o /\ ret'.ok = ok /\ ret'.number = number /\ ret'.error = o.err /\ failure' = o.err
  BY DEF Returns
<1>3. OkObject(csv)' BY <1>2 DEF OkObject
<1> QED BY <1>1, <1>2, <1>3 DEF AnswerInv

LEMMA WithErrorOk ==
  ASSUME NEW o, OkObject(o), NEW e \in Errors
  PROVE  OkObject([o EXCEPT !.err = e])
BY DEF OkObject, Object

LEMMA SucceedsStep ==
  ASSUME NEW call, NEW o, NEW values, NEW number \in Nat,
         OkObject(o), Succeeds(call, o, values, number)
  PROVE  OkObject(csv)' /\ AnswerInv'
<1> DEFINE q == [o EXCEPT !.err = "NO_ERROR"]
<1>1. OkObject(q) BY WithErrorOk, NoErrorIsError
<1>2. Returns(call, q, TRUE, values, number) BY DEF Succeeds
<1> HIDE DEF q
<1> QED BY <1>1, <1>2, ReturnsStep

LEMMA OpenFailsStep ==
  ASSUME NEW call, NEW e \in Errors, OpenFails(call, e)
  PROVE  OkObject(csv)' /\ AnswerInv'
<1>1. csv' = NoObject /\ OkObject(NoObject) BY OpenedOk DEF OpenFails, NoObject
<1>2. OkObject(csv)' BY <1>1 DEF OkObject
<1> QED BY <1>2 DEF OpenFails, AnswerInv

LEMMA RefusedStep ==
  ASSUME TypeInv, NEW call, NEW e \in Errors, Refused(call, e)
  PROVE  TypeInv'
<1> DEFINE q == [csv EXCEPT !.err = e]
<1>1. OkObject(q) BY WithErrorOk DEF TypeInv
<1>2. Returns(call, q, FALSE, <<>>, 0) BY DEF Refused
<1>3. OkObject(csv)' /\ AnswerInv'
  <2> HIDE DEF q
  <2> QED BY <1>1, <1>2, ReturnsStep
<1> QED BY <1>3 DEF TypeInv, FileInv, StateInv, Refused

LEMMA CrashStep ==
  ASSUME TypeInv, Crash
  PROVE  TypeInv'
BY DEF TypeInv, OkObject, AnswerInv, FileInv, StateInv, Crash

(* A step that changes neither the file nor what the process is.             *)
LEMMA FileStays ==
  ASSUME TypeInv, OkObject(csv)', AnswerInv', StateInv', UNCHANGED <<file, fileSep, written>>
  PROVE  TypeInv'
BY DEF TypeInv, FileInv

LEMMA TextsAreSequences ==
  /\ Seq(Texts) \subseteq Seq(Seq(Characters))
  /\ Headers \subseteq Seq(Seq(Characters))
<1>1. Texts \subseteq Seq(Characters) /\ Headers \subseteq Seq(Seq(Characters)) BY HostAssumption
<1>2. ASSUME NEW s \in Seq(Texts) PROVE s \in Seq(Seq(Characters))
  <2>1. Len(s) \in Nat /\ s \in [1..Len(s) -> Texts] BY LenProperties
  <2>2. s \in [1..Len(s) -> Seq(Characters)] BY <1>1, <2>1
  <2> QED BY <2>1, <2>2, FunctionIsSeq
<1> QED BY <1>1, <1>2

LEMMA OpenWriteStep ==
  ASSUME TypeInv, NEW h \in Headers, CsvOpenWriteW(h)
  PROVE  TypeInv'
<1> DEFINE o == [Opened("write") EXCEPT !.n = Len(h)]
           q == [o EXCEPT !.cur = Advanced(@, Len(h))]
<1>1. CASE mapped
  <2>1. Crash BY <1>1 DEF CsvOpenWriteW
  <2> QED BY <2>1, CrashStep
<1>2. CASE ~mapped
  <2>1. /\ file' = FlattenSeq(EncodedFields(h, o)) /\ fileSep' = Unset
        /\ written' = [header |-> h, records |-> <<>>]
        /\ Succeeds("other", q, <<>>, 0) /\ UNCHANGED <<mapped, process>>
    BY <1>2 DEF CsvOpenWriteW
  <2>2. h \in Seq(Seq(Characters)) /\ h # <<>> BY HostAssumption
  <2>3. Len(h) \in Nat /\ Len(h) > 0
    <3>1. Len(h) \in Nat BY <2>2, LenProperties
    <3>2. Len(h) # 0 BY <2>2, EmptySeq
    <3> QED BY <3>1, <3>2
  <2>4. o \in Object /\ o.n = Len(h) /\ o.sep = Comma /\ o.mode = "write" /\ o.cur = 0
    BY <2>3, OpenedOk DEF Object
  <2>5. FlattenSeq(EncodedFields(h, o)) \in Seq(Characters)
    <3> HIDE DEF o
    <3> QED BY <2>2, <2>4, EncodedType
  <2>6. OkObject(q)
    <3> HIDE DEF o
    <3>1. Advanced(o.cur, Len(h)) \in Nat
      <4>1. o.cur \in Nat BY <2>4
      <4> QED BY <2>3, <4>1, AdvancedType
    <3> QED BY <2>3, <2>4, <3>1, CharactersDiffer DEF OkObject, Object
  <2> HIDE DEF q
  <2>7. OkObject(csv)' /\ AnswerInv' BY <2>1, <2>6, SucceedsStep
  <2>8. <<>> \in Seq(Seq(Texts)) OBVIOUS
  <2> QED BY <2>1, <2>5, <2>7, <2>8 DEF TypeInv, FileInv, StateInv
<1> QED BY <1>1, <1>2
LEMMA OpenExistingStep ==
  ASSUME TypeInv, NEW call, NEW m \in {"read", "append"}, NEW b, NEW index \in Seq(Nat),
         OpenExisting(call, m, b, index)
  PROVE  TypeInv'
<1> DEFINE h == CsviReadHeader(file, Opened(m))
           q == [h.obj EXCEPT !.after = h.obj.pos, !.filter = index]
<1>1. file \in Seq(Characters) /\ Opened(m) \in Object /\ Opened(m).pos = 0
      /\ Opened(m).mode = m /\ Opened(m).sep = Comma
  BY OpenedOk DEF TypeInv, FileInv
<1>2. /\ h.obj \in Object /\ h.obj.n > 0 /\ h.obj.mode = m /\ h.obj.sep = Comma
  BY <1>1, ReadHeaderFacts
<1>3. \/ Crash
      \/ /\ h.obj.err = "NO_ERROR" /\ Succeeds(call, q, h.texts, 0)
         /\ mapped' = (mapped \/ m = "read") /\ UNCHANGED <<file, fileSep, written, process>>
      \/ /\ OpenFails(call, h.obj.err)
         /\ mapped' = (mapped \/ m = "read") /\ UNCHANGED <<file, fileSep, written, process>>
  BY DEF OpenExisting
<1> HIDE DEF h
<1>4. OkObject(q) BY <1>2, CharactersDiffer DEF OkObject, Object
<1>5. h.obj.err \in Errors BY <1>2 DEF Object
<1> HIDE DEF q
<1>6. CASE Crash BY <1>6, CrashStep
<1>7. CASE ~Crash
  <2>1. OkObject(csv)' /\ AnswerInv' BY <1>3, <1>4, <1>5, <1>7, SucceedsStep, OpenFailsStep
  <2>2. StateInv' BY <1>3, <1>7 DEF TypeInv, StateInv
  <2>3. UNCHANGED <<file, fileSep, written>> BY <1>3, <1>7
  <2> QED BY <2>1, <2>2, <2>3, FileStays
<1> QED BY <1>6, <1>7

LEMMA OpenReadStep ==
  ASSUME TypeInv, NEW b, CsvOpenReadW(b) \/ CsvOpenAppendW(b)
  PROVE  TypeInv'
<1>1. <<>> \in Seq(Nat) OBVIOUS
<1>2. CASE CsvOpenReadW(b)
  <2>1. OpenExisting("other", "read", b, <<>>) BY <1>2 DEF CsvOpenReadW
  <2> QED BY <1>1, <2>1, OpenExistingStep
<1>3. CASE CsvOpenAppendW(b)
  <2>1. OpenExisting("other", "append", b, <<>>) BY <1>3 DEF CsvOpenAppendW
  <2> QED BY <1>1, <2>1, OpenExistingStep
<1> QED BY <1>2, <1>3

(* The places of the wanted fields in the header; 0 is no place.             *)
LEMMA FilterIndexes ==
  ASSUME TypeInv, NEW s \in FilterSets
  PROVE  [j \in DOMAIN s |-> SelectInSeq(CsviReadHeader(file, Opened("read")).texts,
                                         LAMBDA t : t = s[j])] \in Seq(Nat)
<1> DEFINE h == CsviReadHeader(file, Opened("read"))
           index == [j \in DOMAIN s |-> SelectInSeq(h.texts, LAMBDA t : t = s[j])]
<1>1. h.texts \in Seq(Seq(Characters) \cup {Unset})
  <2>1. file \in Seq(Characters) /\ Opened("read") \in Object /\ Opened("read").pos = 0
    BY OpenedOk DEF TypeInv, FileInv
  <2> QED BY <2>1, ReadHeaderFacts
<1>2. index \in Seq(Nat)
  <2> HIDE DEF h
  <2>1. s \in Seq(Seq(Characters)) BY HostAssumption
  <2>2. Len(s) \in Nat /\ DOMAIN s = 1..Len(s) BY <2>1, LenProperties
  <2>3. Len(h.texts) \in Nat BY <1>1, LenProperties
  <2>4. ASSUME NEW j \in 1..Len(s) PROVE index[j] \in Nat
    <3> DEFINE I == {i \in 1..Len(h.texts) : h.texts[i] = s[j]}
    <3>1. index[j] = IF I # {} THEN Min(I) ELSE 0 BY <2>2 DEF SelectInSeq
    <3>2. I \in SUBSET Nat BY <2>3
    <3> HIDE DEF I, index
    <3>3. I # {} => Min(I) \in I BY <3>2, LeastOf
    <3>4. CASE I = {}
      <4>1. index[j] = 0 BY <3>1, <3>4
      <4> QED BY <4>1
    <3>5. CASE I # {}
      <4>1. index[j] = Min(I) /\ Min(I) \in I BY <3>1, <3>3, <3>5
      <4> QED BY <3>2, <4>1
    <3> QED BY <3>4, <3>5
  <2>5. index \in [1..Len(s) -> Nat]
    <3>1. DOMAIN index = 1..Len(s) /\ index = [j \in DOMAIN index |-> index[j]] BY <2>2
    <3> HIDE DEF index
    <3> QED BY <2>4, <3>1
  <2> HIDE DEF index
  <2> QED BY <2>2, <2>5, FunctionIsSeq
<1> QED BY <1>2

LEMMA OpenFilteredStep ==
  ASSUME TypeInv, NEW s \in FilterSets, CsvOpenReadWithFilteredSetW(s)
  PROVE  TypeInv'
<1> DEFINE h == CsviReadHeader(file, Opened("read"))
           index == [j \in DOMAIN s |-> SelectInSeq(h.texts, LAMBDA t : t = s[j])]
<1>1. \/ Crash
      \/ /\ OpenFails("other", "INVALID_PARAMETER")
         /\ mapped' = TRUE /\ UNCHANGED <<file, fileSep, written, process>>
      \/ OpenExisting("other", "read", TRUE, index)
  BY DEF CsvOpenReadWithFilteredSetW
<1>2. index \in Seq(Nat) BY FilterIndexes
<1> HIDE DEF h, index
<1>3. CASE Crash BY <1>3, CrashStep
<1>4. CASE OpenExisting("other", "read", TRUE, index) BY <1>2, <1>4, OpenExistingStep
<1>5. CASE /\ OpenFails("other", "INVALID_PARAMETER")
           /\ mapped' = TRUE /\ UNCHANGED <<file, fileSep, written, process>>
  <2>1. "INVALID_PARAMETER" \in Errors BY DEF Errors
  <2>2. OkObject(csv)' /\ AnswerInv' BY <1>5, <2>1, OpenFailsStep
  <2>3. StateInv' BY <1>5 DEF TypeInv, StateInv
  <2> QED BY <1>5, <2>2, <2>3, FileStays
<1> QED BY <1>1, <1>3, <1>4, <1>5

LEMMA GivenType ==
  ASSUME TypeInv, NEW ts \in [1..csv.n -> Texts]
  PROVE  /\ Given(ts) \in [header : Headers \cup {<<>>}, records : Seq(Seq(Texts))]
         /\ EncodedFields(ts, csv) \in Seq(Seq(Characters))
         /\ FlattenSeq(EncodedFields(ts, csv)) \in Seq(Characters)
<1>1. csv \in Object /\ csv.n \in Nat BY DEF TypeInv, OkObject, Object
<1>2. ts \in Seq(Texts) BY <1>1, FunctionIsSeq
<1>3. Append(written.records, ts) \in Seq(Seq(Texts))
  BY <1>2, AppendProperties DEF TypeInv, FileInv
<1>4. ts \in Seq(Seq(Characters)) BY <1>2, TextsAreSequences
<1>5. Given(ts) \in [header : Headers \cup {<<>>}, records : Seq(Seq(Texts))]
  BY <1>3 DEF TypeInv, FileInv, Given
<1> QED BY <1>1, <1>4, <1>5, EncodedType

LEMMA WriteStep ==
  ASSUME TypeInv, NEW ts \in [1..csv.n -> Texts], CsvWriteNextRecordW(ts)
  PROVE  TypeInv'
<1> DEFINE o == [csv EXCEPT !.cur = Advanced(@, csv.n), !.records = @ + 1]
           record == FlattenSeq(EncodedFields(ts, csv))
<1>1. CASE csv.mode = "read"
  <2>1. Refused("CsvWriteNextRecord", "INVALID_OPERATION") BY <1>1 DEF CsvWriteNextRecordW
  <2>2. "INVALID_OPERATION" \in Errors BY DEF Errors
  <2> QED BY <2>1, <2>2, RefusedStep
<1>2. CASE csv.mode # "read"
  <2>1. /\ file' = file \o record /\ fileSep' = csv.sep /\ written' = Given(ts)
        /\ Succeeds("CsvWriteNextRecord", o, ts, o.records) /\ UNCHANGED <<mapped, process>>
    BY <1>2 DEF CsvWriteNextRecordW
  <2>2. OkObject(csv) /\ csv.n \in Nat /\ csv.cur \in Nat /\ csv.records \in Nat
    BY DEF TypeInv, OkObject, Object
  <2>3. Advanced(csv.cur, csv.n) \in Nat BY <2>2, AdvancedType
  <2>4. OkObject(o) /\ o.records \in Nat
    <3>1. csv \in Object /\ o \in Object
      <4>1. csv \in Object BY <2>2 DEF OkObject
      <4>2. csv.records + 1 \in Nat BY <2>2
      <4>3. o = [csv EXCEPT !.cur = Advanced(csv.cur, csv.n), !.records = csv.records + 1] OBVIOUS
      <4> HIDE DEF o
      <4> QED BY <2>3, <4>1, <4>2, <4>3 DEF Object
    <3>2. o.sep = csv.sep /\ o.mode = csv.mode /\ o.n = csv.n BY <3>1 DEF Object
    <3>3. o.records \in Nat BY <3>1 DEF Object
    <3> HIDE DEF o
    <3> QED BY <2>2, <3>1, <3>2, <3>3 DEF OkObject
  <2>5. OkObject(csv)' /\ AnswerInv'
    <3> HIDE DEF o
    <3> QED BY <2>1, <2>4, SucceedsStep
  <2>6. file' \in Seq(Characters)
    <3>1. record \in Seq(Characters) /\ file \in Seq(Characters) BY GivenType DEF TypeInv, FileInv
    <3> HIDE DEF record
    <3> QED BY <2>1, <3>1, ConcatProperties
  <2>7. fileSep' \in Separators \cup {Comma, Unset} BY <2>1, <2>2 DEF OkObject
  <2>8. FileInv' BY <2>1, <2>6, <2>7, GivenType DEF FileInv
  <2> QED BY <2>1, <2>5, <2>8 DEF TypeInv, StateInv
<1> QED BY <1>1, <1>2

LEMMA WriteStopsStep ==
  ASSUME TypeInv, NEW ts \in [1..csv.n -> Texts], WriteStops(ts)
  PROVE  TypeInv'
<1> DEFINE fields == EncodedFields(ts, csv)
           record == FlattenSeq(fields)
           whole(k) == Len(FlattenSeq(SubSeq(fields, 1, k)))
           done(count) == {k \in 1..csv.n : whole(k) <= count}
           o(count) == [csv EXCEPT !.cur = Advanced(@, Cardinality(done(count))),
                                   !.err = "WRITE_FAULT"]
<1>1. PICK count \in 0..Len(record) - 1 :
        /\ file' = file \o SubSeq(record, 1, count)
        /\ Returns("CsvWriteNextRecord", o(count), FALSE, <<>>, 0)
  BY DEF WriteStops
<1>2. fileSep' = csv.sep /\ written' = Given(ts) /\ UNCHANGED <<mapped, process>> BY DEF WriteStops
<1>3. OkObject(csv) /\ csv.n \in Nat /\ csv.cur \in Nat BY DEF TypeInv, OkObject, Object
<1>4. Cardinality(done(count)) \in Nat
  <2> HIDE DEF whole
  <2>2. done(count) \subseteq 1..csv.n OBVIOUS
  <2> HIDE DEF done
  <2>1. IsFiniteSet(1..csv.n)
    <3>1. 1 \in Int /\ csv.n \in Int BY <1>3
    <3> QED BY <3>1, FS_Interval
  <2> QED BY <2>1, <2>2, FS_Subset, FS_CardinalityType
<1> HIDE DEF done
<1>5. Advanced(csv.cur, Cardinality(done(count))) \in Nat BY <1>3, <1>4, AdvancedType
<1>6. OkObject(o(count))
  <2>1. "WRITE_FAULT" \in Errors BY DEF Errors
  <2> QED BY <1>3, <1>5, <2>1 DEF OkObject, Object
<1> HIDE DEF o
<1>7. OkObject(csv)' /\ AnswerInv' BY <1>1, <1>6, ReturnsStep
<1>8. file' \in Seq(Characters)
  <2>1. record \in Seq(Characters) /\ file \in Seq(Characters) BY GivenType DEF TypeInv, FileInv
  <2> HIDE DEF record
  <2>2. Len(record) \in Nat BY <2>1, LenProperties
  <2>3. SubSeq(record, 1, count) \in Seq(Characters) BY <2>1, <2>2, SubSeqProperties
  <2> QED BY <1>1, <2>1, <2>3, ConcatProperties
<1>9. fileSep' \in Separators \cup {Comma, Unset} BY <1>2, <1>3 DEF OkObject
<1>10. FileInv' BY <1>2, <1>8, <1>9, GivenType DEF FileInv
<1> QED BY <1>2, <1>7, <1>10 DEF TypeInv, StateInv
(* What NextRecord does, for the types and for ReadsProgress.                *)
LEMMA NextRecordFacts ==
  ASSUME TypeInv, csv.mode = "read", NEW call, NEW b, NextRecord(call, b)
  PROVE  \/ Crash
         \/ /\ OkObject(csv)' /\ AnswerInv'
            /\ csv'.pos > csv.pos \/ csv'.err = "END_OF_FILE"
            /\ UNCHANGED <<file, fileSep, written, mapped, process>>
<1> DEFINE r == ReadRecord(file, csv)
           o == [r.obj EXCEPT !.records = @ + 1]
           q == [o EXCEPT !.err = "NO_ERROR"]
           values == IF b THEN Converted(r.texts) ELSE Stored(r.texts)
<1>1. file \in Seq(Characters) /\ OkObject(csv) /\ csv \in Object /\ csv.n > 0
  BY DEF TypeInv, FileInv, OkObject
<1>2. /\ r.obj \in Object /\ Kept(csv, r.obj)
      /\ r.obj.err = "END_OF_FILE" \/ r.obj.pos > csv.pos
  BY <1>1, ReadRecordFacts
<1>3. \/ Crash
      \/ /\ UNCHANGED <<file, fileSep, written, mapped, process>>
         /\ \/ Stopped(r) /\ Returns(call, r.obj, FALSE, <<>>, 0)
            \/ ~Stopped(r) /\ Succeeds(call, o, values, o.records)
  BY DEF NextRecord
<1> HIDE DEF r
<1>4. OkObject(r.obj) BY <1>1, <1>2 DEF OkObject, Kept
<1>5. OkObject(o) /\ o.records \in Nat /\ o.pos = r.obj.pos
  <2>1. r.obj.records + 1 \in Nat BY <1>2 DEF Object
  <2> QED BY <1>2, <1>4, <2>1 DEF OkObject, Object
<1>6. CASE Stopped(r) /\ Returns(call, r.obj, FALSE, <<>>, 0)
  <2>1. OkObject(csv)' /\ AnswerInv' BY <1>4, <1>6, ReturnsStep
  <2>2. csv' = r.obj BY <1>6 DEF Returns
  <2> QED BY <1>2, <1>3, <2>1, <2>2
<1>7. CASE ~Stopped(r) /\ Succeeds(call, o, values, o.records)
  <2>1. OkObject(csv)' /\ AnswerInv'
    <3> HIDE DEF o, values
    <3> QED BY <1>5, <1>7, SucceedsStep
  <2>2. csv' = q BY <1>7 DEF Succeeds, Returns
  <2>3. csv'.pos = r.obj.pos BY <1>5, <2>2 DEF OkObject, Object
  <2>4. r.obj.pos > csv.pos
    <3>1. r.obj.err = "NO_ERROR" BY <1>7 DEF Stopped
    <3> QED BY <1>2, <3>1
  <2> QED BY <1>3, <2>1, <2>3, <2>4
<1> QED BY <1>3, <1>6, <1>7

LEMMA NextRecordStep ==
  ASSUME TypeInv, csv.mode = "read", NEW call, NEW b, NextRecord(call, b)
  PROVE  TypeInv'
<1>1. CASE Crash BY <1>1, CrashStep
<1>2. CASE ~Crash
  <2>1. OkObject(csv)' /\ AnswerInv' /\ UNCHANGED <<file, fileSep, written, mapped, process>>
    BY <1>2, NextRecordFacts
  <2>2. StateInv' BY <2>1 DEF TypeInv, StateInv
  <2> QED BY <2>1, <2>2, FileStays
<1> QED BY <1>1, <1>2

LEMMA ReadStep ==
  ASSUME TypeInv, CsvGetNextRecordW \/ CsvGetNextRecordA
  PROVE  TypeInv'
<1>1. \/ Crash
      \/ \E call : Refused(call, "INVALID_OPERATION")
      \/ csv.mode = "read" /\ \E call, b : NextRecord(call, b)
  BY DEF CsvGetNextRecordW, CsvGetNextRecordA
<1>2. "INVALID_OPERATION" \in Errors BY DEF Errors
<1> QED BY <1>1, <1>2, CrashStep, RefusedStep, NextRecordStep

(* A call that succeeds and changes nothing but the object.                  *)
LEMMA SucceedsOnly ==
  ASSUME TypeInv, NEW call, NEW o, NEW values, NEW number \in Nat, OkObject(o),
         Succeeds(call, o, values, number), UNCHANGED <<file, fileSep, written, mapped, process>>
  PROVE  TypeInv'
<1>1. OkObject(csv)' /\ AnswerInv' BY SucceedsStep
<1>2. StateInv' BY DEF TypeInv, StateInv
<1> QED BY <1>1, <1>2, FileStays

LEMMA ResetStep ==
  ASSUME TypeInv, CsvResetFile
  PROVE  TypeInv'
<1> DEFINE o == [csv EXCEPT !.cur = 0, !.pos = csv.after, !.eof = FALSE]
<1>1. CASE csv.mode = "read"
  <2>1. /\ Succeeds("CsvResetFile", o, <<>>, 0)
        /\ UNCHANGED <<file, fileSep, written, mapped, process>>
    BY <1>1 DEF CsvResetFile
  <2>2. OkObject(csv) BY DEF TypeInv
  <2>3. OkObject(o) BY <2>2 DEF OkObject, Object
  <2> HIDE DEF o
  <2> QED BY <2>1, <2>3, SucceedsOnly
<1>2. CASE csv.mode # "read"
  <2>1. Refused("other", "INVALID_OPERATION") BY <1>2 DEF CsvResetFile
  <2>2. "INVALID_OPERATION" \in Errors BY DEF Errors
  <2> QED BY <2>1, <2>2, RefusedStep
<1> QED BY <1>1, <1>2

LEMMA SetOptionStep ==
  ASSUME TypeInv, NEW e \in {"separator", "enquote", "UNSUPPORTED"},
         NEW c \in Separators \cup {Comma}, CsvSetOption(e, c)
  PROVE  TypeInv'
<1> DEFINE sep == IF e = "separator" /\ c \notin {Quote, EndOfLine} THEN c ELSE csv.sep
           o == [csv EXCEPT !.sep = sep, !.always = csv.always \/ e = "enquote"]
<1>1. \/ Refused("other", "ALREADY_STARTED")
      \/ e = "UNSUPPORTED" /\ Refused("other", e)
      \/ Succeeds("other", o, <<>>, 0) /\ UNCHANGED <<file, fileSep, written, mapped, process>>
  BY DEF CsvSetOption
<1>2. {"ALREADY_STARTED", "UNSUPPORTED"} \subseteq Errors BY DEF Errors
<1>3. OkObject(csv) BY DEF TypeInv
<1>4. sep \in (Separators \cup {Comma}) \ {Quote, EndOfLine} /\ sep \in Characters
  <2>1. csv.sep \in (Separators \cup {Comma}) \ {Quote, EndOfLine} BY <1>3 DEF OkObject
  <2> QED BY <2>1, HostAssumption, CharactersDiffer
<1> HIDE DEF sep
<1>5. OkObject(o) BY <1>3, <1>4 DEF OkObject, Object
<1> HIDE DEF o
<1> QED BY <1>1, <1>2, <1>5, RefusedStep, SucceedsOnly

LEMMA UnsetOptionStep ==
  ASSUME TypeInv, NEW e \in {"separator", "enquote", "UNSUPPORTED"}, CsvUnsetOption(e)
  PROVE  TypeInv'
<1> DEFINE o1 == [csv EXCEPT !.sep = Comma]
           o2 == [csv EXCEPT !.always = FALSE]
<1>1. \/ Refused("other", "ALREADY_STARTED")
      \/ e = "UNSUPPORTED" /\ Refused("other", e)
      \/ Succeeds("other", o1, <<>>, 0) /\ UNCHANGED <<file, fileSep, written, mapped, process>>
      \/ Succeeds("other", o2, <<>>, 0) /\ UNCHANGED <<file, fileSep, written, mapped, process>>
  BY DEF CsvUnsetOption
<1>2. {"ALREADY_STARTED", "UNSUPPORTED"} \subseteq Errors BY DEF Errors
<1>3. OkObject(csv) BY DEF TypeInv
<1>4. OkObject(o1) BY <1>3, CharactersDiffer DEF OkObject, Object
<1>5. OkObject(o2) BY <1>3 DEF OkObject, Object
<1> HIDE DEF o1, o2
<1> QED BY <1>1, <1>2, <1>4, <1>5, RefusedStep, SucceedsOnly

LEMMA OtherCallsStep ==
  ASSUME TypeInv,
         \/ CsvWriteNextRecordWithTypes \/ CsvGetLastError
         \/ CsvGetHeaderNumberOfFields \/ CsvClose
  PROVE  TypeInv'
<1>1. OkObject(csv) /\ csv.n \in Nat /\ csv.err \in Errors BY DEF TypeInv, OkObject, Object
<1>2. CASE CsvWriteNextRecordWithTypes
  <2>1. AnswerInv' /\ OkObject(csv)'
    BY <1>1, <1>2 DEF CsvWriteNextRecordWithTypes, AnswerInv, TypeInv, OkObject
  <2>2. StateInv' /\ UNCHANGED <<file, fileSep, written>>
    BY <1>2 DEF CsvWriteNextRecordWithTypes, StateInv, TypeInv
  <2> QED BY <2>1, <2>2, FileStays
<1>3. CASE CsvGetLastError
  <2> DEFINE o == [csv EXCEPT !.err = "NO_ERROR"]
  <2>1. OkObject(o) /\ o.err = "NO_ERROR" BY <1>1, WithErrorOk, NoErrorIsError DEF OkObject, Object
  <2>2. /\ csv' = o /\ ret'.ok = TRUE /\ ret'.number = 0 /\ ret'.error = o.err
        /\ failure' = failure /\ mapped' = mapped /\ process' = process
        /\ UNCHANGED <<file, fileSep, written>>
    BY <1>3 DEF CsvGetLastError
  <2> HIDE DEF o
  <2>3. OkObject(csv)' BY <2>1, <2>2 DEF OkObject
  <2>4. AnswerInv'
    <3>1. failure' \in Errors /\ ret'.error \in Errors
      BY <2>1, <2>2, NoErrorIsError DEF TypeInv, AnswerInv
    <3>2. ret'.ok \in BOOLEAN BY <2>2
    <3>3. ret'.number \in Nat BY <2>2
    <3> QED BY <3>1, <3>2, <3>3 DEF AnswerInv
  <2>5. StateInv' BY <2>2 DEF TypeInv, StateInv
  <2> QED BY <2>2, <2>3, <2>4, <2>5, FileStays
<1>4. CASE CsvGetHeaderNumberOfFields
  BY <1>1, <1>4, SucceedsOnly DEF CsvGetHeaderNumberOfFields
<1>5. CASE CsvClose
  <2>1. OkObject(NoObject) BY OpenedOk DEF NoObject
  <2> QED BY <1>5, <2>1, SucceedsOnly DEF CsvClose
<1> QED BY <1>2, <1>3, <1>4, <1>5

LEMMA InitTypes == Init => TypeInv
<1> SUFFICES ASSUME Init PROVE TypeInv
  OBVIOUS
<1>1. OkObject(csv) BY OpenedOk DEF Init, NoObject
<1>2. <<>> \in Seq(Seq(Texts)) OBVIOUS
<1>3. file \in Seq(Characters) BY HostAssumption DEF Init
<1> QED BY <1>1, <1>2, <1>3, NoErrorIsError DEF Init, TypeInv, AnswerInv, FileInv, StateInv

LEMMA NextTypes == TypeInv /\ [Next]_vars => TypeInv'
<1> SUFFICES ASSUME TypeInv, [Next]_vars PROVE TypeInv'
  OBVIOUS
<1>1. CASE Opening BY <1>1, OpenWriteStep, OpenReadStep, OpenFilteredStep DEF Opening
<1>2. CASE Writing BY <1>2, WriteStep, WriteStopsStep, OtherCallsStep DEF Writing
<1>3. CASE Reading BY <1>3, ReadStep, ResetStep DEF Reading
<1>4. CASE Setting BY <1>4, SetOptionStep, UnsetOptionStep DEF Setting
<1>5. CASE CsvGetLastError \/ CsvGetHeaderNumberOfFields \/ CsvClose BY <1>5, OtherCallsStep
<1>6. CASE UNCHANGED vars
  BY <1>6 DEF vars, TypeInv, OkObject, AnswerInv, FileInv, StateInv
<1>7. CASE Finished
  <2>1. UNCHANGED vars BY <1>7 DEF Finished
  <2> QED BY <1>6, <2>1
<1> QED BY <1>1, <1>2, <1>3, <1>4, <1>5, <1>6, <1>7 DEF Next

LEMMA TypesHold == Spec => []TypeInv
BY InitTypes, NextTypes, PTL DEF Spec

(* The object, the answers, the file and what was written for it keep their  *)
(* types in every instance, whatever the file holds: an open object has a    *)
(* field, and its separator is neither a quote nor an end of line.           *)
THEOREM TypesAreCorrect == Spec => []TypeOK
<1>1. TypeInv => TypeOK
  <2> SUFFICES ASSUME TypeInv PROVE TypeOK
    OBVIOUS
  <2>1. ASSUME NEW k \in DOMAIN written.records
        PROVE  written.records[k] \in [1..Len(written.records[k]) -> Texts]
    <3>1. written.records[k] \in Seq(Texts) BY DEF TypeInv, FileInv
    <3> QED BY <3>1, LenProperties
  <2>2. /\ csv.mode \in {"closed", "read", "write", "append"}
        /\ csv.sep \in (Separators \cup {Comma}) \ {Quote, EndOfLine}
        /\ {csv.always, csv.eof} \subseteq BOOLEAN
        /\ {csv.n, csv.cur, csv.pos, csv.after, csv.records} \subseteq Nat
        /\ csv.mode # "closed" => csv.n > 0
        /\ csv.err \in Errors
    BY DEF TypeInv, OkObject, Object
  <2> QED BY <2>1, <2>2 DEF TypeInv, AnswerInv, FileInv, StateInv, TypeOK
<1> QED BY <1>1, TypesHold, PTL

(* The answer of a call tells which it was.                                  *)
LEMMA CallTold ==
  /\ \A call, o, ok, values, number : Returns(call, o, ok, values, number) => ret'.call = call
  /\ \A call, o, values, number : Succeeds(call, o, values, number) => ret'.call = call
  /\ \A call, e : Refused(call, e) => ret'.call = call
  /\ \A call, e : OpenFails(call, e) => ret'.call = call
  /\ \A call, m, b, s : OpenExisting(call, m, b, s) => Crash \/ ret'.call = call
<1>1. \A call, o, ok, values, number : Returns(call, o, ok, values, number) => ret'.call = call
  BY DEF Returns
<1>2. \A call, o, values, number : Succeeds(call, o, values, number) => ret'.call = call
  BY <1>1 DEF Succeeds
<1>3. \A call, e : Refused(call, e) => ret'.call = call BY <1>1 DEF Refused
<1>4. \A call, e : OpenFails(call, e) => ret'.call = call BY DEF OpenFails
<1> QED BY <1>1, <1>2, <1>3, <1>4 DEF OpenExisting

(* In every file, also one that the library did not write, and with every    *)
(* separator, a record read by CsvGetNextRecord takes the reader further or  *)
(* ends with END_OF_FILE: the rounds of CsviReadField, CsviReadHeader and    *)
(* the record loop each consume a character or stop.                         *)
THEOREM EveryReadProgresses == Spec => ReadsProgress
<1> DEFINE Progress ==
      ret'.call = "CsvGetNextRecord" /\ csv'.mode = "read" /\ process' = "running"
        => csv'.pos > csv.pos \/ csv'.err = "END_OF_FILE"
<1>1. TypeInv /\ [Next]_vars => [Progress]_vars
  <2> SUFFICES ASSUME TypeInv, Next, ~ UNCHANGED vars,
                      ret'.call = "CsvGetNextRecord", csv'.mode = "read", process' = "running"
               PROVE  csv'.pos > csv.pos \/ csv'.err = "END_OF_FILE"
    OBVIOUS
  <2>1. ~Crash BY DEF Crash
  <2>2. ~Opening
    BY <2>1, CallTold DEF Opening, CsvOpenWriteW, CsvOpenReadW, CsvOpenAppendW,
       CsvOpenReadWithFilteredSetW
  <2>3. ~Writing
    <3>1. ~CsvWriteNextRecordWithTypes BY DEF CsvWriteNextRecordWithTypes
    <3>2. \A ts : ~CsvWriteNextRecordW(ts) BY CallTold DEF CsvWriteNextRecordW
    <3>3. \A ts : ~WriteStops(ts)
      <4>1. \A ts : WriteStops(ts) =>
              \E o, ok, values, number : Returns("CsvWriteNextRecord", o, ok, values, number)
        BY DEF WriteStops
      <4> QED BY <4>1, CallTold
    <3> QED BY <3>1, <3>2, <3>3 DEF Writing
  <2>4. ~Setting BY CallTold DEF Setting, CsvSetOption, CsvUnsetOption
  <2>5. ~(CsvGetLastError \/ CsvGetHeaderNumberOfFields \/ CsvClose \/ CsvResetFile)
    BY CallTold DEF CsvGetLastError, CsvGetHeaderNumberOfFields, CsvClose, CsvResetFile
  <2>6. ~Finished BY DEF Finished
  <2>7. ~CsvGetNextRecordA
    BY <2>1 DEF CsvGetNextRecordA, NextRecord, Refused, Succeeds, Returns
  <2>8. CsvGetNextRecordW BY <2>2, <2>3, <2>4, <2>5, <2>6, <2>7 DEF Next, Reading
  <2>9. csv.mode = "read" /\ NextRecord("CsvGetNextRecord", FALSE)
    <3>1. csv.mode # "read" => csv'.mode # "read"
      <4>1. csv \in Object BY DEF TypeInv, OkObject
      <4> QED BY <2>8, <4>1 DEF CsvGetNextRecordW, Refused, Returns, Object
    <3> QED BY <2>8, <3>1 DEF CsvGetNextRecordW
  <2> QED BY <2>1, <2>9, NextRecordFacts
<1>2. Spec => [][Progress]_vars BY <1>1, TypesHold, PTL DEF Spec
<1> QED BY <1>2 DEF ReadsProgress
=============================================================================
