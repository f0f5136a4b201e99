----------------------------- MODULE CsvStreamProofs -----------------------------
(***************************************************************************)
(* Proofs that what is written to a file through CsvRecords is what is     *)
(* read from it: the text of a field, the fields of a record, the stream   *)
(* of records that CsvStream promises, and what the reference grammar      *)
(* finds in the file.                                                      *)
(***************************************************************************)
EXTENDS CsvRecordsProofs

Odd(f, k) == Grammar!Protected(f, k)
LinesUpTo(f, p) == Grammar!LinesBefore(f, p)

-----------------------------------------------------------------------------
(* The parity of the quotes before a character, and the lines that end.      *)

(* The grammar counts with a copy of the library's definition.               *)
LEMMA SameCardinality ==
  ASSUME NEW S
  PROVE  Grammar!Cardinality(S) = Cardinality(S)
BY DEF Grammar!Cardinality, Cardinality

LEMMA QuotesBefore ==
  ASSUME NEW f, NEW k \in Nat
  PROVE  LET Q(n) == {j \in 1..n : f[j] = Quote} IN
         /\ IsFiniteSet(Q(k)) /\ Cardinality(Q(k)) \in Nat
         /\ k # 0 => Cardinality(Q(k)) = Cardinality(Q(k - 1)) + IF f[k] = Quote THEN 1 ELSE 0
<1> DEFINE Q(n) == {j \in 1..n : f[j] = Quote}
<1>1. \A n \in Nat : IsFiniteSet(Q(n)) /\ Cardinality(Q(n)) \in Nat
  <2> SUFFICES ASSUME NEW n \in Nat PROVE IsFiniteSet(Q(n)) /\ Cardinality(Q(n)) \in Nat
    OBVIOUS
  <2>1. IsFiniteSet(1..n) /\ Q(n) \subseteq 1..n BY FS_Interval
  <2>2. IsFiniteSet(Q(n))
    <3> HIDE DEF Q
    <3> QED BY <2>1, FS_Subset
  <2> HIDE DEF Q
  <2> QED BY <2>2, FS_CardinalityType
<1>2. ASSUME k # 0 PROVE Cardinality(Q(k)) = Cardinality(Q(k - 1)) + IF f[k] = Quote THEN 1 ELSE 0
  <2>1. k - 1 \in Nat /\ k \notin Q(k - 1) BY <1>2
  <2>2. IsFiniteSet(Q(k - 1)) /\ Cardinality(Q(k - 1)) \in Nat
    <3> HIDE DEF Q
    <3> QED BY <1>1, <2>1
  <2>3. CASE f[k] = Quote
    <3>1. Q(k) = Q(k - 1) \cup {k} BY <1>2, <2>3
    <3> HIDE DEF Q
    <3>2. Cardinality(Q(k - 1) \cup {k}) = Cardinality(Q(k - 1)) + 1 BY <2>1, <2>2, FS_AddElement
    <3> QED BY <2>3, <3>1, <3>2
  <2>4. CASE f[k] # Quote
    <3>1. Q(k) = Q(k - 1) BY <1>2, <2>4
    <3> HIDE DEF Q
    <3> QED BY <2>2, <2>4, <3>1
  <2> QED BY <2>3, <2>4
<1> QED BY <1>1, <1>2

LEMMA ParityStart ==
  ASSUME NEW f
  PROVE  ~Odd(f, 1)
<1>1. {j \in 1..1 - 1 : f[j] = Quote} = {} OBVIOUS
<1>2. Cardinality({}) = 0 BY FS_EmptySet
<1> QED BY <1>1, <1>2, SameCardinality DEF Odd, Grammar!Protected

LEMMA ParityStep ==
  ASSUME NEW f, NEW k \in Nat \ {0}
  PROVE  Odd(f, k + 1) <=> (Odd(f, k) <=> f[k] # Quote)
<1> DEFINE C(n) == Cardinality({j \in 1..n : f[j] = Quote})
<1>1. C(k) \in Nat /\ C(k - 1) \in Nat /\ C(k) = C(k - 1) + IF f[k] = Quote THEN 1 ELSE 0
  <2>1. k \in Nat /\ k - 1 \in Nat /\ k # 0 OBVIOUS
  <2>2. C(k) \in Nat /\ C(k) = C(k - 1) + IF f[k] = Quote THEN 1 ELSE 0 BY <2>1, QuotesBefore
  <2>3. C(k - 1) \in Nat
    <3> DEFINE m == k - 1
    <3>1. m \in Nat BY <2>1
    <3> HIDE DEF m
    <3>2. C(m) \in Nat BY <3>1, QuotesBefore
    <3> QED BY <3>2 DEF m
  <2> QED BY <2>2, <2>3
<1>2. /\ Odd(f, k + 1) <=> C(k) % 2 = 1
      /\ Odd(f, k) <=> C(k - 1) % 2 = 1
  <2>1. k + 1 - 1 = k OBVIOUS
  <2> QED BY <2>1, SameCardinality DEF Odd, Grammar!Protected
<1> HIDE DEF C
<1>3. \A n \in Nat : ((n + 1) % 2 = 1) <=> (n % 2 # 1) OBVIOUS
<1> QED BY <1>1, <1>2, <1>3

(* As many lines end up to q as up to p if none ends between.                *)
LEMMA NoLineBetween ==
  ASSUME NEW f \in Seq(Characters), NEW p \in Nat, NEW q \in Nat, p <= q,
         \A k \in p + 1..q : f[k] = EndOfLine => Odd(f, k)
  PROVE  LinesUpTo(f, q) = LinesUpTo(f, p)
<1> DEFINE E == Grammar!Ends(f, EndOfLine)
<1>1. \A k \in E : k \in Nat /\ f[k] = EndOfLine /\ ~Odd(f, k)
  <2>1. DOMAIN f = 1..Len(f) OBVIOUS
  <2> QED BY <2>1 DEF Grammar!Ends, Odd
<1> HIDE DEF E
<1>2. \A k \in E : k <= q => k <= p BY <1>1
<1>3. \A k \in E : k <= p => k <= q BY <1>1
<1>4. {k \in E : k <= q} = {k \in E : k <= p} BY <1>2, <1>3
<1> QED BY <1>4 DEF LinesUpTo, Grammar!LinesBefore, E

LEMMA LineEnds ==
  ASSUME NEW f \in Seq(Characters), NEW p \in Nat, p < Len(f),
         f[p + 1] = EndOfLine, ~Odd(f, p + 1)
  PROVE  LinesUpTo(f, p + 1) = LinesUpTo(f, p) + 1
<1> DEFINE E == Grammar!Ends(f, EndOfLine)
           S == {k \in E : k <= p}
<1>1. Len(f) \in Nat /\ DOMAIN f = 1..Len(f) BY LenProperties
<1>2. p + 1 \in E BY <1>1 DEF Grammar!Ends, Odd
<1>3. E \subseteq 1..Len(f) BY <1>1 DEF Grammar!Ends
<1> HIDE DEF E
<1>4. {k \in E : k <= p + 1} = S \cup {p + 1}
  <2>1. \A k \in E : k <= p + 1 <=> k <= p \/ k = p + 1 BY <1>3
  <2> QED BY <1>2, <2>1
<1>5. p + 1 \notin S OBVIOUS
<1>6. IsFiniteSet(S)
  <2>1. S \subseteq 1..Len(f) BY <1>3
  <2>2. IsFiniteSet(1..Len(f)) BY <1>1, FS_Interval
  <2> HIDE DEF S
  <2> QED BY <2>1, <2>2, FS_Subset
<1> HIDE DEF S
<1>7. Cardinality(S \cup {p + 1}) = Cardinality(S) + 1 BY <1>5, <1>6, FS_AddElement
<1> QED BY <1>4, <1>7, SameCardinality DEF LinesUpTo, Grammar!LinesBefore, E, S

LEMMA LinesStart ==
  ASSUME NEW f \in Seq(Characters)
  PROVE  LinesUpTo(f, 0) = 0
<1>1. DOMAIN f = 1..Len(f) /\ Len(f) \in Nat BY LenProperties
<1>2. {k \in Grammar!Ends(f, EndOfLine) : k <= 0} = {} BY <1>1 DEF Grammar!Ends
<1> QED BY <1>2, SameCardinality, FS_EmptySet DEF LinesUpTo, Grammar!LinesBefore

-----------------------------------------------------------------------------
(* Where a field lies in a file.                                             *)

(* Places g for the characters of t behind place a: two for a quote.         *)
Spread(f, t, a, g) ==
  /\ g \in [0..Len(t) -> Nat] /\ g[0] = a
  /\ \A i \in 1..Len(t) :
       IF t[i] = Quote
       THEN g[i] = g[i - 1] + 2 /\ f[g[i - 1] + 1] = Quote /\ f[g[i - 1] + 2] = Quote
       ELSE g[i] = g[i - 1] + 1 /\ f[g[i - 1] + 1] = t[i]
PlainAt(f, p, q, t, sep) ==
  /\ q = p + Len(t) + 1
  /\ \A i \in 1..Len(t) : f[p + i] = t[i] /\ t[i] \notin {Quote, EndOfLine, sep}
QuotedBy(f, p, q, t, g) ==
  Spread(f, t, p + 1, g) /\ q = g[Len(t)] + 2 /\ f[p + 1] = Quote /\ f[q - 1] = Quote
QuotedAt(f, p, q, t) == \E g : QuotedBy(f, p, q, t, g)
FieldAt(f, p, q, t, sep, closing) ==
  /\ t \in Seq(Characters) /\ p \in Nat /\ q \in Nat /\ q <= Len(f) /\ f[q] = closing
  /\ PlainAt(f, p, q, t, sep) \/ QuotedAt(f, p, q, t)

LEMMA SpreadGrows ==
  ASSUME NEW f, NEW t \in Seq(Characters), NEW a \in Nat, NEW g, Spread(f, t, a, g)
  PROVE  \A i \in 0..Len(t) : g[i] \in Nat /\ g[i] >= a + i
<1> DEFINE T == {i \in Nat : i <= Len(t) => g[i] >= a + i}
<1>1. Len(t) \in Nat BY LenProperties
<1>2. \A i \in 0..Len(t) : g[i] \in Nat BY DEF Spread
<1>3. 0 \in T BY DEF Spread
<1>4. ASSUME NEW i \in Nat, i < Len(t), i \in T PROVE i + 1 \in T
  <2>1. i + 1 \in 1..Len(t) /\ (i + 1) - 1 = i BY <1>1, <1>4
  <2>2. g[i + 1] = g[i] + 1 \/ g[i + 1] = g[i] + 2 BY <2>1 DEF Spread
  <2>3. g[i] \in Nat /\ g[i] >= a + i BY <1>1, <1>2, <1>4
  <2> QED BY <2>2, <2>3
<1>5. \A i \in 0..Len(t) : i \in T
  <2>1. \A i \in Nat : i < Len(t) /\ i \in T => i + 1 \in T BY <1>4
  <2> HIDE DEF T
  <2> QED BY <1>1, <1>3, <2>1, Induction
<1> QED BY <1>2, <1>5

(* Every place behind the first is at or before another.                     *)
LEMMA PlacesCover ==
  ASSUME NEW n \in Nat, NEW g \in [0..n -> Nat], NEW k \in g[0] + 1..g[n]
  PROVE  \E i \in 1..n : g[i - 1] < k /\ k <= g[i]
<1> DEFINE T == {m \in Nat : m <= n /\ k <= g[m] =>
                   \E i \in 1..n : g[i - 1] < k /\ k <= g[i]}
<1>1. 0 \in 0..n /\ n \in 0..n /\ \A i \in 0..n : g[i] \in Nat OBVIOUS
<1>2. 0 \in T
  <2>1. ~(k <= g[0]) BY <1>1
  <2> QED BY <2>1
<1>3. ASSUME NEW m \in Nat, m < n, m \in T PROVE m + 1 \in T
  <2>1. m + 1 \in 1..n /\ (m + 1) - 1 = m /\ m \in 0..n BY <1>3
  <2>2. g[m] \in Nat BY <1>1, <2>1
  <2>3. CASE k <= g[m] BY <1>3, <2>3
  <2>4. CASE ~(k <= g[m])
    <3>1. g[(m + 1) - 1] < k BY <2>1, <2>2, <2>4
    <3> QED BY <2>1, <3>1
  <2> QED BY <2>3, <2>4
<1>4. \A m \in 0..n : m \in T
  <2>1. \A m \in Nat : m < n /\ m \in T => m + 1 \in T BY <1>3
  <2> HIDE DEF T
  <2> QED BY <1>2, <2>1, Induction
<1>5. n \in T BY <1>1, <1>4
<1> QED BY <1>1, <1>5

(* Doubled quotes leave the parity as it was.                                *)
LEMMA SpreadParity ==
  ASSUME NEW f, NEW t \in Seq(Characters), NEW a \in Nat, NEW g, Spread(f, t, a, g)
  PROVE  \A i \in 0..Len(t) : Odd(f, g[i] + 1) <=> Odd(f, a + 1)
<1> DEFINE T == {i \in Nat : i <= Len(t) => (Odd(f, g[i] + 1) <=> Odd(f, a + 1))}
<1>1. Len(t) \in Nat BY LenProperties
<1>2. \A i \in 0..Len(t) : g[i] \in Nat BY DEF Spread
<1>3. 0 \in T BY DEF Spread
<1>4. ASSUME NEW i \in Nat, i < Len(t), i \in T PROVE i + 1 \in T
  <2> DEFINE j == i + 1
             b == g[i]
  <2>1. j \in 1..Len(t) /\ j - 1 = i /\ i \in 0..Len(t) BY <1>1, <1>4
  <2>2. b \in Nat /\ (Odd(f, b + 1) <=> Odd(f, a + 1)) BY <1>2, <1>4, <2>1
  <2>3. IF t[j] = Quote THEN g[j] = b + 2 /\ f[b + 1] = Quote /\ f[b + 2] = Quote
        ELSE g[j] = b + 1 /\ f[b + 1] = t[j]
    BY <2>1 DEF Spread
  <2> HIDE DEF j, b
  <2>4. b + 1 \in Nat \ {0} /\ b + 2 \in Nat \ {0} /\ (b + 1) + 1 = b + 2 BY <2>2
  <2>5. /\ Odd(f, b + 2) <=> (Odd(f, b + 1) <=> f[b + 1] # Quote)
        /\ Odd(f, (b + 2) + 1) <=> (Odd(f, b + 2) <=> f[b + 2] # Quote)
    <3>1. Odd(f, (b + 1) + 1) <=> (Odd(f, b + 1) <=> f[b + 1] # Quote) BY <2>4, ParityStep
    <3>2. Odd(f, (b + 2) + 1) <=> (Odd(f, b + 2) <=> f[b + 2] # Quote) BY <2>4, ParityStep
    <3> QED BY <2>4, <3>1, <3>2
  <2>6. Odd(f, g[j] + 1) <=> Odd(f, a + 1)
    <3>1. CASE t[j] = Quote
      <4>1. g[j] = b + 2 /\ f[b + 1] = Quote /\ f[b + 2] = Quote BY <2>3, <3>1
      <4> QED BY <2>2, <2>5, <4>1
    <3>2. CASE t[j] # Quote
      <4>1. g[j] = b + 1 /\ f[b + 1] # Quote BY <2>3, <3>2
      <4> QED BY <2>2, <2>4, <2>5, <4>1
    <3> QED BY <3>1, <3>2
  <2> QED BY <2>6 DEF j
<1>5. \A i \in 0..Len(t) : i \in T
  <2>1. \A i \in Nat : i < Len(t) /\ i \in T => i + 1 \in T BY <1>4
  <2> HIDE DEF T
  <2> QED BY <1>1, <1>3, <2>1, Induction
<1> QED BY <1>5

(* A field hides its separators and ends of line, and its closing character  *)
(* is open again.                                                            *)
Hides(f, p, q, sep) ==
  /\ p < q /\ ~Odd(f, q)
  /\ \A k \in p + 1..q - 1 : f[k] \in {EndOfLine, sep} => Odd(f, k)

LEMMA PlainHides ==
  ASSUME NEW f, NEW p \in Nat, NEW q \in Nat, NEW t \in Seq(Characters), NEW sep,
         PlainAt(f, p, q, t, sep), ~Odd(f, p + 1)
  PROVE  Hides(f, p, q, sep)
<1> DEFINE T == {i \in Nat : i <= Len(t) => ~Odd(f, p + i + 1)}
<1>1. Len(t) \in Nat BY LenProperties
<1>2. q = p + Len(t) + 1 /\ \A i \in 1..Len(t) : f[p + i] \notin {Quote, EndOfLine, sep}
  BY DEF PlainAt
<1>3. 0 \in T
  <2>1. p + 0 + 1 = p + 1 OBVIOUS
  <2> QED BY <2>1
<1>4. ASSUME NEW i \in Nat, i < Len(t), i \in T PROVE i + 1 \in T
  <2>1. i + 1 \in 1..Len(t) /\ p + i + 1 \in Nat \ {0} /\ p + (i + 1) = p + i + 1
        /\ p + (i + 1) + 1 = (p + i + 1) + 1
    BY <1>1, <1>4
  <2>2. ~Odd(f, p + i + 1) BY <1>1, <1>4
  <2>3. f[p + i + 1] # Quote BY <1>2, <2>1
  <2>4. ~Odd(f, (p + i + 1) + 1) BY <2>1, <2>2, <2>3, ParityStep
  <2> QED BY <2>1, <2>4
<1>5. \A i \in 0..Len(t) : i \in T
  <2>1. \A i \in Nat : i < Len(t) /\ i \in T => i + 1 \in T BY <1>4
  <2> HIDE DEF T
  <2> QED BY <1>1, <1>3, <2>1, Induction
<1>6. ~Odd(f, q)
  <2>1. Len(t) \in T BY <1>1, <1>5
  <2> QED BY <1>1, <1>2, <2>1
<1>7. ASSUME NEW k \in p + 1..q - 1 PROVE f[k] \notin {EndOfLine, sep}
  <2>1. k - p \in 1..Len(t) /\ p + (k - p) = k BY <1>1, <1>2
  <2>2. f[p + (k - p)] \notin {EndOfLine, sep} BY <1>2, <2>1
  <2> QED BY <2>1, <2>2
<1>8. p < q BY <1>1, <1>2
<1> QED BY <1>6, <1>7, <1>8 DEF Hides

LEMMA QuotedHides ==
  ASSUME NEW f, NEW p \in Nat, NEW q \in Nat, NEW t \in Seq(Characters), NEW sep, sep # Quote,
         QuotedAt(f, p, q, t), ~Odd(f, p + 1)
  PROVE  Hides(f, p, q, sep)
<1>1. PICK g : QuotedBy(f, p, q, t, g) BY DEF QuotedAt
<1>2. /\ Spread(f, t, p + 1, g) /\ q = g[Len(t)] + 2 /\ f[p + 1] = Quote /\ f[q - 1] = Quote
  BY <1>1 DEF QuotedBy
<1>3. Len(t) \in Nat /\ p + 1 \in Nat BY LenProperties
<1>4. \A i \in 0..Len(t) : g[i] \in Nat /\ g[i] >= p + 1 + i BY <1>2, <1>3, SpreadGrows
<1>5. Odd(f, (p + 1) + 1)
  <2>1. p + 1 \in Nat \ {0} OBVIOUS
  <2> QED BY <1>2, <2>1, ParityStep
<1>6. \A i \in 0..Len(t) : Odd(f, g[i] + 1) BY <1>2, <1>3, <1>5, SpreadParity
<1>7. p < q /\ q - 1 \in Nat \ {0} /\ (q - 1) + 1 = q /\ q - 1 = g[Len(t)] + 1
      /\ Len(t) \in 0..Len(t) /\ g[Len(t)] \in Nat
  BY <1>2, <1>3, <1>4
<1>8. ~Odd(f, q)
  <2>1. Odd(f, q - 1) BY <1>6, <1>7
  <2>2. Odd(f, (q - 1) + 1) <=> (Odd(f, q - 1) <=> f[q - 1] # Quote) BY <1>7, ParityStep
  <2> QED BY <1>2, <1>7, <2>1, <2>2
<1>9. ASSUME NEW k \in p + 1..q - 1, f[k] \in {EndOfLine, sep} PROVE Odd(f, k)
  <2>1. f[k] # Quote BY <1>9, CharactersDiffer
  <2>2. k \in (p + 1) + 1..g[Len(t)]
    <3>1. k # p + 1 /\ k # q - 1 BY <1>2, <2>1
    <3>2. k \in Nat /\ p + 1 <= k /\ k <= q - 1 OBVIOUS
    <3> QED BY <1>7, <3>1, <3>2
  <2>3. PICK i \in 1..Len(t) : g[i - 1] < k /\ k <= g[i]
    <3>1. g[0] = p + 1 /\ g \in [0..Len(t) -> Nat] BY <1>2 DEF Spread
    <3> QED BY <1>3, <2>2, <3>1, PlacesCover
  <2>4. i - 1 \in 0..Len(t) /\ g[i - 1] \in Nat /\ g[i] \in Nat BY <1>3, <1>4
  <2>5. IF t[i] = Quote
        THEN g[i] = g[i - 1] + 2 /\ f[g[i - 1] + 1] = Quote /\ f[g[i - 1] + 2] = Quote
        ELSE g[i] = g[i - 1] + 1 /\ f[g[i - 1] + 1] = t[i]
    BY <1>2 DEF Spread
  <2>6. k \in Nat BY <2>2
  <2>7. CASE t[i] = Quote
    <3> DEFINE x == g[i - 1]
               y == g[i]
    <3>1. x \in Nat /\ y = x + 2 /\ x < k /\ k <= y BY <2>3, <2>4, <2>5, <2>7
    <3> HIDE DEF x, y
    <3>2. k = x + 1 \/ k = x + 2 BY <2>6, <3>1
    <3> QED BY <2>1, <2>5, <2>7, <3>2 DEF x
  <2>8. CASE t[i] # Quote
    <3> DEFINE x == g[i - 1]
               y == g[i]
    <3>1. x \in Nat /\ y = x + 1 /\ x < k /\ k <= y BY <2>3, <2>4, <2>5, <2>8
    <3> HIDE DEF x, y
    <3>2. k = x + 1 BY <2>6, <3>1
    <3> QED BY <1>6, <2>4, <3>2 DEF x
  <2> QED BY <2>7, <2>8
<1> QED BY <1>7, <1>8, <1>9 DEF Hides

LEMMA FieldHides ==
  ASSUME NEW f, NEW p, NEW q, NEW t, NEW sep, sep # Quote, NEW closing, closing # Quote,
         FieldAt(f, p, q, t, sep, closing), ~Odd(f, p + 1)
  PROVE  Hides(f, p, q, sep) /\ ~Odd(f, q + 1)
<1>1. t \in Seq(Characters) /\ p \in Nat /\ q \in Nat /\ f[q] = closing BY DEF FieldAt
<1>2. Hides(f, p, q, sep) BY <1>1, PlainHides, QuotedHides DEF FieldAt
<1>3. q \in Nat \ {0} BY <1>1, <1>2 DEF Hides
<1>4. ~Odd(f, q + 1) BY <1>1, <1>2, <1>3, ParityStep DEF Hides
<1> QED BY <1>2, <1>4

-----------------------------------------------------------------------------
(* What is written lies where it should.                                     *)

(* The parts of a flattened sequence lie behind each other, at the places g. *)
Placed(ss, g) ==
  /\ g \in [0..Len(ss) -> Nat] /\ g[0] = 0
  /\ \A i \in 1..Len(ss) : g[i] = g[i - 1] + Len(ss[i])
PartsAt(ss, s, g, n) ==
  /\ Len(s) = g[n]
  /\ \A i \in 1..n : \A j \in 1..Len(ss[i]) : s[g[i - 1] + j] = ss[i][j]

LEMMA PlacedGrows ==
  ASSUME NEW S, NEW ss \in Seq(Seq(S)), NEW g, Placed(ss, g), NEW n \in 0..Len(ss)
  PROVE  \A i \in 1..n : g[i - 1] \in Nat /\ g[i] \in Nat /\ Len(ss[i]) \in Nat /\ g[i] <= g[n]
<1> DEFINE T == {m \in Nat : m <= Len(ss) => \A i \in 1..m : g[i] <= g[m]}
<1>1. Len(ss) \in Nat /\ \A i \in 1..Len(ss) : Len(ss[i]) \in Nat BY LenProperties, ElementOfSeq
<1>2. \A i \in 0..Len(ss) : g[i] \in Nat BY DEF Placed
<1>3. 0 \in T OBVIOUS
<1>4. ASSUME NEW m \in Nat, m < Len(ss), m \in T PROVE m + 1 \in T
  <2>1. m + 1 \in 1..Len(ss) /\ (m + 1) - 1 = m /\ m \in 0..Len(ss) /\ m + 1 \in 0..Len(ss)
    BY <1>1, <1>4
  <2>2. g[m + 1] = g[m] + Len(ss[m + 1]) BY <2>1 DEF Placed
  <2>3. g[m] \in Nat /\ g[m + 1] \in Nat /\ Len(ss[m + 1]) \in Nat BY <1>1, <1>2, <2>1
  <2>4. g[m] <= g[m + 1] BY <2>2, <2>3
  <2>5. \A i \in 1..m + 1 : i = m + 1 \/ i \in 1..m OBVIOUS
  <2>6. \A i \in 1..m : g[i] <= g[m] /\ g[i] \in Nat BY <1>1, <1>2, <1>4
  <2>7. \A i \in 1..m + 1 : g[i] <= g[m + 1]
    <3> SUFFICES ASSUME NEW i \in 1..m + 1 PROVE g[i] <= g[m + 1] OBVIOUS
    <3>1. CASE i = m + 1 BY <2>3, <3>1
    <3>2. CASE i \in 1..m BY <2>3, <2>4, <2>6, <3>2
    <3> QED BY <2>5, <3>1, <3>2
  <2> QED BY <2>7
<1>5. \A m \in 0..Len(ss) : m \in T
  <2>1. \A m \in Nat : m < Len(ss) /\ m \in T => m + 1 \in T BY <1>4
  <2> HIDE DEF T
  <2> QED BY <1>1, <1>3, <2>1, Induction
<1>6. \A i \in 1..n : g[i] <= g[n] BY <1>1, <1>5
<1>7. \A i \in 1..n : i - 1 \in 0..Len(ss) /\ i \in 0..Len(ss) /\ i \in 1..Len(ss) BY <1>1
<1> QED BY <1>1, <1>2, <1>6, <1>7

LEMMA PlacesExist ==
  ASSUME NEW S, NEW ss \in Seq(Seq(S))
  PROVE  \E g : Placed(ss, g)
<1> DEFINE N == Len(ss)
           F == [x \in (1..N) \X Nat |-> x[2] + Len(ss[x[1]])]
<1>1. N \in Nat /\ \A i \in 1..N : Len(ss[i]) \in Nat BY LenProperties, ElementOfSeq
<1> HIDE DEF N
<1>2. F \in Steps(N, Nat)
  <2>1. \A x \in (1..N) \X Nat : x[2] + Len(ss[x[1]]) \in Nat
    <3> SUFFICES ASSUME NEW x \in (1..N) \X Nat PROVE x[2] + Len(ss[x[1]]) \in Nat OBVIOUS
    <3>1. x[1] \in 1..N /\ x[2] \in Nat OBVIOUS
    <3>2. Len(ss[x[1]]) \in Nat BY <1>1, <3>1
    <3> QED BY <3>1, <3>2
  <2> QED BY <2>1 DEF Steps
<1>3. PICK g : Follows(N, Nat, 0, F, g)
  <2> HIDE DEF F
  <2> QED BY <1>1, <1>2, Recursion
<1>4. g \in [0..N -> Nat] /\ g[0] = 0 /\ \A i \in 1..N : g[i] = F[<<i, g[i - 1]>>]
  BY <1>3 DEF Follows
<1>5. ASSUME NEW i \in 1..N PROVE g[i] = g[i - 1] + Len(ss[i])
  <2>1. i - 1 \in 0..N BY <1>1
  <2>2. g[i - 1] \in Nat BY <1>4, <2>1
  <2>3. <<i, g[i - 1]>> \in (1..N) \X Nat BY <2>2
  <2>4. F[<<i, g[i - 1]>>] = g[i - 1] + Len(ss[i]) BY <2>3
  <2> HIDE DEF F
  <2> QED BY <1>4, <2>4
<1> QED BY <1>4, <1>5 DEF Placed, N

LEMMA FlattenPlaces ==
  ASSUME NEW S, NEW ss \in Seq(Seq(S)), NEW g, Placed(ss, g)
  PROVE  PartsAt(ss, FlattenSeq(ss), g, Len(ss))
<1> DEFINE N == Len(ss)
           h == CHOOSE h : FlattenEquation(ss, h)
           T == {n \in Nat : 1 <= n /\ n <= N => h[n] \in Seq(S) /\ PartsAt(ss, h[n], g, n)}
<1>1. N \in Nat /\ \A i \in 1..N : ss[i] \in Seq(S) /\ Len(ss[i]) \in Nat
  BY LenProperties, ElementOfSeq
<1>2. FlattenSeq(ss) = IF N = 0 THEN ss ELSE h[N] BY DEF FlattenSeq, FlattenEquation
<1>3. FlattenEquation(ss, h) BY FlattenExists
<1> HIDE DEF h
<1>4. \A i \in 1..N : h[i] = IF i = 1 THEN ss[i] ELSE h[i - 1] \o ss[i] BY <1>3 DEF FlattenEquation
<1>5. g[0] = 0 /\ \A i \in 1..N : g[i] = g[i - 1] + Len(ss[i]) BY DEF Placed
<1> HIDE DEF N
<1>6. 0 \in T OBVIOUS
<1>7. ASSUME NEW n \in Nat, n < N, n \in T PROVE n + 1 \in T
  <2> DEFINE m == n + 1
  <2>1. m \in 1..N /\ m - 1 = n BY <1>1, <1>7
  <2> HIDE DEF m
  <2>2. ss[m] \in Seq(S) /\ Len(ss[m]) \in Nat /\ g[m] = g[n] + Len(ss[m]) BY <1>1, <1>5, <2>1
  <2>3. CASE n = 0
    <3>1. m = 1 BY <2>3 DEF m
    <3>2. h[m] = ss[m] BY <1>4, <2>1, <3>1
    <3>3. g[m] = Len(ss[m]) /\ g[0] = 0 BY <1>5, <2>2, <2>3
    <3>4. \A i \in 1..m : i = m /\ i - 1 = 0 BY <3>1
    <3>5. \A j \in 1..Len(ss[m]) : g[0] + j = j BY <3>3
    <3>6. PartsAt(ss, h[m], g, m) BY <3>2, <3>3, <3>4, <3>5 DEF PartsAt
    <3> QED BY <2>2, <3>2, <3>6 DEF m
  <2>4. CASE n # 0
    <3>0. n \in 0..N /\ 1 <= n /\ n <= N BY <1>1, <1>7, <2>4
    <3>1. n \in 0..Len(ss) /\ h[n] \in Seq(S) /\ PartsAt(ss, h[n], g, n)
      <4>1. h[n] \in Seq(S) /\ PartsAt(ss, h[n], g, n) BY <1>7, <3>0
      <4> QED BY <3>0, <4>1 DEF N
    <3>2. h[m] = h[n] \o ss[m]
      <4>1. m # 1 BY <2>1, <2>4
      <4> QED BY <1>4, <2>1, <4>1
    <3>3. Len(h[n]) = g[n] /\ Len(h[n]) \in Nat
          /\ \A i \in 1..n : \A j \in 1..Len(ss[i]) : h[n][g[i - 1] + j] = ss[i][j]
      BY <3>1, LenProperties DEF PartsAt
    <3>4. /\ h[m] \in Seq(S) /\ Len(h[m]) = g[n] + Len(ss[m])
          /\ \A k \in 1..g[n] + Len(ss[m]) :
               h[m][k] = IF k <= g[n] THEN h[n][k] ELSE ss[m][k - g[n]]
      <4>1. /\ h[n] \o ss[m] \in Seq(S)
            /\ Len(h[n] \o ss[m]) = Len(h[n]) + Len(ss[m])
            /\ \A k \in 1..Len(h[n]) + Len(ss[m]) :
                 (h[n] \o ss[m])[k] = IF k <= Len(h[n]) THEN h[n][k] ELSE ss[m][k - Len(h[n])]
        BY <2>2, <3>1, ConcatProperties
      <4> QED BY <3>2, <3>3, <4>1
    <3>5. ASSUME NEW i \in 1..m, NEW j \in 1..Len(ss[i])
          PROVE  h[m][g[i - 1] + j] = ss[i][j]
      <4>1. CASE i = m
        <5>1. j \in 1..Len(ss[m]) /\ i - 1 = n BY <2>1, <4>1
        <5>2. g[n] \in Nat BY <3>3
        <5>3. g[n] + j \in 1..g[n] + Len(ss[m]) /\ ~(g[n] + j <= g[n]) /\ (g[n] + j) - g[n] = j
          <6> DEFINE x == g[n]
                     l == Len(ss[m])
          <6>1. x \in Nat /\ l \in Nat /\ j \in 1..l BY <2>2, <5>1, <5>2
          <6> HIDE DEF x, l
          <6>2. x + j \in 1..x + l /\ ~(x + j <= x) /\ (x + j) - x = j BY <6>1
          <6> QED BY <6>2 DEF x, l
        <5>4. h[m][g[n] + j] = ss[m][(g[n] + j) - g[n]] BY <3>4, <5>3
        <5> QED BY <4>1, <5>1, <5>3, <5>4
      <4>2. CASE i # m
        <5>1. i \in 1..n /\ i \in 1..N BY <1>1, <2>1, <4>2
        <5>2. g[i - 1] \in Nat /\ g[i] \in Nat /\ g[i] <= g[n] /\ Len(ss[i]) \in Nat
          BY <3>1, <5>1, PlacedGrows
        <5>3. g[i] = g[i - 1] + Len(ss[i]) BY <1>5, <5>1
        <5>4. g[i - 1] + j \in 1..g[n] + Len(ss[m]) /\ g[i - 1] + j <= g[n]
          <6> DEFINE a == g[i - 1]
                     e == g[n]
          <6>1. e \in Nat /\ a \in Nat BY <3>3, <5>2
          <6>2. a + Len(ss[i]) <= e /\ j \in 1..Len(ss[i]) BY <5>2, <5>3
          <6>3. Len(ss[i]) \in Nat /\ Len(ss[m]) \in Nat BY <2>2, <5>2
          <6> HIDE DEF a, e
          <6>4. a + j \in 1..e + Len(ss[m]) /\ a + j <= e BY <6>1, <6>2, <6>3
          <6> QED BY <6>4 DEF a, e
        <5>5. h[m][g[i - 1] + j] = h[n][g[i - 1] + j] BY <3>4, <5>4
        <5>6. h[n][g[i - 1] + j] = ss[i][j] BY <3>3, <5>1
        <5> QED BY <5>5, <5>6
      <4> QED BY <4>1, <4>2
    <3>6. PartsAt(ss, h[m], g, m) BY <2>2, <3>4, <3>5 DEF PartsAt
    <3> QED BY <3>4, <3>6 DEF m
  <2> QED BY <2>3, <2>4
<1>8. \A n \in 0..N : n \in T
  <2>1. \A n \in Nat : n < N /\ n \in T => n + 1 \in T BY <1>7
  <2> HIDE DEF T
  <2> QED BY <1>1, <1>6, <2>1, Induction
<1>9. CASE N = 0
  <2>1. ss = <<>> BY <1>9, EmptySeq DEF N
  <2>2. FlattenSeq(ss) = <<>> /\ Len(<<>>) = 0 /\ 1..0 = {} BY <1>2, <1>9, <2>1
  <2> QED BY <1>5, <1>9, <2>2 DEF PartsAt, N
<1>10. CASE N # 0
  <2>1. N \in 0..N /\ 1 <= N BY <1>1, <1>10
  <2>2. PartsAt(ss, h[N], g, N) BY <1>1, <1>8, <2>1
  <2> QED BY <1>2, <1>10, <2>2 DEF N
<1> QED BY <1>9, <1>10

LEMMA SpreadBounded ==
  ASSUME NEW f, NEW t \in Seq(Characters), NEW a \in Nat, NEW g, Spread(f, t, a, g)
  PROVE  \A i \in 0..Len(t) : g[i] <= g[Len(t)]
<1> DEFINE T == {m \in Nat : m <= Len(t) => \A i \in 0..m : g[i] <= g[m]}
<1>1. Len(t) \in Nat BY LenProperties
<1>2. \A i \in 0..Len(t) : g[i] \in Nat BY DEF Spread
<1>3. 0 \in T
  <2>1. g[0] \in Nat /\ \A i \in 0..0 : i = 0 BY <1>1, <1>2
  <2> QED BY <2>1
<1>4. ASSUME NEW m \in Nat, m < Len(t), m \in T PROVE m + 1 \in T
  <2> DEFINE n == m + 1
  <2>1. n \in 1..Len(t) /\ n - 1 = m /\ m \in 0..Len(t) /\ n \in 0..Len(t) BY <1>1, <1>4
  <2>2. g[m] \in Nat /\ g[n] \in Nat BY <1>2, <2>1
  <2>3. g[n] = g[m] + 1 \/ g[n] = g[m] + 2 BY <2>1 DEF Spread
  <2>4. \A i \in 0..m : i \in 0..Len(t) /\ g[i] <= g[m] BY <1>1, <1>4
  <2>5. \A i \in 0..n : i = n \/ i \in 0..m OBVIOUS
  <2> HIDE DEF n
  <2>6. ASSUME NEW i \in 0..n PROVE g[i] <= g[n]
    <3>1. CASE i = n BY <2>2, <3>1
    <3>2. CASE i \in 0..m
      <4>1. g[i] \in Nat /\ g[i] <= g[m] BY <1>2, <2>4, <3>2
      <4> QED BY <2>2, <2>3, <4>1
    <3> QED BY <2>5, <3>1, <3>2
  <2> QED BY <2>6 DEF n
<1>5. \A m \in 0..Len(t) : m \in T
  <2>1. \A m \in Nat : m < Len(t) /\ m \in T => m + 1 \in T BY <1>4
  <2> HIDE DEF T
  <2> QED BY <1>1, <1>3, <2>1, Induction
<1>6. Len(t) \in T BY <1>1, <1>5
<1> QED BY <1>6

(* What is read of a field does not change when the file grows.              *)
Extends(f, F) == Len(F) >= Len(f) /\ \A k \in 1..Len(f) : F[k] = f[k]

LEMMA FieldStays ==
  ASSUME NEW f \in Seq(Characters), NEW F \in Seq(Characters), Extends(f, F),
         NEW p, NEW q, NEW t, NEW sep, NEW closing, FieldAt(f, p, q, t, sep, closing)
  PROVE  FieldAt(F, p, q, t, sep, closing)
<1>1. t \in Seq(Characters) /\ p \in Nat /\ q \in Nat /\ q <= Len(f) /\ f[q] = closing
  BY DEF FieldAt
<1>2. Len(t) \in Nat /\ Len(f) \in Nat /\ Len(F) \in Nat BY <1>1, LenProperties
<1>3. Len(F) >= Len(f) /\ \A k \in 1..Len(f) : F[k] = f[k] BY DEF Extends
<1>4. CASE PlainAt(f, p, q, t, sep)
  <2>1. q = p + Len(t) + 1 /\ \A i \in 1..Len(t) : f[p + i] = t[i] /\ t[i] \notin {Quote, EndOfLine, sep}
    BY <1>4 DEF PlainAt
  <2>2. \A i \in 1..Len(t) : p + i \in 1..Len(f) BY <1>1, <1>2, <2>1
  <2>3. q \in 1..Len(f) BY <1>1, <1>2, <2>1
  <2>4. PlainAt(F, p, q, t, sep) BY <1>3, <2>1, <2>2 DEF PlainAt
  <2> QED BY <1>1, <1>2, <1>3, <2>3, <2>4 DEF FieldAt
<1>5. CASE QuotedAt(f, p, q, t)
  <2>1. PICK g : QuotedBy(f, p, q, t, g) BY <1>5 DEF QuotedAt
  <2>2. /\ Spread(f, t, p + 1, g) /\ q = g[Len(t)] + 2 /\ f[p + 1] = Quote /\ f[q - 1] = Quote
    BY <2>1 DEF QuotedBy
  <2>3. p + 1 \in Nat BY <1>1
  <2>4. \A i \in 0..Len(t) : g[i] \in Nat /\ g[i] >= p + 1 + i BY <1>1, <2>2, <2>3, SpreadGrows
  <2>5. \A i \in 0..Len(t) : g[i] <= g[Len(t)] BY <1>1, <2>2, <2>3, SpreadBounded
  <2>6. p + 1 \in 1..Len(f) /\ q - 1 \in 1..Len(f) /\ q \in 1..Len(f)
    <3> DEFINE e == g[Len(t)]
               l == Len(f)
               n == Len(t)
    <3>1. e \in Nat /\ e >= p + 1 + n /\ q = e + 2 BY <1>2, <2>2, <2>4
    <3>2. p \in Nat /\ q \in Nat /\ q <= l /\ n \in Nat /\ l \in Nat BY <1>1, <1>2
    <3> HIDE DEF e, l, n
    <3>3. p + 1 \in 1..l /\ q - 1 \in 1..l /\ q \in 1..l BY <3>1, <3>2
    <3> QED BY <3>3 DEF l
  <2>7. ASSUME NEW i \in 1..Len(t)
        PROVE  IF t[i] = Quote
               THEN g[i] = g[i - 1] + 2 /\ F[g[i - 1] + 1] = Quote /\ F[g[i - 1] + 2] = Quote
               ELSE g[i] = g[i - 1] + 1 /\ F[g[i - 1] + 1] = t[i]
    <3>1. i - 1 \in 0..Len(t) /\ i \in 0..Len(t) BY <1>2
    <3>2. g[i - 1] \in Nat /\ g[i] \in Nat /\ g[i] <= g[Len(t)] /\ g[Len(t)] \in Nat
      BY <1>2, <2>4, <2>5, <3>1
    <3>3. IF t[i] = Quote
          THEN g[i] = g[i - 1] + 2 /\ f[g[i - 1] + 1] = Quote /\ f[g[i - 1] + 2] = Quote
          ELSE g[i] = g[i - 1] + 1 /\ f[g[i - 1] + 1] = t[i]
      BY <2>2 DEF Spread
    <3>4. g[i] <= Len(f) BY <1>1, <1>2, <2>2, <3>2
    <3>5. CASE t[i] = Quote
      <4>1. g[i - 1] + 1 \in 1..Len(f) /\ g[i - 1] + 2 \in 1..Len(f)
        <5> DEFINE x == g[i - 1]
                   y == g[i]
                   l == Len(f)
        <5>1. y = x + 2 BY <3>3, <3>5
        <5>2. x \in Nat /\ y <= l /\ l \in Nat BY <1>2, <3>2, <3>4
        <5> HIDE DEF x, y, l
        <5>3. x + 1 \in 1..l /\ x + 2 \in 1..l BY <5>1, <5>2
        <5> QED BY <5>3 DEF x, l
      <4> QED BY <1>3, <3>3, <3>5, <4>1
    <3>6. CASE t[i] # Quote
      <4>1. g[i - 1] + 1 \in 1..Len(f)
        <5> DEFINE x == g[i - 1]
                   y == g[i]
                   l == Len(f)
        <5>1. y = x + 1 BY <3>3, <3>6
        <5>2. x \in Nat /\ y <= l /\ l \in Nat BY <1>2, <3>2, <3>4
        <5> HIDE DEF x, y, l
        <5>3. x + 1 \in 1..l BY <5>1, <5>2
        <5> QED BY <5>3 DEF x, l
      <4> QED BY <1>3, <3>3, <3>6, <4>1
    <3> QED BY <3>5, <3>6
  <2>8. Spread(F, t, p + 1, g) BY <2>2, <2>7 DEF Spread
  <2>9. F[p + 1] = Quote /\ F[q - 1] = Quote /\ F[q] = closing BY <1>1, <1>3, <2>2, <2>6
  <2>10. QuotedAt(F, p, q, t) BY <2>2, <2>8, <2>9 DEF QuotedAt, QuotedBy
  <2> QED BY <1>1, <1>2, <1>3, <2>9, <2>10 DEF FieldAt
<1> QED BY <1>4, <1>5 DEF FieldAt

(* Text is at place a when the file has its characters behind it.            *)
Holds(f, a, w) == \A k \in 1..Len(w) : f[a + k] = w[k]

LEMMA DoublePlaces ==
  ASSUME NEW t \in Seq(Characters), NEW f, NEW a \in Nat, Holds(f, a, DoubleQuotes(t))
  PROVE  \E g : Spread(f, t, a, g) /\ g[Len(t)] = a + Len(DoubleQuotes(t))
<1> DEFINE ss == [i \in DOMAIN t |-> IF t[i] = Quote THEN <<Quote, Quote>> ELSE <<t[i]>>]
           N == Len(t)
           D == DoubleQuotes(t)
<1>1. N \in Nat /\ DOMAIN t = 1..N /\ \A i \in 1..N : t[i] \in Characters
  BY LenProperties, ElementOfSeq
<1>2. /\ ss \in Seq(Seq(Characters)) /\ Len(ss) = N
      /\ \A i \in 1..N : IF t[i] = Quote THEN ss[i] = <<Quote, Quote>> ELSE ss[i] = <<t[i]>>
  <2>1. ss \in [1..N -> Seq(Characters)]
    <3>1. \A i \in 1..N : (IF t[i] = Quote THEN <<Quote, Quote>> ELSE <<t[i]>>) \in Seq(Characters)
      BY <1>1, CharactersDiffer
    <3> QED BY <1>1, <3>1
  <2>2. \A i \in 1..N : IF t[i] = Quote THEN ss[i] = <<Quote, Quote>> ELSE ss[i] = <<t[i]>>
    BY <1>1
  <2>3. DOMAIN ss = 1..N BY <1>1
  <2> HIDE DEF ss, N
  <2>4. ss \in Seq(Seq(Characters)) BY <1>1, <2>1, FunctionIsSeq
  <2>5. Len(ss) = N BY <1>1, <2>3, <2>4, LenProperties
  <2> QED BY <2>2, <2>4, <2>5
<1>3. D = FlattenSeq(ss) BY DEF DoubleQuotes
<1> HIDE DEF ss, D
<1>4. PICK h : Placed(ss, h) BY <1>2, PlacesExist
<1>5. PartsAt(ss, D, h, N) BY <1>2, <1>3, <1>4, FlattenPlaces
<1>6. h \in [0..N -> Nat] /\ h[0] = 0 /\ \A i \in 1..N : h[i] = h[i - 1] + Len(ss[i])
  BY <1>2, <1>4 DEF Placed
<1>7. Len(D) = h[N] /\ \A i \in 1..N : \A j \in 1..Len(ss[i]) : D[h[i - 1] + j] = ss[i][j]
  BY <1>5 DEF PartsAt
<1> DEFINE g == [i \in 0..N |-> a + h[i]]
<1> HIDE DEF N
<1>8. g \in [0..N -> Nat] /\ g[0] = a /\ g[N] = a + Len(D)
  <2>1. 0 \in 0..N /\ N \in 0..N BY <1>1
  <2>2. \A i \in 0..N : a + h[i] \in Nat BY <1>6
  <2>3. a + 0 = a OBVIOUS
  <2> QED BY <1>6, <1>7, <2>1, <2>2, <2>3
<1>9. ASSUME NEW i \in 1..N
      PROVE  IF t[i] = Quote
             THEN g[i] = g[i - 1] + 2 /\ f[g[i - 1] + 1] = Quote /\ f[g[i - 1] + 2] = Quote
             ELSE g[i] = g[i - 1] + 1 /\ f[g[i - 1] + 1] = t[i]
  <2> DEFINE b == h[i - 1]
  <2>1. i - 1 \in 0..N /\ i \in 0..N BY <1>1
  <2>2. b \in Nat /\ h[i] \in Nat /\ g[i - 1] = a + b /\ g[i] = a + h[i] BY <1>6, <2>1
  <2>3. h[i] = b + Len(ss[i]) BY <1>6
  <2>4. h[i] <= h[N]
    <3>1. N \in 0..Len(ss) /\ i \in 1..N BY <1>1, <1>2
    <3> QED BY <1>2, <1>4, <3>1, PlacedGrows
  <2>5. h[N] \in Nat
    <3>1. N \in 0..N BY <1>1
    <3> QED BY <1>6, <3>1
  <2>6. \A j \in 1..Len(ss[i]) : D[b + j] = ss[i][j] BY <1>7
  <2> HIDE DEF b, g
  <2>7. CASE t[i] = Quote
    <3>1. ss[i] = <<Quote, Quote>> BY <1>2, <2>7
    <3>2. Len(ss[i]) = 2 /\ ss[i][1] = Quote /\ ss[i][2] = Quote BY <3>1
    <3>3. h[i] = b + 2 /\ D[b + 1] = Quote /\ D[b + 2] = Quote
      <4>1. 1 \in 1..2 /\ 2 \in 1..2 OBVIOUS
      <4> QED BY <2>3, <2>6, <3>2, <4>1
    <3>4. b + 1 \in 1..Len(D) /\ b + 2 \in 1..Len(D) BY <1>7, <2>2, <2>4, <2>5, <3>3
    <3>5. f[a + (b + 1)] = Quote /\ f[a + (b + 2)] = Quote BY <3>3, <3>4 DEF Holds, D
    <3>6. a + (b + 1) = (a + b) + 1 /\ a + (b + 2) = (a + b) + 2 BY <2>2
    <3> QED BY <2>2, <2>7, <3>3, <3>5, <3>6
  <2>8. CASE t[i] # Quote
    <3>1. ss[i] = <<t[i]>> BY <1>2, <2>8
    <3>2. Len(ss[i]) = 1 /\ ss[i][1] = t[i] BY <3>1
    <3>3. h[i] = b + 1 /\ D[b + 1] = t[i]
      <4>1. 1 \in 1..1 OBVIOUS
      <4> QED BY <2>3, <2>6, <3>2, <4>1
    <3>4. b + 1 \in 1..Len(D) BY <1>7, <2>2, <2>4, <2>5, <3>3
    <3>5. f[a + (b + 1)] = t[i] BY <3>3, <3>4 DEF Holds, D
    <3>6. a + (b + 1) = (a + b) + 1 BY <2>2
    <3> QED BY <2>2, <2>8, <3>3, <3>5, <3>6
  <2> QED BY <2>7, <2>8
<1> HIDE DEF g
<1>10. Spread(f, t, a, g) BY <1>8, <1>9 DEF Spread, N
<1> QED BY <1>8, <1>10 DEF N, D

(* What CsviWriteField appends can be found again.                           *)
LEMMA WrittenFieldAt ==
  ASSUME NEW t \in Seq(Characters), NEW o, o.sep \in Characters,
         NEW f \in Seq(Characters), NEW p \in Nat, Holds(f, p, CsviWriteField(t, o)),
         p + Len(CsviWriteField(t, o)) <= Len(f)
  PROVE  FieldAt(f, p, p + Len(CsviWriteField(t, o)), t, o.sep,
                 IF IsLastField(o) THEN EndOfLine ELSE o.sep)
<1> DEFINE c == IF IsLastField(o) THEN EndOfLine ELSE o.sep
           w == CsviWriteField(t, o)
           q == p + Len(w)
           D == DoubleQuotes(t)
<1>1. w = (IF NeedsQuotes(t, o) THEN <<Quote>> \o D \o <<Quote>> ELSE t) \o <<c>>
  BY DEF CsviWriteField
<1>2. c \in Characters /\ Quote \in Characters BY CharactersDiffer
<1>3. w \in Seq(Characters) BY WriteFieldType
<1>4. Holds(f, p, w) /\ q <= Len(f) OBVIOUS
<1>5. Len(t) \in Nat /\ DOMAIN t = 1..Len(t) BY LenProperties
<1> HIDE DEF c, w, D
<1>6. Len(w) \in Nat /\ q \in Nat BY <1>3, LenProperties
<1>7. CASE ~NeedsQuotes(t, o)
  <2>1. w = t \o <<c>> BY <1>1, <1>7
  <2>2. <<c>> \in Seq(Characters) /\ Len(<<c>>) = 1 /\ <<c>>[1] = c BY <1>2
  <2>3. Len(w) = Len(t) + 1 /\ \A k \in 1..Len(t) + 1 : w[k] = IF k <= Len(t) THEN t[k] ELSE <<c>>[k - Len(t)]
    BY <2>1, <2>2, ConcatProperties
  <2>4. \A k \in 1..Len(t) : w[k] = t[k] BY <1>5, <2>3
  <2>5. w[Len(t) + 1] = c
    <3>1. Len(t) + 1 \in 1..Len(t) + 1 /\ ~(Len(t) + 1 <= Len(t)) /\ (Len(t) + 1) - Len(t) = 1
      BY <1>5
    <3> QED BY <2>2, <2>3, <3>1
  <2>6. q = p + Len(t) + 1 /\ q = p + (Len(t) + 1) BY <1>5, <2>3
  <2>7. f[q] = c
    <3>1. Len(t) + 1 \in 1..Len(w) BY <1>5, <2>3
    <3> QED BY <1>4, <2>5, <2>6, <3>1 DEF Holds
  <2>8. ASSUME NEW i \in 1..Len(t)
        PROVE  f[p + i] = t[i] /\ t[i] \notin {Quote, EndOfLine, o.sep}
    <3>1. i \in 1..Len(w) BY <1>5, <2>3
    <3>2. f[p + i] = t[i] BY <1>4, <2>4, <3>1 DEF Holds
    <3>3. t[i] \notin {Quote, EndOfLine, o.sep} BY <1>5, <1>7 DEF NeedsQuotes
    <3> QED BY <3>2, <3>3
  <2>9. PlainAt(f, p, q, t, o.sep) BY <2>6, <2>8 DEF PlainAt
  <2>10. FieldAt(f, p, q, t, o.sep, c) BY <1>4, <1>6, <2>7, <2>9 DEF FieldAt
  <2> QED BY <2>10 DEF c, w
<1>8. CASE NeedsQuotes(t, o)
  <2>1. w = (<<Quote>> \o D \o <<Quote>>) \o <<c>> BY <1>1, <1>8
  <2>2. D \in Seq(Characters)
    <3> DEFINE ss == [i \in DOMAIN t |-> IF t[i] = Quote THEN <<Quote, Quote>> ELSE <<t[i]>>]
    <3>1. \A i \in 1..Len(t) : (IF t[i] = Quote THEN <<Quote, Quote>> ELSE <<t[i]>>) \in Seq(Characters)
      <4>1. \A i \in 1..Len(t) : t[i] \in Characters BY ElementOfSeq
      <4> QED BY <1>2, <4>1
    <3>2. ss \in [1..Len(t) -> Seq(Characters)] BY <1>5, <3>1
    <3>3. D = FlattenSeq(ss) BY DEF D, DoubleQuotes
    <3> HIDE DEF ss
    <3> QED BY <1>5, <3>2, <3>3, FunctionIsSeq, FlattenType
  <2>3. Len(D) \in Nat BY <2>2, LenProperties
  <2>4. /\ <<c>> \in Seq(Characters) /\ Len(<<c>>) = 1 /\ <<c>>[1] = c
        /\ <<Quote>> \in Seq(Characters) /\ Len(<<Quote>>) = 1 /\ <<Quote>>[1] = Quote
    BY <1>2
  <2> DEFINE u == <<Quote>> \o D
             v == u \o <<Quote>>
  <2>5. /\ u \in Seq(Characters) /\ Len(u) = 1 + Len(D)
        /\ \A k \in 1..1 + Len(D) : u[k] = IF k <= 1 THEN <<Quote>>[k] ELSE D[k - 1]
    BY <2>2, <2>4, ConcatProperties
  <2> HIDE DEF u
  <2>6. /\ v \in Seq(Characters) /\ Len(v) = Len(u) + 1
        /\ \A k \in 1..Len(u) + 1 : v[k] = IF k <= Len(u) THEN u[k] ELSE <<Quote>>[k - Len(u)]
    BY <2>4, <2>5, ConcatProperties
  <2>7. w = v \o <<c>> BY <2>1 DEF u
  <2> HIDE DEF v
  <2>8. /\ Len(w) = Len(v) + 1
        /\ \A k \in 1..Len(v) + 1 : w[k] = IF k <= Len(v) THEN v[k] ELSE <<c>>[k - Len(v)]
    BY <2>4, <2>6, <2>7, ConcatProperties
  <2> DEFINE d == Len(D)
  <2>9. Len(u) = d + 1 /\ Len(v) = d + 2 /\ Len(w) = d + 3 BY <2>3, <2>5, <2>6, <2>8
  <2>10. w[1] = Quote
    <3>1. 1 \in 1..Len(v) + 1 /\ 1 <= Len(v) /\ 1 \in 1..Len(u) + 1 /\ 1 <= Len(u) /\ 1 \in 1..1 + Len(D)
      BY <2>3, <2>9
    <3> QED BY <2>4, <2>5, <2>6, <2>8, <3>1
  <2>11. ASSUME NEW k \in 1..d PROVE w[k + 1] = D[k]
    <3>1. /\ k + 1 \in 1..Len(v) + 1 /\ k + 1 <= Len(v) /\ k + 1 \in 1..Len(u) + 1
          /\ k + 1 <= Len(u) /\ k + 1 \in 1..1 + Len(D) /\ ~(k + 1 <= 1) /\ (k + 1) - 1 = k
      BY <2>3, <2>9
    <3> QED BY <2>5, <2>6, <2>8, <3>1
  <2>12. w[d + 2] = Quote
    <3>1. /\ d + 2 \in 1..Len(v) + 1 /\ d + 2 <= Len(v) /\ d + 2 \in 1..Len(u) + 1
          /\ ~(d + 2 <= Len(u)) /\ (d + 2) - Len(u) = 1
      BY <2>3, <2>9
    <3> QED BY <2>4, <2>6, <2>8, <3>1
  <2>13. w[d + 3] = c
    <3>1. d + 3 \in 1..Len(v) + 1 /\ ~(d + 3 <= Len(v)) /\ (d + 3) - Len(v) = 1
      BY <2>3, <2>9
    <3> QED BY <2>4, <2>8, <3>1
  <2>14. \A k \in 1..d + 3 : f[p + k] = w[k] BY <1>4, <2>9 DEF Holds
  <2> HIDE DEF d
  <2>15. d \in Nat BY <2>3 DEF d
  <2>16. q = p + (d + 3) /\ q - 1 = p + (d + 2) BY <2>9, <2>15
  <2>17. f[p + 1] = Quote /\ f[q - 1] = Quote /\ f[q] = c
    <3>1. 1 \in 1..d + 3 /\ d + 2 \in 1..d + 3 /\ d + 3 \in 1..d + 3 BY <2>15
    <3> QED BY <2>10, <2>12, <2>13, <2>14, <2>16, <3>1
  <2>18. Holds(f, p + 1, D)
    <3> SUFFICES ASSUME NEW k \in 1..Len(D) PROVE f[(p + 1) + k] = D[k] BY DEF Holds
    <3>1. k \in 1..d BY DEF d
    <3>2. k + 1 \in 1..d + 3 /\ (p + 1) + k = p + (k + 1) BY <2>15, <3>1
    <3> QED BY <2>11, <2>14, <3>1, <3>2
  <2>19. PICK g : Spread(f, t, p + 1, g) /\ g[Len(t)] = (p + 1) + Len(D)
    <3>1. p + 1 \in Nat OBVIOUS
    <3> QED BY <2>18, <3>1, DoublePlaces DEF D
  <2>20. q = g[Len(t)] + 2
    <3>1. g[Len(t)] = (p + 1) + d BY <2>19 DEF d
    <3> QED BY <2>15, <2>16, <3>1
  <2>21. QuotedAt(f, p, q, t) BY <2>17, <2>19, <2>20 DEF QuotedAt, QuotedBy
  <2>22. FieldAt(f, p, q, t, o.sep, c) BY <1>4, <1>6, <2>17, <2>21 DEF FieldAt
  <2> QED BY <2>22 DEF c, w
<1> QED BY <1>7, <1>8

-----------------------------------------------------------------------------
(* Counting fields: a record starts when dwCurrentField is a multiple of the *)
(* number of fields, and the count does not wrap inside it.                  *)
StartsRecord(cur, n, m) == m \in Nat /\ cur = m * n /\ (m + 1) * n <= DwordValues

LEMMA Modulo ==
  ASSUME NEW n \in Nat \ {0}, NEW m \in Nat, NEW j \in 0..n - 1
  PROVE  (m * n + j) % n = j
OBVIOUS

LEMMA MultipleGrows ==
  ASSUME NEW n \in Nat, NEW m \in Nat
  PROVE  m * n \in Nat /\ (m + 1) * n = m * n + n
OBVIOUS

LEMMA SmallModulo ==
  ASSUME NEW n \in Nat \ {0}
  PROVE  n % n = 0 /\ \A x \in 0..n - 1 : x % n = x
OBVIOUS

LEMMA Counting ==
  ASSUME NEW n \in Nat \ {0}, NEW cur, NEW m, StartsRecord(cur, n, m)
  PROVE  \A k \in 1..n :
           LET before == Advanced(cur, k - 1) IN
           /\ before = m * n + (k - 1)
           /\ Advanced(before, 1) = IF k = n /\ (m + 1) * n = DwordValues THEN 0 ELSE m * n + k
           /\ Advanced(before, 1) % n = 0 <=> k = n
<1> DEFINE D == DwordValues
           b == m * n
<1>1. D \in Nat \ {0} /\ m \in Nat /\ cur = b /\ (m + 1) * n <= D
  BY DwordAssumption DEF StartsRecord
<1>2. b \in Nat /\ (m + 1) * n = b + n BY <1>1, MultipleGrows
<1>3. \A j \in 0..n - 1 : (b + j) % n = j BY <1>1, Modulo
<1>4. (b + n) % n = 0
  <2>1. m + 1 \in Nat /\ 0 \in 0..n - 1 BY <1>1
  <2>2. ((m + 1) * n + 0) % n = 0 BY <2>1, Modulo
  <2>3. (m + 1) * n + 0 = b + n BY <1>2
  <2> QED BY <2>2, <2>3
<1>5. D % D = 0 /\ \A x \in 0..D - 1 : x % D = x BY <1>1, SmallModulo
<1>6. 0 % n = 0 BY SmallModulo
<1> HIDE DEF D, b
<1>7. ASSUME NEW k \in 1..n
      PROVE  LET before == Advanced(cur, k - 1) IN
             /\ before = b + (k - 1)
             /\ Advanced(before, 1) = IF k = n /\ b + n = D THEN 0 ELSE b + k
             /\ Advanced(before, 1) % n = 0 <=> k = n
  <2>1. b + (k - 1) \in 0..D - 1 BY <1>1, <1>2
  <2>2. Advanced(cur, k - 1) = b + (k - 1) BY <1>1, <1>5, <2>1 DEF Advanced, D
  <2>3. (b + (k - 1)) + 1 = b + k BY <1>2
  <2>4. Advanced(b + (k - 1), 1) = (b + k) % D BY <2>3 DEF Advanced, D
  <2>5. CASE k = n /\ b + n = D
    <3>1. (b + k) % D = 0 BY <1>5, <2>5
    <3> QED BY <1>6, <2>2, <2>4, <2>5, <3>1
  <2>6. CASE k = n /\ b + n # D
    <3>1. b + k \in 0..D - 1 BY <1>1, <1>2, <2>6
    <3>2. (b + k) % D = b + k BY <1>5, <3>1
    <3> QED BY <1>4, <2>2, <2>4, <2>6, <3>2
  <2>7. CASE k # n
    <3>1. b + k \in 0..D - 1 /\ k \in 0..n - 1 /\ k # 0 BY <1>1, <1>2, <2>7
    <3>2. (b + k) % D = b + k /\ (b + k) % n = k BY <1>3, <1>5, <3>1
    <3> QED BY <2>2, <2>4, <2>7, <3>1, <3>2
  <2> QED BY <2>5, <2>6, <2>7
<1> QED BY <1>2, <1>7 DEF b, D

-----------------------------------------------------------------------------
(* A record lies between two places, its fields between the cuts c.          *)
Closing(k, n, sep) == IF k = n THEN EndOfLine ELSE sep
RecordBy(f, c, ts, sep) ==
  /\ ts \in Seq(Seq(Characters)) /\ c \in [0..Len(ts) -> Nat]
  /\ \A k \in 1..Len(ts) : FieldAt(f, c[k - 1], c[k], ts[k], sep, Closing(k, Len(ts), sep))
RecordAt(f, p, q, ts, sep) == \E c : RecordBy(f, c, ts, sep) /\ c[0] = p /\ c[Len(ts)] = q

LEMMA RecordStays ==
  ASSUME NEW f \in Seq(Characters), NEW F \in Seq(Characters), Extends(f, F),
         NEW p, NEW q, NEW ts, NEW sep, RecordAt(f, p, q, ts, sep)
  PROVE  RecordAt(F, p, q, ts, sep)
BY FieldStays DEF RecordAt, RecordBy

LEMMA AppendedFile ==
  ASSUME NEW f \in Seq(Characters), NEW s \in Seq(Characters)
  PROVE  /\ f \o s \in Seq(Characters) /\ Extends(f, f \o s)
         /\ Len(f \o s) = Len(f) + Len(s)
         /\ \A k \in 1..Len(s) : (f \o s)[Len(f) + k] = s[k]
<1>1. Len(f) \in Nat /\ Len(s) \in Nat BY LenProperties
<1>2. /\ f \o s \in Seq(Characters) /\ Len(f \o s) = Len(f) + Len(s)
      /\ \A k \in 1..Len(f) + Len(s) : (f \o s)[k] = IF k <= Len(f) THEN f[k] ELSE s[k - Len(f)]
  BY ConcatProperties
<1> DEFINE F == f \o s
<1> HIDE DEF F
<1>3. \A k \in 1..Len(f) : k \in 1..Len(f) + Len(s) /\ k <= Len(f) BY <1>1
<1>4. \A k \in 1..Len(s) : /\ Len(f) + k \in 1..Len(f) + Len(s) /\ ~(Len(f) + k <= Len(f))
                           /\ (Len(f) + k) - Len(f) = k BY <1>1
<1>5. Extends(f, F) BY <1>1, <1>2, <1>3 DEF Extends, F
<1> QED BY <1>2, <1>4, <1>5 DEF F

LEMMA Shifted ==
  \A l, a, w \in Nat : /\ l + a \in Nat /\ l + (a + w) = (l + a) + w
                       /\ \A e \in Nat : a + w <= e => (l + a) + w <= l + e
OBVIOUS

(* What the library writes of a record can be found again.                   *)
LEMMA WrittenRecordAt ==
  ASSUME NEW ts \in Seq(Seq(Characters)), NEW o \in Object, o.n = Len(ts), o.n > 0,
         NEW m, StartsRecord(o.cur, o.n, m), NEW f \in Seq(Characters),
         NEW F, F = f \o FlattenSeq(EncodedFields(ts, o))
  PROVE  F \in Seq(Characters) /\ Extends(f, F) /\ RecordAt(F, Len(f), Len(F), ts, o.sep)
<1> DEFINE es == EncodedFields(ts, o)
           N == Len(ts)
           s == FlattenSeq(es)
           cell(k) == [o EXCEPT !.cur = Advanced(o.cur, k - 1)]
<1>1. N \in Nat \ {0} /\ o.n = N /\ DOMAIN ts = 1..N /\ \A k \in 1..N : ts[k] \in Seq(Characters)
  BY LenProperties, ElementOfSeq
<1>2. es \in Seq(Seq(Characters)) /\ s \in Seq(Characters) BY EncodedType
<1>3. DOMAIN es = 1..N /\ \A k \in 1..N : es[k] = CsviWriteField(ts[k], cell(k))
  BY <1>1 DEF EncodedFields, Object
<1>4. Len(es) = N BY <1>1, <1>2, <1>3, LenProperties
<1>5. \A k \in 1..N : cell(k).sep = o.sep /\ (IsLastField(cell(k)) <=> k = N)
  <2> SUFFICES ASSUME NEW k \in 1..N PROVE cell(k).sep = o.sep /\ (IsLastField(cell(k)) <=> k = N)
    OBVIOUS
  <2>1. cell(k).sep = o.sep /\ cell(k).n = N /\ cell(k).cur = Advanced(o.cur, k - 1)
    BY <1>1 DEF Object
  <2>2. StartsRecord(o.cur, N, m) BY <1>1
  <2> HIDE DEF cell, N
  <2>3. Advanced(Advanced(o.cur, k - 1), 1) % N = 0 <=> k = N
    <3> DEFINE cur == o.cur
    <3>1. StartsRecord(cur, N, m) BY <2>2
    <3>2. N \in Nat \ {0} BY <1>1
    <3> HIDE DEF cur
    <3>3. \A j \in 1..N :
            LET before == Advanced(cur, j - 1) IN
            /\ before = m * N + (j - 1)
            /\ Advanced(before, 1)
                 = IF j = N /\ (m + 1) * N = DwordValues THEN 0 ELSE m * N + j
            /\ Advanced(before, 1) % N = 0 <=> j = N
      BY <3>1, <3>2, Counting
    <3> QED BY <3>3 DEF cur
  <2> QED BY <2>1, <2>3 DEF IsLastField
<1> HIDE DEF es, s, cell, N
<1>6. PICK g : Placed(es, g) BY <1>2, PlacesExist
<1>7. PartsAt(es, s, g, N) BY <1>2, <1>4, <1>6, FlattenPlaces DEF s
<1>8. g \in [0..N -> Nat] /\ g[0] = 0 /\ \A k \in 1..N : g[k] = g[k - 1] + Len(es[k])
  BY <1>4, <1>6 DEF Placed
<1>9. Len(s) = g[N] /\ \A k \in 1..N : \A j \in 1..Len(es[k]) : s[g[k - 1] + j] = es[k][j]
  BY <1>7 DEF PartsAt
<1>10. F = f \o s BY DEF s, es
<1>11. /\ F \in Seq(Characters) /\ Extends(f, F) /\ Len(F) = Len(f) + Len(s)
       /\ \A k \in 1..Len(s) : F[Len(f) + k] = s[k]
  BY <1>2, <1>10, AppendedFile
<1>12. Len(f) \in Nat BY LenProperties
<1> DEFINE c == [k \in 0..N |-> Len(f) + g[k]]
<1>13. c \in [0..N -> Nat] /\ c[0] = Len(f) /\ c[N] = Len(F)
  <2>0. \A k \in 0..N : g[k] \in Nat BY <1>8
  <2>1. \A k \in 0..N : Len(f) + g[k] \in Nat BY <1>12, <2>0
  <2>2. 0 \in 0..N /\ N \in 0..N BY <1>1
  <2>3. Len(f) + 0 = Len(f) BY <1>12
  <2> QED BY <1>8, <1>9, <1>11, <2>1, <2>2, <2>3
<1>14. ASSUME NEW k \in 1..N
       PROVE  FieldAt(F, c[k - 1], c[k], ts[k], o.sep, Closing(k, N, o.sep))
  <2>1. k - 1 \in 0..N /\ k \in 0..N BY <1>1
  <2>2. /\ g[k - 1] \in Nat /\ g[k] \in Nat /\ Len(es[k]) \in Nat /\ g[k] <= g[N]
        /\ g[N] \in Nat
    <3>1. N \in 0..Len(es) /\ N \in 0..N /\ g[N] \in Nat BY <1>1, <1>4, <1>8
    <3> QED BY <1>2, <1>6, <3>1, PlacedGrows
  <2>3. g[k] = g[k - 1] + Len(es[k]) BY <1>8
  <2> DEFINE p == Len(f) + g[k - 1]
  <2>4. c[k - 1] = p /\ c[k] = p + Len(es[k]) /\ p \in Nat
    <3>1. c[k - 1] = Len(f) + g[k - 1] /\ c[k] = Len(f) + g[k] BY <2>1
    <3> HIDE DEF c
    <3> DEFINE a == g[k - 1]
    <3>2. a \in Nat /\ g[k] = a + Len(es[k]) /\ Len(es[k]) \in Nat BY <2>2, <2>3
    <3>3. c[k - 1] = Len(f) + a /\ c[k] = Len(f) + g[k] BY <3>1
    <3> HIDE DEF a
    <3>4. Len(f) + (a + Len(es[k])) = (Len(f) + a) + Len(es[k]) /\ Len(f) + a \in Nat
      BY <1>12, <3>2, Shifted
    <3>5. c[k] = (Len(f) + a) + Len(es[k]) BY <3>2, <3>3, <3>4
    <3> QED BY <3>3, <3>4, <3>5 DEF a
  <2> HIDE DEF c
  <2>5. Holds(F, p, es[k])
    <3> SUFFICES ASSUME NEW j \in 1..Len(es[k]) PROVE F[p + j] = es[k][j] BY DEF Holds
    <3>1. s[g[k - 1] + j] = es[k][j] BY <1>9
    <3>2. g[k - 1] + j \in 1..g[N]
      <4> DEFINE a == g[k - 1]
                 e == g[N]
      <4>1. a \in Nat /\ e \in Nat /\ a + Len(es[k]) <= e /\ Len(es[k]) \in Nat BY <2>2, <2>3
      <4> HIDE DEF a, e
      <4>2. a + j \in 1..e BY <4>1
      <4> QED BY <4>2 DEF a, e
    <3>3. Len(f) + (g[k - 1] + j) = p + j
      <4>1. g[k - 1] \in Nat /\ j \in Nat BY <2>2
      <4> QED BY <1>12, <4>1
    <3>4. F[Len(f) + (g[k - 1] + j)] = s[g[k - 1] + j]
      <4>1. g[k - 1] + j \in 1..Len(s) BY <1>9, <3>2
      <4> QED BY <1>11, <4>1
    <3> QED BY <3>1, <3>3, <3>4
  <2>6. p + Len(es[k]) <= Len(F)
    <3> DEFINE a == g[k - 1]
               e == g[N]
    <3>1. a \in Nat /\ e \in Nat /\ a + Len(es[k]) <= e /\ Len(es[k]) \in Nat /\ p = Len(f) + a
      BY <2>2, <2>3
    <3>2. Len(F) = Len(f) + e BY <1>9, <1>11
    <3> HIDE DEF a, e, p
    <3>3. (Len(f) + a) + Len(es[k]) <= Len(f) + e BY <1>12, <3>1, Shifted
    <3> QED BY <3>1, <3>2, <3>3
  <2> HIDE DEF p
  <2>7. es[k] = CsviWriteField(ts[k], cell(k)) /\ cell(k).sep = o.sep /\ ts[k] \in Seq(Characters)
    BY <1>1, <1>3, <1>5
  <2>8. o.sep \in Characters BY DEF Object
  <2>9. FieldAt(F, p, p + Len(es[k]), ts[k], o.sep,
                IF IsLastField(cell(k)) THEN EndOfLine ELSE o.sep)
    BY <1>11, <2>4, <2>5, <2>6, <2>7, <2>8, WrittenFieldAt
  <2> QED BY <1>5, <2>4, <2>9 DEF Closing
<1> HIDE DEF c
<1>15. RecordBy(F, c, ts, o.sep) BY <1>13, <1>14 DEF RecordBy, N
<1> QED BY <1>11, <1>13, <1>15 DEF RecordAt, N

-----------------------------------------------------------------------------
(* A field that lies at the position of the reader is read.                  *)

Rounds(f, o, b, remaining, g) ==
  \A i \in 0..remaining : \A p \in Nat :
    g[[i |-> i, p |-> p]] =
      Round(f, o, b, remaining, i, p,
            g[[i |-> i + 1, p |-> p + 1]], g[[i |-> i + 1, p |-> p + 2]])

LEMMA ScanRounds ==
  ASSUME NEW f, NEW o, NEW b, NEW remaining \in Nat,
         NEW g, ScanEquation(f, o, b, remaining, g)
  PROVE  Rounds(f, o, b, remaining, g)
<1> SUFFICES ASSUME NEW i \in 0..remaining, NEW p \in Nat
    PROVE  g[[i |-> i, p |-> p]] =
             Round(f, o, b, remaining, i, p,
                   g[[i |-> i + 1, p |-> p + 1]], g[[i |-> i + 1, p |-> p + 2]])
  BY DEF Rounds
<1> DEFINE Value(w) == Round(f, o, b, remaining, w.i, w.p,
                         g[[i |-> w.i + 1, p |-> w.p + 1]], g[[i |-> w.i + 1, p |-> w.p + 2]])
           w == [i |-> i, p |-> p]
<1>1. w \in [i : 0..remaining, p : Nat] /\ w.i = i /\ w.p = p OBVIOUS
<1>2. g = [x \in [i : 0..remaining, p : Nat] |-> Value(x)] BY DEF ScanEquation
<1>3. g[w] = Value(w)
  <2> HIDE DEF Value, w
  <2> QED BY <1>1, <1>2
<1> QED BY <1>1, <1>3

LEMMA PrefixedCompleted ==
  ASSUME NEW o, NEW q, NEW s \in Seq(Characters), NEW x, NEW b, NEW c
  PROVE  Prefixed(c, Completed(o, q, s, x, b)) = Completed(o, q, <<c>> \o s, x, b)
<1>1. s # Unset BY UnsetAssumption
<1> DEFINE X == [o EXCEPT !.pos = q, !.cur = Advanced(@, 1),
                          !.err = IF ~b /\ x = EndOfLine THEN "END_OF_LINE" ELSE "NO_ERROR"]
<1>2. \A u : Completed(o, q, u, x, b) = [obj |-> X, text |-> u] BY DEF Completed
<1> HIDE DEF X
<1>3. Prefixed(c, [obj |-> X, text |-> s]) = [obj |-> X, text |-> <<c>> \o s]
  <2> DEFINE v == <<c>> \o s
             R == [obj |-> X, text |-> s]
  <2>1. R.text = s OBVIOUS
  <2>2. Prefixed(c, R) = [R EXCEPT !.text = v] BY <1>1, <2>1 DEF Prefixed
  <2> HIDE DEF v
  <2>3. [R EXCEPT !.text = v] = [obj |-> X, text |-> v] OBVIOUS
  <2> QED BY <2>2, <2>3 DEF v
<1> QED BY <1>2, <1>3

(* What a reader needs to know of the character that closes a field.         *)
Closes(o, t, c, b) ==
  /\ o.sep \notin {Quote, EndOfLine} /\ c \in {o.sep, EndOfLine}
  /\ b => (c = EndOfLine <=> IsLastField(o))
  /\ b \/ c # EndOfLine \/ t # <<>>

LEMMA QuotedRead ==
  ASSUME NEW f \in Seq(Characters), NEW o \in Object, NEW b \in BOOLEAN,
         NEW q \in Nat, NEW t \in Seq(Characters), NEW c,
         Closes(o, t, c, b), QuotedAt(f, o.pos, q, t), q <= Len(f), f[q] = c
  PROVE  QuotedField(f, o, b) = Completed(o, q, t, c, b)
<1> DEFINE a == o.pos + 1
           remaining == Len(f) - a
           N == Len(t)
           G == CHOOSE g : ScanEquation(f, o, b, remaining, g)
           Rest(i) == Completed(o, q, SubSeq(t, i + 1, N), c, b)
<1>1. N \in Nat /\ Len(f) \in Nat /\ o.pos \in Nat /\ a \in Nat BY LenProperties DEF Object
<1>2. PICK g : QuotedBy(f, o.pos, q, t, g) BY DEF QuotedAt
<1>3. Spread(f, t, a, g) /\ q = g[N] + 2 /\ f[a] = Quote /\ f[q - 1] = Quote
  BY <1>2 DEF QuotedBy
<1>4. \A i \in 0..N : g[i] \in Nat /\ g[i] >= a + i BY <1>1, <1>3, SpreadGrows
<1>5. \A i \in 0..N : g[i] <= g[N] BY <1>1, <1>3, SpreadBounded
<1>6. remaining \in Nat /\ remaining >= N + 2
  <2> DEFINE e == g[N]
  <2>1. e \in Nat /\ e >= a + N /\ q = e + 2 BY <1>1, <1>3, <1>4
  <2> HIDE DEF e, N, a
  <2> QED BY <1>1, <2>1
<1>7. ScanEquation(f, o, b, remaining, G)
  <2> HIDE DEF remaining
  <2>1. \E h : ScanEquation(f, o, b, remaining, h) BY <1>6, ScanExists
  <2> QED BY <2>1
<1>8. QuotedField(f, o, b) = G[[i |-> 0, p |-> a]] BY QuotedFieldIsScan
<1>9. c # Quote /\ (c = o.sep \/ (c = EndOfLine /\ (~b \/ IsLastField(o))))
  BY CharactersDiffer DEF Closes
<1>10. \A p \in Nat : p < Len(f) => CharAt(f, p) = f[p + 1] BY DEF CharAt
<1> HIDE DEF remaining, N, G, a
<1>18. \A i \in 0..remaining : \A p \in Nat :
         G[[i |-> i, p |-> p]] =
           Round(f, o, b, remaining, i, p,
                 G[[i |-> i + 1, p |-> p + 1]], G[[i |-> i + 1, p |-> p + 2]])
  <2>1. Rounds(f, o, b, remaining, G) BY <1>6, <1>7, ScanRounds
  <2> QED BY <2>1 DEF Rounds
<1>11. G[[i |-> N, p |-> g[N]]] = Rest(N)
  <2> DEFINE p == g[N]
  <2>1. p \in Nat /\ N \in 0..remaining /\ N # remaining /\ ~(N + 1 >= remaining)
    BY <1>1, <1>4, <1>6
  <2>2. p + 1 = q - 1 /\ (p + 1) + 1 = q /\ p < Len(f) /\ p + 1 < Len(f) /\ p + 1 \in Nat
        /\ p + 2 = q
    <3>1. q = p + 2 BY <1>3
    <3> HIDE DEF p
    <3> QED BY <1>1, <2>1, <3>1
  <2>3. CharAt(f, p) = Quote /\ CharAt(f, p + 1) = c BY <1>3, <1>10, <2>1, <2>2
  <2> HIDE DEF p
  <2>4. G[[i |-> N, p |-> p]] =
          Round(f, o, b, remaining, N, p,
                G[[i |-> N + 1, p |-> p + 1]], G[[i |-> N + 1, p |-> p + 2]])
    BY <1>18, <2>1
  <2>5. Round(f, o, b, remaining, N, p,
              G[[i |-> N + 1, p |-> p + 1]], G[[i |-> N + 1, p |-> p + 2]])
          = Completed(o, p + 2, <<>>, c, b)
    BY <1>9, <2>1, <2>3 DEF Round
  <2>6. SubSeq(t, N + 1, N) = <<>> BY <1>1, SubSeqEmpty
  <2> QED BY <2>2, <2>4, <2>5, <2>6 DEF p
<1>12. ASSUME NEW i \in 0..N - 1, G[[i |-> i + 1, p |-> g[i + 1]]] = Rest(i + 1)
       PROVE  G[[i |-> i, p |-> g[i]]] = Rest(i)
  <2> DEFINE p == g[i]
             j == i + 1
             s == SubSeq(t, j + 1, N)
  <2>1. /\ i \in 0..N /\ j \in 1..N /\ j \in 0..N /\ j - 1 = i /\ i \in 0..remaining
        /\ i # remaining /\ ~(i + 1 >= remaining) /\ j \in Nat
    BY <1>1, <1>6
  <2>2. p \in Nat /\ g[j] \in Nat /\ g[j] <= g[N] /\ g[N] \in Nat
    <3>1. N \in 0..N BY <1>1
    <3> QED BY <1>4, <1>5, <2>1, <3>1
  <2>3. IF t[j] = Quote THEN g[j] = p + 2 /\ f[p + 1] = Quote /\ f[p + 2] = Quote
        ELSE g[j] = p + 1 /\ f[p + 1] = t[j]
    BY <1>3, <2>1 DEF Spread, N
  <2>4. G[[i |-> j, p |-> g[j]]] = Completed(o, q, s, c, b) BY <1>12
  <2>5. s \in Seq(Characters)
    <3>1. \A k \in j + 1..N : t[k] \in Characters
      <4>1. \A k \in 1..N : t[k] \in Characters BY ElementOfSeq DEF N
      <4>2. \A k \in j + 1..N : k \in 1..N BY <1>1, <2>1
      <4> QED BY <4>1, <4>2
    <3>2. j + 1 \in Int /\ N \in Int BY <1>1, <2>1
    <3> QED BY <3>1, <3>2, SubSeqProperties
  <2>6. SubSeq(t, i + 1, N) = <<t[j]>> \o s
    <3>1. N \in j..N /\ N \in j..Len(t) /\ j \in 1..Len(t) BY <1>1, <2>1 DEF N
    <3> QED BY <3>1, SubSeqRecursiveFirst DEF N
  <2>7. Prefixed(t[j], Completed(o, q, s, c, b)) = Rest(i)
    <3>1. Prefixed(t[j], Completed(o, q, s, c, b)) = Completed(o, q, <<t[j]>> \o s, c, b)
      <4> HIDE DEF s, j
      <4> QED BY <2>5, PrefixedCompleted
    <3> HIDE DEF s, j
    <3> QED BY <2>6, <3>1
  <2>8. G[[i |-> i, p |-> p]] =
          Round(f, o, b, remaining, i, p,
                G[[i |-> j, p |-> p + 1]], G[[i |-> j, p |-> p + 2]])
    <3> HIDE DEF p
    <3> QED BY <1>18, <2>1, <2>2
  <2> HIDE DEF p, s, Rest
  <2>9. CASE t[j] = Quote
    <3>1. g[j] = p + 2 /\ f[p + 1] = Quote /\ f[p + 2] = Quote BY <2>3, <2>9
    <3>2. p < Len(f) /\ p + 1 < Len(f) /\ (p + 1) + 1 = p + 2 /\ p + 1 \in Nat
      <4> DEFINE e == g[N]
                 l == Len(f)
      <4>1. p \in Nat /\ e \in Nat /\ p + 2 <= e BY <2>2, <3>1
      <4>2. q = e + 2 /\ q <= l /\ l \in Nat BY <1>1, <1>3
      <4> HIDE DEF e, l
      <4>3. p < l /\ p + 1 < l /\ (p + 1) + 1 = p + 2 /\ p + 1 \in Nat BY <4>1, <4>2
      <4> QED BY <4>3 DEF l
    <3>3. CharAt(f, p) = Quote /\ CharAt(f, p + 1) = Quote BY <1>10, <2>2, <3>1, <3>2
    <3> HIDE DEF j
    <3>4. Round(f, o, b, remaining, i, p,
                G[[i |-> j, p |-> p + 1]], G[[i |-> j, p |-> p + 2]])
            = Prefixed(Quote, G[[i |-> j, p |-> p + 2]])
      BY <2>1, <3>3 DEF Round
    <3> QED BY <2>4, <2>7, <2>8, <2>9, <3>1, <3>4 DEF p
  <2>10. CASE t[j] # Quote
    <3>1. g[j] = p + 1 /\ f[p + 1] = t[j] BY <2>3, <2>10
    <3>2. p < Len(f)
      <4> DEFINE e == g[N]
                 l == Len(f)
      <4>1. p \in Nat /\ e \in Nat /\ p + 1 <= e BY <2>2, <3>1
      <4>2. q = e + 2 /\ q <= l /\ l \in Nat BY <1>1, <1>3
      <4> HIDE DEF e, l
      <4>3. p < l BY <4>1, <4>2
      <4> QED BY <4>3 DEF l
    <3>3. CharAt(f, p) = t[j] BY <1>10, <2>2, <3>1, <3>2
    <3> HIDE DEF j
    <3>4. Round(f, o, b, remaining, i, p,
                G[[i |-> j, p |-> p + 1]], G[[i |-> j, p |-> p + 2]])
            = Prefixed(t[j], G[[i |-> j, p |-> p + 1]])
      BY <2>1, <2>10, <3>3 DEF Round
    <3> QED BY <2>4, <2>7, <2>8, <3>1, <3>4 DEF p
  <2> QED BY <2>9, <2>10
<1> DEFINE T == {k \in Nat : k <= N => G[[i |-> N - k, p |-> g[N - k]]] = Rest(N - k)}
<1>13. 0 \in T
  <2>1. N - 0 = N BY <1>1
  <2> QED BY <1>11, <2>1
<1>14. ASSUME NEW k \in Nat, k < N, k \in T PROVE k + 1 \in T
  <2> DEFINE i == N - (k + 1)
  <2>1. i \in 0..N - 1 /\ i + 1 = N - k /\ k <= N BY <1>1, <1>14
  <2>2. G[[i |-> N - k, p |-> g[N - k]]] = Rest(N - k) BY <1>14, <2>1
  <2> HIDE DEF i, Rest
  <2>3. G[[i |-> i, p |-> g[i]]] = Rest(i) BY <1>12, <2>1, <2>2
  <2> QED BY <2>3 DEF i
<1>15. N \in T
  <2>1. \A k \in Nat : k < N /\ k \in T => k + 1 \in T BY <1>14
  <2> HIDE DEF T
  <2>2. \A k \in 0..N : k \in T BY <1>1, <1>13, <2>1, Induction
  <2> QED BY <1>1, <2>2
<1>16. G[[i |-> 0, p |-> g[0]]] = Rest(0)
  <2>1. N - N = 0 /\ N <= N BY <1>1
  <2> HIDE DEF Rest
  <2> QED BY <1>15, <2>1
<1>17. g[0] = a /\ SubSeq(t, 0 + 1, N) = t
  <2>1. 0 + 1 = 1 OBVIOUS
  <2> QED BY <1>3, <2>1, SubSeqFull DEF Spread, N
<1> QED BY <1>8, <1>16, <1>17

LEMMA PlainRead ==
  ASSUME NEW f \in Seq(Characters), NEW o \in Object, NEW b \in BOOLEAN,
         NEW q \in Nat, NEW t \in Seq(Characters), NEW c, t # <<>>,
         Closes(o, t, c, b), PlainAt(f, o.pos, q, t, o.sep), q <= Len(f), f[q] = c
  PROVE  PlainField(f, o, b) = Completed(o, q, t, c, b)
<1> DEFINE Special(x) == x \in {Quote, o.sep, EndOfLine}
           I == {i \in o.pos + 2..Len(f) : Special(f[i])}
           k == SelectInSubSeq(f, o.pos + 2, Len(f), LAMBDA x : Special(x))
           N == Len(t)
           p == o.pos
<1>1. p \in Nat /\ Len(f) \in Nat /\ N \in Nat /\ N > 0
  BY LenProperties, EmptySeq DEF Object
<1>2. q = p + N + 1 /\ \A i \in 1..N : f[p + i] = t[i] /\ t[i] \notin {Quote, EndOfLine, o.sep}
  BY DEF PlainAt
<1>3. c # Quote /\ Special(f[q]) /\ (b => (c = EndOfLine <=> IsLastField(o)))
  BY CharactersDiffer DEF Closes
<1>4. k = IF I # {} THEN Min(I) ELSE 0 BY DEF SelectInSubSeq
<1>5. ASSUME NEW i \in p + 2..q - 1 PROVE ~Special(f[i])
  <2> DEFINE j == i - p
  <2>1. j \in 1..N /\ p + j = i
    <3>1. q = p + N + 1 BY <1>2
    <3> HIDE DEF p, N
    <3> QED BY <1>1, <3>1
  <2> HIDE DEF j
  <2>2. f[p + j] = t[j] /\ t[j] \notin {Quote, EndOfLine, o.sep} BY <1>2, <2>1
  <2> QED BY <2>1, <2>2
<1>6. q \in I
  <2>1. q \in p + 2..Len(f) BY <1>1, <1>2
  <2> QED BY <1>3, <2>1
<1>7. \A i \in I : i \in Nat /\ i >= q
  <2> SUFFICES ASSUME NEW i \in I PROVE i \in Nat /\ i >= q OBVIOUS
  <2>1. i \in p + 2..Len(f) /\ Special(f[i]) OBVIOUS
  <2>2. i \notin p + 2..q - 1 BY <1>5, <2>1
  <2> QED BY <1>1, <2>1, <2>2
<1> HIDE DEF I, k, N
<1>8. k = q
  <2>1. I \in SUBSET Nat /\ I # {} BY <1>6, <1>7
  <2>2. Min(I) \in I /\ \A x \in I : Min(I) <= x BY <2>1, LeastOf
  <2>3. Min(I) \in Nat /\ Min(I) <= q /\ Min(I) >= q BY <1>6, <1>7, <2>2
  <2> QED BY <1>4, <2>1, <2>3
<1>9. PlainField(f, o, b) = Completed(o, q, SubSeq(f, p + 1, q - 1), c, b)
  <2>1. k # 0 /\ f[k] = c BY <1>1, <1>2, <1>8
  <2>2. PlainField(f, o, b)
          = IF k = 0 THEN Failed(o, Len(f), "UNEXPECTED_EOF")
            ELSE IF f[k] = Quote THEN Failed(o, k, "QUOTE_IN_FIELD")
            ELSE IF b /\ (f[k] = EndOfLine) # IsLastField(o)
            THEN Failed(o, k, "FIELD_TERMINATOR")
            ELSE Completed(o, k, SubSeq(f, o.pos + 1, k - 1), f[k], b)
    BY DEF PlainField, k
  <2>3. IsLastField(o) \in BOOLEAN BY DEF IsLastField
  <2>4. b => (c = EndOfLine) = IsLastField(o) BY <1>3, <2>3
  <2> QED BY <1>3, <1>8, <2>1, <2>2, <2>4
<1>10. SubSeq(f, p + 1, q - 1) = t
  <2> DEFINE u == SubSeq(f, p + 1, q - 1)
  <2>1. \A i \in p + 1..q - 1 : f[i] \in Characters
    <3>1. \A i \in 1..Len(f) : f[i] \in Characters BY ElementOfSeq
    <3>2. \A i \in p + 1..q - 1 : i \in 1..Len(f) BY <1>1, <1>2
    <3> QED BY <3>1, <3>2
  <2>2. p + 1 \in Int /\ q - 1 \in Int /\ p + 1 <= q - 1 /\ (q - 1) - (p + 1) + 1 = N
    <3> HIDE DEF p
    <3>1. q = p + N + 1 BY <1>2
    <3> QED BY <1>1, <3>1
  <2>3. /\ u \in Seq(Characters) /\ Len(u) = N
        /\ \A i \in 1..N : u[i] = f[(p + 1) + i - 1]
    BY <2>1, <2>2, SubSeqProperties
  <2> HIDE DEF u
  <2>4. \A i \in 1..N : (p + 1) + i - 1 = p + i BY <1>1
  <2>5. \A i \in 1..Len(u) : u[i] = t[i] BY <1>2, <2>3, <2>4
  <2> QED BY <2>3, <2>5, SeqEqual DEF N, u
<1> QED BY <1>9, <1>10

LEMMA FieldRead ==
  ASSUME NEW f \in Seq(Characters), NEW o \in Object, NEW b \in BOOLEAN, NEW q, NEW t, NEW c,
         ~o.eof, Closes(o, t, c, b), FieldAt(f, o.pos, q, t, o.sep, c)
  PROVE  CsviReadField(f, o, b) = Completed(o, q, t, c, b)
<1> DEFINE p == o.pos
           d == CharAt(f, p)
<1>1. t \in Seq(Characters) /\ p \in Nat /\ q \in Nat /\ q <= Len(f) /\ f[q] = c BY DEF FieldAt
<1>2. Len(t) \in Nat /\ Len(f) \in Nat BY <1>1, LenProperties
<1>3. CsviReadField(f, o, b)
        = IF o.eof \/ p >= Len(f)
          THEN Failed([o EXCEPT !.eof = TRUE], p, "END_OF_FILE")
          ELSE IF d = EndOfLine /\ ~b
          THEN Failed(o, p + 1, "END_OF_LINE")
          ELSE IF d \in {EndOfLine, o.sep}
          THEN IF b /\ (d = EndOfLine) # IsLastField(o)
               THEN Failed(o, p + 1, "FIELD_TERMINATOR")
               ELSE Completed(o, p + 1, <<>>, d, b)
          ELSE IF p + 1 >= Len(f) THEN Failed(o, p + 1, "UNEXPECTED_EOF")
          ELSE IF d = Quote THEN QuotedField(f, o, b)
          ELSE PlainField(f, o, b)
  BY DEF CsviReadField
<1>4. /\ o.sep \notin {Quote, EndOfLine} /\ c \in {o.sep, EndOfLine}
      /\ b => (c = EndOfLine <=> IsLastField(o))
      /\ b \/ c # EndOfLine \/ t # <<>>
  BY DEF Closes
<1>5. p < Len(f) => d = f[p + 1] BY DEF CharAt
<1> HIDE DEF d
<1>6. CASE PlainAt(f, p, q, t, o.sep) /\ t = <<>>
  <2>1. q = p + 1
    <3>1. q = p + Len(t) + 1 /\ Len(t) = 0 BY <1>6, EmptySeq DEF PlainAt
    <3> QED BY <1>1, <3>1
  <2>2. ~(p >= Len(f)) /\ p < Len(f) BY <1>1, <1>2, <2>1
  <2>3. d = c BY <1>1, <1>5, <2>1, <2>2
  <2>4. ~(d = EndOfLine /\ ~b) /\ d \in {EndOfLine, o.sep} BY <1>4, <1>6, <2>3
  <2>5. IsLastField(o) \in BOOLEAN BY DEF IsLastField
  <2>6. b => (d = EndOfLine) = IsLastField(o) BY <1>4, <2>3, <2>5
  <2> QED BY <1>3, <1>6, <2>1, <2>2, <2>3, <2>4, <2>6
<1>7. CASE PlainAt(f, p, q, t, o.sep) /\ t # <<>>
  <2>1. Len(t) > 0 BY <1>1, <1>2, <1>7, EmptySeq
  <2>2. q = p + Len(t) + 1 /\ f[p + 1] = t[1] /\ t[1] \notin {Quote, EndOfLine, o.sep}
    <3>1. 1 \in 1..Len(t) BY <1>2, <2>1
    <3> QED BY <1>7, <3>1 DEF PlainAt
  <2>3. ~(p >= Len(f)) /\ p < Len(f) /\ ~(p + 1 >= Len(f)) BY <1>1, <1>2, <2>1, <2>2
  <2>4. d \notin {Quote, EndOfLine, o.sep} BY <1>5, <2>2, <2>3
  <2>5. CsviReadField(f, o, b) = PlainField(f, o, b) BY <1>3, <2>3, <2>4
  <2> QED BY <1>1, <1>7, <2>5, PlainRead
<1>8. CASE QuotedAt(f, p, q, t)
  <2>1. p + 1 < q /\ f[p + 1] = Quote
    <3>1. PICK g : QuotedBy(f, p, q, t, g) BY <1>8 DEF QuotedAt
    <3>2. Spread(f, t, p + 1, g) /\ q = g[Len(t)] + 2 /\ f[p + 1] = Quote BY <3>1 DEF QuotedBy
    <3>3. p + 1 \in Nat /\ Len(t) \in 0..Len(t) BY <1>1, <1>2
    <3>4. g[Len(t)] \in Nat /\ g[Len(t)] >= (p + 1) + Len(t) BY <1>1, <3>2, <3>3, SpreadGrows
    <3> DEFINE e == g[Len(t)]
    <3>5. e \in Nat /\ e >= (p + 1) + Len(t) /\ q = e + 2 BY <3>2, <3>4
    <3> HIDE DEF e
    <3> QED BY <1>1, <1>2, <3>2, <3>5
  <2>2. ~(p >= Len(f)) /\ p < Len(f) /\ ~(p + 1 >= Len(f)) BY <1>1, <1>2, <2>1
  <2>3. d = Quote /\ Quote \notin {EndOfLine, o.sep} BY <1>4, <1>5, <2>1, <2>2, CharactersDiffer
  <2>4. CsviReadField(f, o, b) = QuotedField(f, o, b) BY <1>3, <2>2, <2>3
  <2> QED BY <1>1, <1>8, <2>4, QuotedRead
<1> QED BY <1>6, <1>7, <1>8 DEF FieldAt

-----------------------------------------------------------------------------
(* The fields of a record that lies at the position of the reader are read,  *)
(* one after the other.                                                      *)

(* dwCurrentField after k of the N fields of a record.                       *)
CountAt(m, N, k) == IF k = N /\ (m + 1) * N = DwordValues THEN 0 ELSE m * N + k

(* What is left when field t ended at p.                                     *)
Passed(r, p, t, cur, err) ==
  r.obj.pos = p /\ r.obj.eof = FALSE /\ r.obj.cur = cur /\ r.obj.err = err /\ r.text = t

LEMMA CompletedPassed ==
  ASSUME NEW q \in Object, ~q.eof, NEW p, NEW t, NEW c, NEW b
  PROVE  Passed(Completed(q, p, t, c, b), p, t, Advanced(q.cur, 1),
                IF ~b /\ c = EndOfLine THEN "END_OF_LINE" ELSE "NO_ERROR")
BY DEF Passed, Completed, Object

(* Field k of a record of N fields, t, lies at the position of the reader.   *)
FieldAhead(f, q, b, N, k, m, p, t) ==
  /\ m \in Nat /\ (m + 1) * N <= DwordValues /\ q.cur = m * N + (k - 1)
  /\ ~q.eof /\ q.sep \notin {Quote, EndOfLine}
  /\ b => q.n = N
  /\ b \/ k # N \/ t # <<>>
  /\ FieldAt(f, q.pos, p, t, q.sep, Closing(k, N, q.sep))

LEMMA OneFieldRead ==
  ASSUME NEW f \in Seq(Characters), NEW q \in Object, NEW b \in BOOLEAN,
         NEW N \in Nat \ {0}, NEW k \in 1..N, NEW m, NEW p, NEW t,
         FieldAhead(f, q, b, N, k, m, p, t)
  PROVE  Passed(CsviReadField(f, q, b), p, t, CountAt(m, N, k),
                IF ~b /\ k = N THEN "END_OF_LINE" ELSE "NO_ERROR")
<1> DEFINE c == Closing(k, N, q.sep)
<1>0. /\ m \in Nat /\ (m + 1) * N <= DwordValues /\ q.cur = m * N + (k - 1)
      /\ ~q.eof /\ q.sep \notin {Quote, EndOfLine}
      /\ b => q.n = N
      /\ b \/ k # N \/ t # <<>>
      /\ FieldAt(f, q.pos, p, t, q.sep, c)
  BY DEF FieldAhead
<1>1. c = EndOfLine <=> k = N BY <1>0 DEF Closing
<1>2. c \in {q.sep, EndOfLine} BY DEF Closing
<1>3. /\ Advanced(m * N, k - 1) = q.cur
      /\ Advanced(q.cur, 1) = CountAt(m, N, k)
      /\ Advanced(q.cur, 1) % N = 0 <=> k = N
  <2>1. StartsRecord(m * N, N, m) BY <1>0 DEF StartsRecord
  <2> DEFINE before == Advanced(m * N, k - 1)
  <2>2. /\ before = m * N + (k - 1)
        /\ Advanced(before, 1) = IF k = N /\ (m + 1) * N = DwordValues THEN 0 ELSE m * N + k
        /\ Advanced(before, 1) % N = 0 <=> k = N
    BY <2>1, Counting
  <2> HIDE DEF before
  <2>3. before = q.cur BY <1>0, <2>2
  <2> QED BY <2>2, <2>3 DEF CountAt, before
<1>4. b => (k = N <=> IsLastField(q)) BY <1>0, <1>3 DEF IsLastField
<1> HIDE DEF c
<1>5. Closes(q, t, c, b) BY <1>0, <1>1, <1>2, <1>4 DEF Closes
<1>7. CsviReadField(f, q, b) = Completed(q, p, t, c, b) BY <1>0, <1>5, FieldRead
<1>8. Passed(Completed(q, p, t, c, b), p, t, Advanced(q.cur, 1),
             IF ~b /\ c = EndOfLine THEN "END_OF_LINE" ELSE "NO_ERROR")
  BY <1>0, CompletedPassed
<1> QED BY <1>1, <1>3, <1>7, <1>8

LEMMA ResultsFollow ==
  ASSUME NEW f \in Seq(Characters), NEW o \in Object, NEW b \in BOOLEAN, NEW count \in Nat
  PROVE  ReadEquation(f, o, b, count, FieldResults(f, o, b, count))
<1> DEFINE read == FieldResults(f, o, b, count)
<1>1. read = CHOOSE g : ReadEquation(f, o, b, count, g) BY DEF FieldResults, ReadEquation, Before
<1> HIDE DEF read
<1>2. ReadEquation(f, o, b, count, read) BY <1>1, ReadExists
<1> QED BY <1>2 DEF read

LEMMA FieldsRead ==
  ASSUME NEW f \in Seq(Characters), NEW o \in Object, NEW b \in BOOLEAN, NEW count \in Nat,
         NEW c, NEW ts, RecordBy(f, c, ts, o.sep), c[0] = o.pos, ~o.eof,
         Len(ts) # 0, Len(ts) <= count, o.sep \notin {Quote, EndOfLine},
         NEW m, StartsRecord(o.cur, Len(ts), m),
         b => o.n = Len(ts), b \/ ts[Len(ts)] # <<>>
  PROVE  \A k \in 1..Len(ts) :
           Passed(FieldResults(f, o, b, count)[k], c[k], ts[k], CountAt(m, Len(ts), k),
                  IF ~b /\ k = Len(ts) THEN "END_OF_LINE" ELSE "NO_ERROR")
<1> DEFINE read == FieldResults(f, o, b, count)
           N == Len(ts)
           Good(k) == Passed(read[k], c[k], ts[k], CountAt(m, N, k),
                             IF ~b /\ k = N THEN "END_OF_LINE" ELSE "NO_ERROR")
           T == {j \in Nat : j <= N => \A k \in 1..j : Good(k)}
<1>1. N \in Nat \ {0} /\ N <= count
  <2>1. ts \in Seq(Seq(Characters)) BY DEF RecordBy
  <2> QED BY <2>1, LenProperties
<1>2. m \in Nat /\ o.cur = m * N /\ (m + 1) * N <= DwordValues BY DEF StartsRecord
<1>3. m * N \in Nat BY <1>1, <1>2, MultipleGrows
<1>4. \A k \in 1..N : FieldAt(f, c[k - 1], c[k], ts[k], o.sep, Closing(k, N, o.sep))
  BY DEF RecordBy
<1>5. \A k \in 1..count : /\ Before(o, read, k) \in Object
                          /\ read[k] = CsviReadField(f, Before(o, read, k), b)
                          /\ Kept(o, read[k].obj)
  <2>1. ReadEquation(f, o, b, count, read) BY ResultsFollow
  <2>2. \A k \in 1..count : Before(o, read, k) \in Object /\ Kept(o, read[k].obj)
    BY FieldResultsFacts
  <2> HIDE DEF read
  <2>3. \A k \in 1..count : read[k] = CsviReadField(f, Before(o, read, k), b)
    BY <2>1 DEF ReadEquation
  <2> QED BY <2>2, <2>3
<1>6. b => o.n = N BY DEF N
<1>7. b \/ ts[N] # <<>> BY DEF N
<1> HIDE DEF read, N
<1>8. ASSUME NEW k \in 1..N, k # 1 => Good(k - 1) PROVE Good(k)
  <2> DEFINE q == Before(o, read, k)
  <2>1. k \in 1..count /\ k \in Nat BY <1>1
  <2>2. q \in Object /\ read[k] = CsviReadField(f, q, b) BY <1>5, <2>1
  <2>3. Kept(o, q) /\ q.pos = c[k - 1] /\ ~q.eof /\ q.cur = m * N + (k - 1)
    <3>1. CASE k = 1
      <4>1. q = o BY <3>1 DEF Before
      <4>2. m * N + (k - 1) = m * N /\ k - 1 = 0 BY <1>3, <3>1
      <4> QED BY <1>2, <4>1, <4>2 DEF Kept
    <3>2. CASE k # 1
      <4>1. q = read[k - 1].obj BY <3>2 DEF Before
      <4>2. k - 1 \in 1..count /\ k - 1 # N BY <1>1, <2>1, <3>2
      <4>3. Kept(o, q) BY <1>5, <4>1, <4>2
      <4>4. CountAt(m, N, k - 1) = m * N + (k - 1) BY <4>2 DEF CountAt
      <4>5. Good(k - 1) BY <1>8, <3>2
      <4> HIDE DEF q
      <4> QED BY <4>1, <4>3, <4>4, <4>5 DEF Passed
    <3> QED BY <3>1, <3>2
  <2> HIDE DEF q
  <2>4. q.sep = o.sep /\ q.n = o.n BY <2>3 DEF Kept
  <2>5. FieldAt(f, q.pos, c[k], ts[k], q.sep, Closing(k, N, q.sep)) BY <1>4, <2>3, <2>4
  <2>6. b \/ k # N \/ ts[k] # <<>> BY <1>7
  <2>7. b => q.n = N BY <1>6, <2>4
  <2>8. FieldAhead(f, q, b, N, k, m, c[k], ts[k])
    BY <1>2, <2>3, <2>4, <2>5, <2>6, <2>7 DEF FieldAhead
  <2>9. Passed(CsviReadField(f, q, b), c[k], ts[k], CountAt(m, N, k),
               IF ~b /\ k = N THEN "END_OF_LINE" ELSE "NO_ERROR")
    BY <1>1, <2>2, <2>8, OneFieldRead
  <2> QED BY <2>2, <2>9
<1> HIDE DEF Good
<1>9. 0 \in T OBVIOUS
<1>10. ASSUME NEW j \in Nat, j < N, j \in T PROVE j + 1 \in T
  <2>1. j + 1 \in 1..N /\ (j + 1) - 1 = j BY <1>1, <1>10
  <2>2. \A k \in 1..j : Good(k) BY <1>1, <1>10
  <2>3. j + 1 # 1 => j \in 1..j OBVIOUS
  <2>4. Good(j + 1)
    <3> DEFINE n == j + 1
    <3>1. n \in 1..N /\ (n # 1 => Good(n - 1)) BY <2>1, <2>2, <2>3
    <3> HIDE DEF n
    <3>2. Good(n) BY <1>8, <3>1
    <3> QED BY <3>2 DEF n
  <2>5. \A k \in 1..j + 1 : k \in 1..j \/ k = j + 1 OBVIOUS
  <2> QED BY <2>2, <2>4, <2>5
<1>11. N \in T
  <2>1. \A j \in Nat : j < N /\ j \in T => j + 1 \in T BY <1>10
  <2> HIDE DEF T
  <2>2. \A j \in 0..N : j \in T BY <1>1, <1>9, <2>1, Induction
  <2>3. N \in 0..N BY <1>1
  <2> QED BY <2>2, <2>3
<1>12. \A k \in 1..N : Good(k) BY <1>1, <1>11
<1> QED BY <1>12 DEF Good, N, read

LEMMA FieldAdvances ==
  ASSUME NEW f, NEW p, NEW q, NEW t, NEW sep, NEW c, FieldAt(f, p, q, t, sep, c)
  PROVE  p \in Nat /\ q \in Nat /\ p < q /\ q <= Len(f)
<1>1. t \in Seq(Characters) /\ p \in Nat /\ q \in Nat /\ q <= Len(f) BY DEF FieldAt
<1>2. Len(t) \in Nat BY <1>1, LenProperties
<1>3. CASE PlainAt(f, p, q, t, sep) BY <1>1, <1>2, <1>3 DEF PlainAt
<1>4. CASE QuotedAt(f, p, q, t)
  <2>1. PICK g : QuotedBy(f, p, q, t, g) BY <1>4 DEF QuotedAt
  <2>2. Spread(f, t, p + 1, g) /\ q = g[Len(t)] + 2 BY <2>1 DEF QuotedBy
  <2>3. p + 1 \in Nat /\ Len(t) \in 0..Len(t) BY <1>1, <1>2
  <2> DEFINE e == g[Len(t)]
  <2>4. e \in Nat /\ e >= (p + 1) + Len(t) /\ q = e + 2 BY <1>1, <2>2, <2>3, SpreadGrows
  <2> HIDE DEF e
  <2> QED BY <1>1, <1>2, <2>4
<1> QED BY <1>1, <1>3, <1>4 DEF FieldAt

LEMMA CutsGrow ==
  ASSUME NEW f, NEW c, NEW ts, NEW sep, RecordBy(f, c, ts, sep)
  PROVE  \A k \in 0..Len(ts) : c[k] \in Nat /\ c[k] >= c[0] + k
<1> DEFINE N == Len(ts)
           T == {k \in Nat : k <= N => c[k] >= c[0] + k}
<1>1. N \in Nat
  <2>1. ts \in Seq(Seq(Characters)) BY DEF RecordBy
  <2> QED BY <2>1, LenProperties
<1>2. /\ \A k \in 0..N : c[k] \in Nat
      /\ \A k \in 1..N : FieldAt(f, c[k - 1], c[k], ts[k], sep, Closing(k, N, sep))
  BY DEF RecordBy
<1> HIDE DEF N
<1>3. c[0] \in Nat
  <2>1. 0 \in 0..N BY <1>1
  <2> QED BY <1>2, <2>1
<1>4. 0 \in T BY <1>3
<1>5. ASSUME NEW k \in Nat, k < N, k \in T PROVE k + 1 \in T
  <2> DEFINE n == k + 1
  <2>1. n \in 1..N /\ n - 1 = k /\ k <= N BY <1>1, <1>5
  <2>2. c[k] >= c[0] + k BY <1>5, <2>1
  <2>3. FieldAt(f, c[k], c[n], ts[n], sep, Closing(n, N, sep))
    <3> HIDE DEF n
    <3>1. FieldAt(f, c[n - 1], c[n], ts[n], sep, Closing(n, N, sep)) BY <1>2, <2>1
    <3> QED BY <2>1, <3>1
  <2>4. c[k] \in Nat /\ c[n] \in Nat /\ c[k] < c[n]
    <3> HIDE DEF n
    <3> QED BY <2>3, FieldAdvances
  <2>5. c[n] >= c[0] + n
    <3> DEFINE x == c[k]
               y == c[n]
               z == c[0]
    <3>1. x \in Nat /\ y \in Nat /\ z \in Nat /\ x < y /\ x >= z + k BY <1>3, <2>2, <2>4
    <3> HIDE DEF x, y, z
    <3>2. y >= z + (k + 1) BY <3>1
    <3> QED BY <3>2 DEF x, y, z
  <2> QED BY <2>5
<1>6. \A k \in 0..N : k \in T
  <2>1. \A k \in Nat : k < N /\ k \in T => k + 1 \in T BY <1>5
  <2> HIDE DEF T
  <2> QED BY <1>1, <1>4, <2>1, Induction
<1> QED BY <1>1, <1>2, <1>6 DEF N

LEMMA FirstStop ==
  ASSUME NEW count \in Nat, NEW read, Len(read) = count, NEW n \in 0..count,
         n # 0 => Stopped(read[n]),
         \A k \in 1..count : (n = 0 \/ k < n) => ~Stopped(read[k])
  PROVE  SelectInSeq(read, Stopped) = n
<1> DEFINE I == {i \in 1..Len(read) : Stopped(read[i])}
<1>1. SelectInSeq(read, Stopped) = IF I # {} THEN Min(I) ELSE 0 BY DEF SelectInSeq
<1>2. I \in SUBSET Nat OBVIOUS
<1>3. CASE n = 0
  <2>1. I = {} BY <1>3
  <2> QED BY <1>1, <1>3, <2>1
<1>4. CASE n # 0
  <2>1. n \in I /\ \A i \in I : i >= n BY <1>4
  <2> HIDE DEF I
  <2>2. Min(I) \in I /\ \A x \in I : Min(I) <= x BY <1>2, <2>1, LeastOf
  <2>3. Min(I) \in Nat /\ Min(I) >= n /\ Min(I) <= n BY <1>2, <2>1, <2>2
  <2> QED BY <1>1, <2>1, <2>3
<1> QED BY <1>3, <1>4

(* The record ts, the (m+1)st since the counter wrapped, lies before the reader. *)
RecordAhead(f, o, q, ts, m) ==
  /\ RecordAt(f, o.pos, q, ts, o.sep) /\ o.eof = FALSE /\ o.sep \notin {Quote, EndOfLine}
  /\ o.n = Len(ts) /\ o.n # 0 /\ StartsRecord(o.cur, o.n, m)

RecordFound(r, o, q, ts, m) ==
  /\ r.obj \in Object /\ Kept(o, r.obj) /\ r.texts = ts
  /\ r.obj.pos = q /\ r.obj.eof = FALSE /\ r.obj.err = "NO_ERROR"
  /\ r.obj.cur = CountAt(m, o.n, o.n)

(* A record that lies at the position of the reader is read.                 *)
LEMMA RecordRead ==
  ASSUME NEW f \in Seq(Characters), NEW o \in Object, NEW q, NEW ts, NEW m,
         RecordAhead(f, o, q, ts, m)
  PROVE  RecordFound(ReadRecord(f, o), o, q, ts, m)
<1> USE DEF RecordAhead
<1> DEFINE N == o.n
           read == FieldResults(f, o, TRUE, N)
           r == ReadRecord(f, o)
<1>1. PICK c : RecordBy(f, c, ts, o.sep) /\ c[0] = o.pos /\ c[Len(ts)] = q BY DEF RecordAt
<1>2. ts \in Seq(Seq(Characters)) /\ N \in Nat \ {0} /\ Len(ts) = N BY <1>1 DEF RecordBy, Object
<1>3. \A k \in 1..N : Passed(read[k], c[k], ts[k], CountAt(m, N, k), "NO_ERROR")
  <2>1. Len(ts) # 0 /\ Len(ts) <= N /\ StartsRecord(o.cur, Len(ts), m) BY <1>2
  <2>2. \A k \in 1..Len(ts) :
          Passed(FieldResults(f, o, TRUE, N)[k], c[k], ts[k], CountAt(m, Len(ts), k),
                 IF ~TRUE /\ k = Len(ts) THEN "END_OF_LINE" ELSE "NO_ERROR")
    <3> HIDE DEF N
    <3> QED BY <1>1, <1>2, <2>1, FieldsRead DEF N
  <2> QED BY <1>2, <2>2
<1>4. /\ read \in Seq(FieldResult) /\ Len(read) = N
      /\ \A k \in 1..N : Kept(o, read[k].obj)
  <2> HIDE DEF N
  <2> QED BY <1>2, FieldResultsFacts
<1>5. SelectInSeq(read, Stopped) = 0
  <2> HIDE DEF read, N
  <2>1. \A k \in 1..N : ~Stopped(read[k]) BY <1>3 DEF Passed, Stopped
  <2>2. 0 \in 0..N /\ N \in Nat BY <1>2
  <2> QED BY <1>4, <2>1, <2>2, FirstStop
<1>6. r.obj = read[N].obj /\ r.texts = [k \in 1..N |-> read[k].text]
  BY <1>5 DEF ReadRecord
<1> HIDE DEF read, N, r
<1>7. N \in 1..N BY <1>2
<1>8. r.texts = ts
  <2>1. ts \in [1..N -> Seq(Characters)] BY <1>2, LenProperties
  <2>2. \A k \in 1..N : read[k].text = ts[k] BY <1>3 DEF Passed
  <2> QED BY <1>6, <2>1, <2>2
<1>9. r.obj \in Object
  <2>1. read[N] \in FieldResult BY <1>4, <1>7, ElementOfSeq
  <2> QED BY <1>6, <2>1 DEF FieldResult
<1> QED BY <1>1, <1>2, <1>3, <1>4, <1>6, <1>7, <1>8, <1>9 DEF Passed, N, r, RecordFound

HeaderAhead(f, q, ts, sep) ==
  /\ RecordAt(f, 0, q, ts, sep) /\ sep \notin {Quote, EndOfLine}
  /\ Len(ts) # 0 /\ ts[Len(ts)] # <<>> /\ Len(ts) <= DwordValues

HeaderFound(h, q, ts) ==
  /\ h.texts = ts /\ h.obj.n = Len(ts)
  /\ h.obj.pos = q /\ h.obj.eof = FALSE /\ h.obj.err = "NO_ERROR"
  /\ h.obj.cur = CountAt(0, Len(ts), Len(ts))

(* A header that lies at the start of the file is read: its last name is not *)
(* empty, or the loop would end before that field is counted.                *)
LEMMA HeaderRead ==
  ASSUME NEW f \in Seq(Characters), NEW o \in Object, NEW q, NEW ts,
         HeaderAhead(f, q, ts, o.sep), o.pos = 0, o.cur = 0, o.eof = FALSE
  PROVE  HeaderFound(CsviReadHeader(f, o), q, ts) /\ CsviReadHeader(f, o).obj.mode = o.mode
<1> USE DEF HeaderAhead
<1> DEFINE N == Len(ts)
           count == Len(f) + 1
           read == FieldResults(f, o, FALSE, count)
           h == CsviReadHeader(f, o)
<1>1. PICK c : RecordBy(f, c, ts, o.sep) /\ c[0] = o.pos /\ c[Len(ts)] = q BY DEF RecordAt
<1>2. ts \in Seq(Seq(Characters)) /\ N \in Nat \ {0} /\ Len(f) \in Nat /\ count \in Nat
  <2>1. ts \in Seq(Seq(Characters)) BY <1>1 DEF RecordBy
  <2> QED BY <2>1, LenProperties
<1>3. N <= count
  <2>1. N \in 0..N /\ N \in 1..N BY <1>2
  <2>2. c[N] \in Nat /\ c[N] >= c[0] + N BY <1>1, <2>1, CutsGrow
  <2>3. FieldAt(f, c[N - 1], c[N], ts[N], o.sep, Closing(N, N, o.sep)) BY <1>1, <2>1 DEF RecordBy
  <2>4. c[N] <= Len(f) BY <2>3, FieldAdvances
  <2>5. c[0] = 0 BY <1>1
  <2> DEFINE e == c[N]
  <2>6. e \in Nat /\ e >= 0 + N /\ e <= Len(f) BY <2>2, <2>4, <2>5
  <2> HIDE DEF e, N
  <2> QED BY <1>2, <2>6
<1>4. StartsRecord(o.cur, N, 0)
  <2>1. 0 * N = 0 /\ (0 + 1) * N = N BY <1>2
  <2> QED BY <2>1 DEF StartsRecord
<1>5. \A k \in 1..N : Passed(read[k], c[k], ts[k], CountAt(0, N, k),
                             IF k = N THEN "END_OF_LINE" ELSE "NO_ERROR")
  <2>1. \A k \in 1..Len(ts) :
          Passed(FieldResults(f, o, FALSE, count)[k], c[k], ts[k], CountAt(0, Len(ts), k),
                 IF ~FALSE /\ k = Len(ts) THEN "END_OF_LINE" ELSE "NO_ERROR")
    <3> HIDE DEF count
    <3> QED BY <1>1, <1>2, <1>3, <1>4, FieldsRead
  <2> QED BY <2>1
<1>6. read \in Seq(FieldResult) /\ Len(read) = count /\ \A k \in 1..count : Kept(o, read[k].obj)
  <2> HIDE DEF count
  <2> QED BY <1>2, FieldResultsFacts
<1> HIDE DEF read, N, count
<1>7. SelectInSeq(read, Stopped) = N
  <2>1. \A k \in 1..N : k < N => ~Stopped(read[k]) BY <1>5 DEF Passed, Stopped
  <2>2. Stopped(read[N])
    <3>1. N \in 1..N BY <1>2
    <3> QED BY <1>5, <3>1 DEF Passed, Stopped
  <2>3. N \in 0..count /\ N # 0 BY <1>2, <1>3
  <2>4. \A k \in 1..count : (N = 0 \/ k < N) => ~Stopped(read[k])
    <3>1. \A k \in 1..count : k < N => k \in 1..N BY <1>2
    <3> QED BY <2>1, <2>3, <3>1
  <2> QED BY <1>2, <1>6, <2>2, <2>3, <2>4, FirstStop
<1>8. /\ h.obj = [read[N].obj EXCEPT !.n = N, !.err = IF @ = "END_OF_LINE" THEN "NO_ERROR" ELSE @]
      /\ h.texts = [k \in 1..N |-> read[k].text]
  BY <1>7 DEF CsviReadHeader, read, count
<1> HIDE DEF h
<1>9. N \in 1..N /\ N \in 1..count BY <1>2, <1>3
<1>10. read[N].obj \in Object
  <2>1. read[N] \in FieldResult BY <1>6, <1>9, ElementOfSeq
  <2> QED BY <2>1 DEF FieldResult
<1>11. h.texts = ts
  <2>1. ts \in [1..N -> Seq(Characters)] BY <1>2, LenProperties DEF N
  <2>2. \A k \in 1..N : read[k].text = ts[k] BY <1>5 DEF Passed
  <2> QED BY <1>8, <2>1, <2>2
<1>12. /\ read[N].obj.pos = c[N] /\ read[N].obj.eof = FALSE /\ read[N].obj.err = "END_OF_LINE"
       /\ read[N].obj.cur = CountAt(0, N, N)
  BY <1>5, <1>9 DEF Passed
<1>13. Kept(o, read[N].obj) BY <1>6, <1>9
<1>14. /\ h.obj.n = N /\ h.obj.pos = c[N] /\ h.obj.eof = FALSE /\ h.obj.err = "NO_ERROR"
       /\ h.obj.cur = CountAt(0, N, N)
       /\ h.obj.mode = o.mode
  BY <1>8, <1>10, <1>12, <1>13 DEF Object, Kept
<1> QED BY <1>1, <1>11, <1>14 DEF N, h, HeaderFound

-----------------------------------------------------------------------------
(* Records and the lines of the reference grammar.                           *)

LEMMA FieldLines ==
  ASSUME NEW f \in Seq(Characters), NEW p, NEW q, NEW t, NEW sep, NEW c,
         FieldAt(f, p, q, t, sep, c), ~Odd(f, p + 1),
         sep \notin {Quote, EndOfLine}, c \in {sep, EndOfLine}
  PROVE  /\ ~Odd(f, q + 1)
         /\ LinesUpTo(f, q) = IF c = EndOfLine THEN LinesUpTo(f, p) + 1 ELSE LinesUpTo(f, p)
<1>1. p \in Nat /\ q \in Nat /\ p < q /\ q <= Len(f) BY FieldAdvances
<1>2. f[q] = c BY DEF FieldAt
<1>3. Hides(f, p, q, sep) /\ ~Odd(f, q + 1)
  <2>1. sep # Quote /\ c # Quote BY CharactersDiffer
  <2> QED BY <2>1, FieldHides
<1>4. ~Odd(f, q) /\ \A k \in p + 1..q - 1 : f[k] = EndOfLine => Odd(f, k) BY <1>3 DEF Hides
<1>5. CASE c # EndOfLine
  <2>1. \A k \in p + 1..q : k = q \/ k \in p + 1..q - 1 BY <1>1
  <2>2. \A k \in p + 1..q : f[k] = EndOfLine => Odd(f, k) BY <1>2, <1>4, <1>5, <2>1
  <2>3. p <= q BY <1>1
  <2>4. LinesUpTo(f, q) = LinesUpTo(f, p) BY <1>1, <2>2, <2>3, NoLineBetween
  <2> QED BY <1>3, <1>5, <2>4
<1>6. CASE c = EndOfLine
  <2> DEFINE r == q - 1
  <2>1. r \in Nat /\ p <= r /\ r < Len(f) /\ r + 1 = q
    <3>1. Len(f) \in Nat BY LenProperties
    <3> QED BY <1>1, <3>1
  <2>2. \A k \in p + 1..r : f[k] = EndOfLine => Odd(f, k) BY <1>4
  <2> HIDE DEF r
  <2>3. LinesUpTo(f, r) = LinesUpTo(f, p) BY <1>1, <2>1, <2>2, NoLineBetween
  <2>4. f[r + 1] = EndOfLine /\ ~Odd(f, r + 1) BY <1>2, <1>4, <1>6, <2>1
  <2>5. LinesUpTo(f, r + 1) = LinesUpTo(f, r) + 1 BY <2>1, <2>4, LineEnds
  <2> QED BY <1>3, <1>6, <2>1, <2>3, <2>5
<1> QED BY <1>5, <1>6

LEMMA RecordLines ==
  ASSUME NEW f \in Seq(Characters), NEW p, NEW q, NEW ts, NEW sep,
         RecordAt(f, p, q, ts, sep), ~Odd(f, p + 1),
         sep \notin {Quote, EndOfLine}, Len(ts) # 0
  PROVE  /\ p \in Nat /\ q \in Nat /\ p < q /\ q <= Len(f)
         /\ ~Odd(f, q + 1) /\ LinesUpTo(f, q) = LinesUpTo(f, p) + 1
<1> DEFINE N == Len(ts)
<1>1. PICK c : RecordBy(f, c, ts, sep) /\ c[0] = p /\ c[N] = q BY DEF RecordAt
<1>2. N \in Nat \ {0}
  <2>1. ts \in Seq(Seq(Characters)) BY <1>1 DEF RecordBy
  <2> QED BY <2>1, LenProperties
<1>3. \A k \in 1..N : FieldAt(f, c[k - 1], c[k], ts[k], sep, Closing(k, N, sep))
  BY <1>1 DEF RecordBy
<1>4. \A k \in 0..N : c[k] \in Nat /\ c[k] >= c[0] + k BY <1>1, CutsGrow
<1>5. \A k \in 1..N : /\ Closing(k, N, sep) \in {sep, EndOfLine}
                      /\ Closing(k, N, sep) = EndOfLine <=> k = N
  BY DEF Closing
<1> HIDE DEF N
<1> DEFINE T == {k \in Nat : k <= N - 1 => ~Odd(f, c[k] + 1) /\ LinesUpTo(f, c[k]) = LinesUpTo(f, p)}
<1>6. 0 \in T BY <1>1
<1>7. ASSUME NEW k \in Nat, k < N - 1, k \in T PROVE k + 1 \in T
  <2> DEFINE n == k + 1
  <2>1. n \in 1..N /\ n # N /\ n - 1 = k /\ k <= N - 1 BY <1>2, <1>7
  <2>2. ~Odd(f, c[k] + 1) /\ LinesUpTo(f, c[k]) = LinesUpTo(f, p) BY <1>7, <2>1
  <2> HIDE DEF n
  <2>3. FieldAt(f, c[k], c[n], ts[n], sep, Closing(n, N, sep)) BY <1>3, <2>1
  <2>4. Closing(n, N, sep) \in {sep, EndOfLine} /\ Closing(n, N, sep) # EndOfLine BY <1>5, <2>1
  <2>5. ~Odd(f, c[n] + 1) /\ LinesUpTo(f, c[n]) = LinesUpTo(f, c[k])
    BY <2>2, <2>3, <2>4, FieldLines
  <2>6. ~Odd(f, c[n] + 1) /\ LinesUpTo(f, c[n]) = LinesUpTo(f, p) BY <2>2, <2>5
  <2> QED BY <2>6 DEF n
<1> DEFINE l == N - 1
<1>8. l \in Nat /\ l \in 0..N /\ N \in 1..N /\ N \in 0..N BY <1>2
<1>9. l \in T
  <2>1. \A k \in Nat : k < l /\ k \in T => k + 1 \in T BY <1>7
  <2> HIDE DEF T, l
  <2>2. \A k \in 0..l : k \in T BY <1>6, <1>8, <2>1, Induction
  <2>3. l \in 0..l BY <1>8
  <2> QED BY <2>2, <2>3
<1>10. ~Odd(f, c[l] + 1) /\ LinesUpTo(f, c[l]) = LinesUpTo(f, p) BY <1>8, <1>9
<1>11. FieldAt(f, c[l], q, ts[N], sep, Closing(N, N, sep))
       /\ Closing(N, N, sep) \in {sep, EndOfLine} /\ Closing(N, N, sep) = EndOfLine
  BY <1>1, <1>3, <1>5, <1>8
<1> HIDE DEF l
<1>12. ~Odd(f, q + 1) /\ LinesUpTo(f, q) = LinesUpTo(f, p) + 1
  BY <1>10, <1>11, FieldLines
<1>13. q \in Nat /\ q <= Len(f) BY <1>11, FieldAdvances
<1>14. p \in Nat /\ p < q
  <2>1. 0 \in 0..N BY <1>2
  <2>2. c[0] \in Nat /\ c[N] \in Nat /\ c[N] >= c[0] + N BY <1>4, <1>8, <2>1
  <2>3. p \in Nat /\ q >= p + N BY <1>1, <2>2
  <2> QED BY <1>2, <1>13, <2>3
<1> QED BY <1>12, <1>13, <1>14

(* The header and the records of a file, between the marks.                  *)
FileAt(f, h, rs, sep, mark) ==
  /\ mark \in [0..Len(rs) -> Nat] /\ Len(f) = mark[Len(rs)]
  /\ RecordAt(f, 0, mark[0], h, Comma)
  /\ \A k \in 1..Len(rs) : RecordAt(f, mark[k - 1], mark[k], rs[k], sep)

LEMMA FileLines ==
  ASSUME NEW f \in Seq(Characters), NEW h, NEW rs, NEW sep, NEW mark,
         FileAt(f, h, rs, sep, mark), sep \notin {Quote, EndOfLine}, Len(rs) \in Nat,
         Len(h) # 0, \A k \in 1..Len(rs) : Len(rs[k]) # 0
  PROVE  \A k \in 0..Len(rs) :
           /\ mark[k] \in Nat /\ mark[k] <= Len(f)
           /\ LinesUpTo(f, mark[k]) = k + 1 /\ ~Odd(f, mark[k] + 1)
           /\ k # Len(rs) => mark[k] < Len(f)
<1> DEFINE K == Len(rs)
           Good(k) == LinesUpTo(f, mark[k]) = k + 1 /\ ~Odd(f, mark[k] + 1)
           T == {k \in Nat : k <= K => Good(k)}
<1>1. /\ mark \in [0..K -> Nat] /\ Len(f) = mark[K]
      /\ RecordAt(f, 0, mark[0], h, Comma)
      /\ \A k \in 1..K : RecordAt(f, mark[k - 1], mark[k], rs[k], sep)
  BY DEF FileAt
<1>2. K \in Nat /\ \A k \in 1..K : Len(rs[k]) # 0 OBVIOUS
<1> HIDE DEF K
<1>3. 0 \in T
  <2>1. ~Odd(f, 0 + 1)
    <3>1. 0 + 1 = 1 OBVIOUS
    <3> QED BY <3>1, ParityStart
  <2>2. Comma \notin {Quote, EndOfLine} BY CharactersDiffer
  <2>3. ~Odd(f, mark[0] + 1) /\ LinesUpTo(f, mark[0]) = LinesUpTo(f, 0) + 1
    BY <1>1, <2>1, <2>2, RecordLines
  <2>4. LinesUpTo(f, 0) = 0 BY LinesStart
  <2> QED BY <2>3, <2>4
<1>4. \A k \in 1..K : ~Odd(f, mark[k - 1] + 1) =>
        /\ ~Odd(f, mark[k] + 1) /\ LinesUpTo(f, mark[k]) = LinesUpTo(f, mark[k - 1]) + 1
        /\ mark[k - 1] < mark[k] /\ mark[k] <= Len(f)
  BY <1>1, <1>2, RecordLines
<1>5. ASSUME NEW k \in Nat, k < K, k \in T PROVE k + 1 \in T
  <2> DEFINE n == k + 1
  <2>1. n \in 1..K /\ n - 1 = k /\ k <= K BY <1>2, <1>5
  <2>2. Good(k) BY <1>5, <2>1
  <2>3. ~Odd(f, mark[n] + 1) /\ LinesUpTo(f, mark[n]) = LinesUpTo(f, mark[k]) + 1
    <3> HIDE DEF n
    <3> QED BY <1>4, <2>1, <2>2
  <2>4. LinesUpTo(f, mark[n]) = n + 1 BY <2>2, <2>3
  <2> QED BY <2>3, <2>4
<1>6. \A k \in 0..K : k \in T
  <2>1. \A k \in Nat : k < K /\ k \in T => k + 1 \in T BY <1>5
  <2> HIDE DEF T
  <2> QED BY <1>2, <1>3, <2>1, Induction
<1>7. \A k \in 0..K : Good(k) BY <1>2, <1>6
<1>8. \A k \in 0..K : mark[k] \in Nat BY <1>1
<1>9. \A k \in 0..K : k # K => mark[k] < Len(f)
  <2> SUFFICES ASSUME NEW k \in 0..K, k # K PROVE mark[k] < Len(f) OBVIOUS
  <2> DEFINE n == k + 1
  <2>1. n \in 1..K /\ n - 1 = k /\ n \in 0..K BY <1>2
  <2>2. ~Odd(f, mark[k] + 1) BY <1>7
  <2> HIDE DEF n
  <2>3. mark[k] < mark[n] /\ mark[n] <= Len(f) BY <1>4, <2>1, <2>2
  <2>4. mark[k] \in Nat /\ mark[n] \in Nat /\ Len(f) \in Nat BY <1>8, <2>1, LenProperties
  <2> QED BY <2>3, <2>4
<1>10. \A k \in 0..K : mark[k] <= Len(f)
  <2> SUFFICES ASSUME NEW k \in 0..K PROVE mark[k] <= Len(f) OBVIOUS
  <2>1. mark[k] \in Nat /\ Len(f) \in Nat BY <1>8, LenProperties
  <2>2. CASE k = K BY <1>1, <2>1, <2>2
  <2>3. CASE k # K BY <1>9, <2>1, <2>3
  <2> QED BY <2>2, <2>3
<1> QED BY <1>7, <1>8, <1>9, <1>10 DEF K

LEMMA FileGrows ==
  ASSUME NEW f \in Seq(Characters), NEW F \in Seq(Characters), Extends(f, F),
         NEW S, NEW h, NEW rs \in Seq(S), NEW ts \in S, NEW sep, NEW mark,
         FileAt(f, h, rs, sep, mark), RecordAt(F, Len(f), Len(F), ts, sep)
  PROVE  \E new : FileAt(F, h, Append(rs, ts), sep, new)
<1> DEFINE K == Len(rs)
           all == Append(rs, ts)
           new == [k \in 0..K + 1 |-> IF k = K + 1 THEN Len(F) ELSE mark[k]]
<1>1. /\ mark \in [0..K -> Nat] /\ Len(f) = mark[K]
      /\ RecordAt(f, 0, mark[0], h, Comma)
      /\ \A k \in 1..K : RecordAt(f, mark[k - 1], mark[k], rs[k], sep)
  BY DEF FileAt
<1>2. K \in Nat /\ Len(F) \in Nat BY LenProperties
<1>3. Len(all) = K + 1 /\ (\A k \in 1..K : all[k] = rs[k]) /\ all[K + 1] = ts
  BY AppendProperties
<1> HIDE DEF K, all
<1>4. new \in [0..K + 1 -> Nat] /\ new[K + 1] = Len(F) /\ \A k \in 0..K : new[k] = mark[k]
  <2>1. \A k \in 0..K + 1 : k = K + 1 \/ k \in 0..K BY <1>2
  <2>2. \A k \in 0..K : mark[k] \in Nat /\ k # K + 1 /\ k \in 0..K + 1 BY <1>1, <1>2
  <2>3. K + 1 \in 0..K + 1 BY <1>2
  <2> QED BY <1>2, <2>1, <2>2, <2>3
<1> HIDE DEF new
<1>5. RecordAt(F, 0, new[0], h, Comma)
  <2>1. 0 \in 0..K BY <1>2
  <2> QED BY <1>1, <1>4, <2>1, RecordStays
<1>6. ASSUME NEW k \in 1..K + 1 PROVE RecordAt(F, new[k - 1], new[k], all[k], sep)
  <2>1. CASE k = K + 1
    <3>1. k - 1 = K /\ K \in 0..K BY <1>2, <2>1
    <3> QED BY <1>1, <1>3, <1>4, <2>1, <3>1
  <2>2. CASE k # K + 1
    <3>1. k \in 1..K /\ k \in 0..K /\ k - 1 \in 0..K BY <1>2, <2>2
    <3>2. RecordAt(F, mark[k - 1], mark[k], rs[k], sep) BY <1>1, <3>1, RecordStays
    <3> QED BY <1>3, <1>4, <3>1, <3>2
  <2> QED BY <2>1, <2>2
<1>7. FileAt(F, h, all, sep, new) BY <1>3, <1>4, <1>5, <1>6 DEF FileAt
<1> QED BY <1>7 DEF all

-----------------------------------------------------------------------------
(* The state of a regular host program.                                      *)

(* A program that begins with no file, whose writes are complete, that sets  *)
(* the separator the file was written with and does not call the variants    *)
(* for ANSI strings. The last name of a header is not empty: the reader does *)
(* not count an empty field that ends a header. No file has so many fields   *)
(* that their count wraps.                                                   *)
Regular ==
  /\ InitialFiles \subseteq {<<>>}
  /\ SameSeparator /\ ~FailingWrites /\ ~AnsiCalls
  /\ \A h \in Headers : h[Len(h)] # <<>> /\ (MaxRecords + 1) * Len(h) <= DwordValues

(* dwCurrentField is what at most so many whole records make of it.          *)
Multiple(cur, n, most) == \E m \in 0..most : cur = m * n

ReaderInv(mark, k) ==
  /\ csv.pos = mark[k] /\ csv.after = mark[0]
  /\ csv.eof => k = Len(written.records)
  /\ Multiple(csv.cur, csv.n, k + 1)

PositionInv(mark) ==
  csv.mode # "closed" =>
    /\ csv.n = Len(written.header)
    /\ IF csv.mode = "read" THEN \E k \in 0..Len(written.records) : ReaderInv(mark, k)
       ELSE csv.filter = <<>> /\ Multiple(csv.cur, csv.n, Len(written.records) + 1)

Marked(mark) == FileAt(file, written.header, written.records, RecordSeparator, mark)

RecordsInv ==
  /\ written.header \in Headers
  /\ \A k \in 1..Len(written.records) : Len(written.records[k]) = Len(written.header)
  /\ \E mark : Marked(mark) /\ PositionInv(mark)

StreamInv ==
  /\ Len(written.records) <= MaxRecords
  /\ RecordSeparator \notin {Quote, EndOfLine}
  /\ Len(written.records) # 0 => fileSep # Unset
  /\ IF file = <<>>
     THEN written = [header |-> <<>>, records |-> <<>>] /\ csv.mode = "closed"
     ELSE RecordsInv

LEMMA HeaderFacts ==
  ASSUME Regular, NEW h \in Headers
  PROVE  /\ h \in Seq(Seq(Characters)) /\ Len(h) \in Nat \ {0} /\ h[Len(h)] # <<>>
         /\ MaxRecords \in Nat /\ (MaxRecords + 1) * Len(h) <= DwordValues
         /\ Len(h) <= DwordValues
<1>1. h \in Seq(Seq(Characters)) /\ h # <<>> /\ MaxRecords \in Nat BY HostAssumption
<1>2. Len(h) \in Nat \ {0} BY <1>1, EmptySeq
<1>3. h[Len(h)] # <<>> /\ (MaxRecords + 1) * Len(h) <= DwordValues BY DEF Regular
<1>4. MaxRecords * Len(h) \in Nat /\ (MaxRecords + 1) * Len(h) = MaxRecords * Len(h) + Len(h)
  BY <1>1, <1>2, MultipleGrows
<1>5. DwordValues \in Nat BY DwordAssumption
<1> DEFINE x == MaxRecords * Len(h)
           y == (MaxRecords + 1) * Len(h)
<1>6. x \in Nat /\ y = x + Len(h) /\ y <= DwordValues BY <1>3, <1>4
<1> HIDE DEF x, y
<1>7. Len(h) <= DwordValues BY <1>2, <1>5, <1>6
<1> QED BY <1>1, <1>2, <1>3, <1>7

LEMMA ProductGrows ==
  ASSUME NEW a \in Nat, NEW b \in Nat, a <= b, NEW n \in Nat
  PROVE  a * n <= b * n
<1> DEFINE d == b - a
<1>1. d \in Nat /\ b = a + d OBVIOUS
<1> HIDE DEF d
<1>2. (a + d) * n = a * n + d * n BY <1>1
<1>3. a * n \in Nat /\ d * n \in Nat BY <1>1, MultipleGrows
<1>4. a * n <= a * n + d * n BY <1>3
<1> QED BY <1>1, <1>2, <1>4

(* Within the bound of the model a record starts at such a count, and leaves *)
(* one more behind.                                                          *)
LEMMA MultipleStarts ==
  ASSUME NEW n \in Nat \ {0}, NEW cur, NEW most \in Nat, Multiple(cur, n, most),
         NEW M \in Nat, most <= M, (M + 1) * n <= DwordValues
  PROVE  \E m \in 0..most : StartsRecord(cur, n, m)
<1>1. PICK m \in 0..most : cur = m * n BY DEF Multiple
<1>2. m + 1 \in Nat /\ M + 1 \in Nat /\ m + 1 <= M + 1 OBVIOUS
<1>3. (m + 1) * n <= (M + 1) * n
  <2> DEFINE a == m + 1
             b == M + 1
  <2>1. a \in Nat /\ b \in Nat /\ a <= b BY <1>2
  <2> HIDE DEF a, b
  <2>2. a * n <= b * n BY <2>1, ProductGrows
  <2> QED BY <2>2 DEF a, b
<1>4. DwordValues \in Nat /\ (m + 1) * n \in Nat /\ (M + 1) * n \in Nat
  BY <1>2, DwordAssumption, MultipleGrows
<1>5. (m + 1) * n <= DwordValues
  <2> DEFINE x == (m + 1) * n
             y == (M + 1) * n
  <2>1. x \in Nat /\ y \in Nat /\ x <= y /\ y <= DwordValues BY <1>3, <1>4
  <2> HIDE DEF x, y
  <2>2. x <= DwordValues BY <1>4, <2>1
  <2> QED BY <2>2 DEF x
<1> QED BY <1>1, <1>5 DEF StartsRecord

LEMMA MultipleCounts ==
  ASSUME NEW n \in Nat \ {0}, NEW cur, NEW most \in Nat, NEW m \in 0..most,
         StartsRecord(cur, n, m)
  PROVE  Multiple(CountAt(m, n, n), n, most + 1) /\ Multiple(Advanced(cur, n), n, most + 1)
<1>1. m \in Nat /\ cur = m * n /\ (m + 1) * n <= DwordValues BY DEF StartsRecord
<1>2. m * n \in Nat /\ (m + 1) * n = m * n + n BY <1>1, MultipleGrows
<1>3. 0 \in 0..most + 1 /\ 0 = 0 * n /\ m + 1 \in 0..most + 1 OBVIOUS
<1>4. \A x : x = 0 \/ x = (m + 1) * n => Multiple(x, n, most + 1) BY <1>3 DEF Multiple
<1>5. CountAt(m, n, n) = 0 \/ CountAt(m, n, n) = (m + 1) * n BY <1>2 DEF CountAt
<1>6. Advanced(cur, n) = 0 \/ Advanced(cur, n) = (m + 1) * n
  <2> DEFINE x == m * n
             D == DwordValues
  <2>1. Advanced(cur, n) = (x + n) % D BY <1>1 DEF Advanced
  <2>2. D \in Nat \ {0} /\ x \in Nat /\ (m + 1) * n = x + n /\ x + n <= D
    BY <1>1, <1>2, DwordAssumption
  <2> HIDE DEF x, D
  <2>3. D % D = 0 /\ \A y \in 0..D - 1 : y % D = y BY <2>2, SmallModulo
  <2>4. x + n = D \/ x + n \in 0..D - 1 BY <2>2
  <2> QED BY <2>1, <2>2, <2>3, <2>4
<1> QED BY <1>4, <1>5, <1>6

LEMMA MultipleMore ==
  ASSUME NEW n, NEW cur, NEW a \in Nat, NEW b \in Nat, a <= b, Multiple(cur, n, a)
  PROVE  Multiple(cur, n, b)
<1>1. \A m \in 0..a : m \in 0..b OBVIOUS
<1> QED BY <1>1 DEF Multiple

-----------------------------------------------------------------------------
(* Steps of the library as steps of the stream.                              *)

Mode == IF csv.mode = "append" THEN "write" ELSE csv.mode

Outcome ==
  [kind |-> IF ret.call = "CsvWriteNextRecord" /\ ret.ok THEN "written"
            ELSE IF ret.call = "CsvResetFile" THEN "reset"
            ELSE IF ret.call # "CsvGetNextRecord" THEN "other"
            ELSE IF ret.ok THEN "read"
            ELSE IF ret.error = "END_OF_FILE" THEN "end"
            ELSE IF ret.error = "INVALID_OPERATION" THEN "other"
            ELSE "error",
   values |-> IF ret.call \notin {"CsvWriteNextRecord", "CsvGetNextRecord"}
              THEN <<>>
              ELSE IF ret.ok /\ csv.filter # <<>>
              THEN written.records[RecordsPassed]
              ELSE ret.values]

StreamStep == [Stream!Next]_(Stream!vars)

LEMMA StreamSteps ==
  /\ UNCHANGED <<written.header, written.records, Mode, RecordsPassed, Outcome>> => StreamStep
  /\ /\ Mode = "closed" /\ Mode' = "write" /\ written'.header \in Headers
     /\ written'.records = <<>> /\ Outcome' = Stream!Nothing /\ RecordsPassed' = RecordsPassed
     => StreamStep
  /\ /\ Mode = "closed" /\ Mode' \in {"read", "write"} /\ RecordsPassed' = 0
     /\ Outcome' = Stream!Nothing /\ UNCHANGED <<written.header, written.records>>
     => StreamStep
  /\ /\ Mode # "closed" /\ Mode' = "closed" /\ RecordsPassed' = 0
     /\ Outcome' = Stream!Nothing /\ UNCHANGED <<written.header, written.records>>
     => StreamStep
  /\ /\ Mode = "write" /\ Outcome'.kind = "written"
     /\ Outcome'.values \in [DOMAIN written.header -> Texts]
     /\ written'.records = Append(written.records, Outcome'.values)
     /\ UNCHANGED <<written.header, Mode, RecordsPassed>>
     => StreamStep
  /\ /\ Mode = "read" /\ RecordsPassed < Len(written.records)
     /\ RecordsPassed' = RecordsPassed + 1
     /\ Outcome' = [kind |-> "read", values |-> written.records[RecordsPassed + 1]]
     /\ UNCHANGED <<written.header, written.records, Mode>>
     => StreamStep
  /\ /\ Mode = "read" /\ RecordsPassed = Len(written.records)
     /\ Outcome' = [kind |-> "end", values |-> <<>>]
     /\ UNCHANGED <<written.header, written.records, Mode, RecordsPassed>>
     => StreamStep
  /\ /\ Mode = "read" /\ RecordsPassed' = 0
     /\ Outcome' = [kind |-> "reset", values |-> <<>>]
     /\ UNCHANGED <<written.header, written.records, Mode>>
     => StreamStep
  /\ /\ Outcome' = Stream!Nothing
     /\ UNCHANGED <<written.header, written.records, Mode, RecordsPassed>>
     => StreamStep
BY DEF StreamStep, Stream!Next, Stream!vars, Stream!Create, Stream!Open, Stream!Close,
       Stream!Write, Stream!Read, Stream!ReadAtEnd, Stream!Reset, Stream!Other, Mode, Outcome

(* A call that the stream does not see.                                      *)
Unseen(r) ==
  \/ r.call \notin {"CsvWriteNextRecord", "CsvResetFile", "CsvGetNextRecord"}
  \/ /\ r.ok = FALSE /\ r.values = <<>> /\ r.error = "INVALID_OPERATION"
     /\ r.call \in {"CsvWriteNextRecord", "CsvGetNextRecord"}

LEMMA UnseenOutcome ==
  ASSUME Unseen(ret')
  PROVE  Outcome' = Stream!Nothing
BY DEF Unseen, Outcome, Stream!Nothing

SamePosition ==
  /\ csv'.mode = csv.mode /\ csv'.n = csv.n /\ csv'.cur = csv.cur
  /\ csv'.pos = csv.pos /\ csv'.eof = csv.eof /\ csv'.after = csv.after
  /\ csv'.filter = csv.filter

LEMMA SamePositionInv ==
  ASSUME StreamInv, SamePosition, UNCHANGED <<file, fileSep, written>>
  PROVE  StreamInv' /\ UNCHANGED <<written.header, written.records, Mode, RecordsPassed>>
<1>1. RecordSeparator' = RecordSeparator BY DEF RecordSeparator
<1>2. CASE file = <<>> BY <1>1, <1>2 DEF StreamInv, SamePosition, Mode, RecordsPassed
<1>3. CASE file # <<>>
  <2>1. RecordsInv BY <1>3 DEF StreamInv
  <2>2. PICK mark : Marked(mark) /\ PositionInv(mark) BY <2>1 DEF RecordsInv
  <2>3. Marked(mark)' BY <1>1, <2>2 DEF Marked
  <2>4. \A k : ReaderInv(mark, k)' <=> ReaderInv(mark, k) BY DEF ReaderInv, SamePosition
  <2>5. PositionInv(mark)' BY <2>2, <2>4 DEF PositionInv, SamePosition
  <2>6. RecordsInv' BY <2>1, <2>3, <2>5 DEF RecordsInv
  <2>7. StreamInv' BY <1>1, <1>3, <2>6 DEF StreamInv
  <2> QED BY <2>7 DEF SamePosition, Mode, RecordsPassed
<1> QED BY <1>2, <1>3

LEMMA UnseenStep ==
  ASSUME StreamInv, SamePosition, UNCHANGED <<file, fileSep, written>>, Unseen(ret')
  PROVE  StreamInv' /\ StreamStep
BY SamePositionInv, UnseenOutcome, StreamSteps

LEMMA StillStep ==
  ASSUME StreamInv, UNCHANGED <<file, fileSep, written, csv, ret>>
  PROVE  StreamInv' /\ StreamStep
<1>1. SamePosition BY DEF SamePosition
<1>2. StreamInv' /\ UNCHANGED <<written.header, written.records, Mode, RecordsPassed>>
  BY <1>1, SamePositionInv
<1>3. Outcome' = Outcome BY <1>2 DEF Outcome
<1> QED BY <1>2, <1>3, StreamSteps

LEMMA CrashIsStill ==
  ASSUME StreamInv, Crash
  PROVE  StreamInv' /\ StreamStep
BY StillStep DEF Crash

LEMMA RefusedUnseen ==
  ASSUME TypeInv, StreamInv, NEW call, NEW e, Refused(call, e),
         \/ call = "other"
         \/ call \in {"CsvWriteNextRecord", "CsvGetNextRecord"} /\ e = "INVALID_OPERATION"
  PROVE  StreamInv' /\ StreamStep
<1>1. csv \in Object BY DEF TypeInv, OkObject
<1>2. csv' = [csv EXCEPT !.err = e] /\ UNCHANGED <<file, fileSep, written>>
      /\ ret' = [call |-> call, ok |-> FALSE, values |-> <<>>, number |-> 0,
                 error |-> [csv EXCEPT !.err = e].err]
  BY DEF Refused, Returns
<1>3. [csv EXCEPT !.err = e].err = e BY <1>1 DEF Object
<1>4. SamePosition BY <1>1, <1>2 DEF SamePosition, Object
<1>5. Unseen(ret') BY <1>2, <1>3 DEF Unseen
<1> QED BY <1>2, <1>4, <1>5, UnseenStep

LEMMA SucceedsUnseen ==
  ASSUME TypeInv, StreamInv, NEW o \in Object, NEW values, NEW number,
         Succeeds("other", o, values, number), UNCHANGED <<file, fileSep, written>>,
         o.mode = csv.mode, o.n = csv.n, o.cur = csv.cur, o.pos = csv.pos, o.eof = csv.eof,
         o.after = csv.after, o.filter = csv.filter
  PROVE  StreamInv' /\ StreamStep
<1>1. csv' = [o EXCEPT !.err = "NO_ERROR"] /\ ret'.call = "other" BY DEF Succeeds, Returns
<1>2. SamePosition BY <1>1 DEF SamePosition, Object
<1>3. Unseen(ret') BY <1>1 DEF Unseen
<1> QED BY <1>2, <1>3, UnseenStep

LEMMA OptionsUnseen ==
  ASSUME TypeInv, StreamInv, NEW e, NEW c \in Characters,
         CsvSetOption(e, c) \/ CsvUnsetOption(e)
  PROVE  StreamInv' /\ StreamStep
<1>1. csv \in Object /\ Comma \in Characters BY CharactersDiffer DEF TypeInv, OkObject
<1>2. CASE \E x : Refused("other", x) BY <1>2, RefusedUnseen
<1>3. CASE CsvSetOption(e, c) /\ ~\E x : Refused("other", x)
  <2> DEFINE o == [csv EXCEPT
                     !.sep = IF /\ e = "separator"
                                /\ c \notin {Quote, EndOfLine}
                             THEN c ELSE @,
                     !.always = @ \/ e = "enquote"]
  <2>1. Succeeds("other", o, <<>>, 0) /\ UNCHANGED <<file, fileSep, written>>
    BY <1>3 DEF CsvSetOption
  <2>2. /\ o \in Object /\ o.mode = csv.mode /\ o.n = csv.n /\ o.cur = csv.cur /\ o.pos = csv.pos
        /\ o.eof = csv.eof /\ o.after = csv.after /\ o.filter = csv.filter
    <3> DEFINE s == IF e = "separator" /\ c \notin {Quote, EndOfLine} THEN c ELSE csv.sep
               a == csv.always \/ e = "enquote"
    <3>1. s \in Characters BY <1>1 DEF Object
    <3>2. a \in BOOLEAN OBVIOUS
    <3>3. o = [csv EXCEPT !.sep = s, !.always = a] BY <1>1 DEF Object
    <3> HIDE DEF s, a, o
    <3> QED BY <1>1, <3>1, <3>2, <3>3 DEF Object
  <2> HIDE DEF o
  <2> QED BY <2>1, <2>2, SucceedsUnseen
<1>4. CASE CsvUnsetOption(e) /\ ~\E x : Refused("other", x)
  <2> DEFINE o == IF e = "separator" THEN [csv EXCEPT !.sep = Comma]
                  ELSE [csv EXCEPT !.always = FALSE]
  <2>1. Succeeds("other", o, <<>>, 0) /\ UNCHANGED <<file, fileSep, written>>
    BY <1>4 DEF CsvUnsetOption
  <2>2. /\ o \in Object /\ o.mode = csv.mode /\ o.n = csv.n /\ o.cur = csv.cur /\ o.pos = csv.pos
        /\ o.eof = csv.eof /\ o.after = csv.after /\ o.filter = csv.filter
    BY <1>1 DEF Object
  <2> HIDE DEF o
  <2> QED BY <2>1, <2>2, SucceedsUnseen
<1> QED BY <1>2, <1>3, <1>4

LEMMA QueriesUnseen ==
  ASSUME TypeInv, StreamInv,
         CsvWriteNextRecordWithTypes \/ CsvGetLastError \/ CsvGetHeaderNumberOfFields
  PROVE  StreamInv' /\ StreamStep
<1>1. csv \in Object BY DEF TypeInv, OkObject
<1>2. CASE CsvWriteNextRecordWithTypes
  <2>1. SamePosition BY <1>2 DEF SamePosition, CsvWriteNextRecordWithTypes
  <2>2. Unseen(ret') BY <1>2 DEF Unseen, CsvWriteNextRecordWithTypes
  <2> QED BY <1>2, <2>1, <2>2, UnseenStep DEF CsvWriteNextRecordWithTypes
<1>3. CASE CsvGetLastError
  <2>1. SamePosition BY <1>1, <1>3 DEF SamePosition, CsvGetLastError, Object
  <2>2. Unseen(ret') BY <1>3 DEF Unseen, CsvGetLastError
  <2> QED BY <1>3, <2>1, <2>2, UnseenStep DEF CsvGetLastError
<1>4. CASE CsvGetHeaderNumberOfFields
  BY <1>1, <1>4, SucceedsUnseen DEF CsvGetHeaderNumberOfFields
<1> QED BY <1>2, <1>3, <1>4

(* A step that leaves the file alone keeps what it holds.                    *)
LEMMA RecordsKept ==
  ASSUME StreamInv, file # <<>>, UNCHANGED <<file, fileSep, written>>,
         NEW mark, Marked(mark), PositionInv(mark)'
  PROVE  StreamInv'
<1>1. RecordSeparator' = RecordSeparator BY DEF RecordSeparator
<1>2. RecordsInv BY DEF StreamInv
<1>3. Marked(mark)' BY <1>1 DEF Marked
<1>4. RecordsInv' BY <1>2, <1>3 DEF RecordsInv
<1> QED BY <1>1, <1>4 DEF StreamInv

LEMMA ClosedPosition ==
  ASSUME csv'.mode = "closed"
  PROVE  Mode' = "closed" /\ RecordsPassed' = 0 /\ \A mark : PositionInv(mark)'
BY DEF Mode, RecordsPassed, PositionInv

LEMMA CloseStream ==
  ASSUME TypeInv, StreamInv, CsvClose
  PROVE  StreamInv' /\ StreamStep
<1>1. csv' = [NoObject EXCEPT !.err = "NO_ERROR"] /\ ret'.call = "other"
      /\ UNCHANGED <<file, fileSep, written>> /\ csv.mode # "closed"
  BY DEF CsvClose, Succeeds, Returns, MayUse
<1>2. csv'.mode = "closed" BY <1>1 DEF NoObject, Opened
<1>3. Outcome' = Stream!Nothing
  <2>1. Unseen(ret') BY <1>1 DEF Unseen
  <2> QED BY <2>1, UnseenOutcome
<1>4. Mode # "closed" BY <1>1 DEF Mode
<1>5. StreamStep BY <1>1, <1>2, <1>3, <1>4, ClosedPosition, StreamSteps
<1>6. file # <<>> /\ RecordsInv BY <1>1 DEF StreamInv
<1>7. PICK mark : Marked(mark) BY <1>6 DEF RecordsInv
<1>8. StreamInv' BY <1>1, <1>2, <1>6, <1>7, ClosedPosition, RecordsKept
<1> QED BY <1>5, <1>8

LEMMA OpenFailsStream ==
  ASSUME TypeInv, StreamInv, csv.mode = "closed", NEW e, OpenFails("other", e),
         UNCHANGED <<file, fileSep, written>>
  PROVE  StreamInv' /\ StreamStep
<1>1. csv' = NoObject /\ ret'.call = "other" BY DEF OpenFails
<1>2. csv'.mode = "closed" BY <1>1 DEF NoObject, Opened
<1>3. Outcome' = Stream!Nothing
  <2>1. Unseen(ret') BY <1>1 DEF Unseen
  <2> QED BY <2>1, UnseenOutcome
<1>4. Mode = "closed" /\ RecordsPassed = 0 BY DEF Mode, RecordsPassed
<1>5. StreamStep BY <1>2, <1>3, <1>4, ClosedPosition, StreamSteps
<1>6. StreamInv'
  <2>1. CASE file = <<>>
    <3>1. RecordSeparator' = RecordSeparator BY DEF RecordSeparator
    <3> QED BY <1>2, <2>1, <3>1 DEF StreamInv
  <2>2. CASE file # <<>>
    <3>1. RecordsInv BY <2>2 DEF StreamInv
    <3>2. PICK mark : Marked(mark) BY <3>1 DEF RecordsInv
    <3> QED BY <1>2, <2>2, <3>2, ClosedPosition, RecordsKept
  <2> QED BY <2>1, <2>2
<1> QED BY <1>5, <1>6

-----------------------------------------------------------------------------
(* Creating and opening.                                                     *)

LEMMA MarkedLines ==
  ASSUME Regular, TypeInv, StreamInv, file # <<>>, NEW mark, Marked(mark)
  PROVE  LET K == Len(written.records) IN
         /\ K \in Nat /\ K <= MaxRecords /\ file \in Seq(Characters)
         /\ written.header \in Headers /\ Len(file) = mark[K]
         /\ \A k \in 1..K : Len(written.records[k]) = Len(written.header)
         /\ \A k \in 0..K : /\ mark[k] \in Nat /\ mark[k] <= Len(file)
                            /\ LinesUpTo(file, mark[k]) = k + 1
                            /\ k # K => mark[k] < Len(file)
<1>1. file \in Seq(Characters) /\ Len(written.records) \in Nat
  <2>1. written.records \in Seq(Seq(Texts)) BY DEF TypeInv, FileInv
  <2> QED BY <2>1, LenProperties DEF TypeInv, FileInv
<1>2. RecordsInv /\ Len(written.records) <= MaxRecords /\ RecordSeparator \notin {Quote, EndOfLine}
  BY DEF StreamInv
<1>3. written.header \in Headers
      /\ \A k \in 1..Len(written.records) : Len(written.records[k]) = Len(written.header)
  BY <1>2 DEF RecordsInv
<1>4. Len(written.header) # 0 BY <1>3, HeaderFacts
<1>5. FileAt(file, written.header, written.records, RecordSeparator, mark) BY DEF Marked
<1>6. \A k \in 0..Len(written.records) :
        /\ mark[k] \in Nat /\ mark[k] <= Len(file)
        /\ LinesUpTo(file, mark[k]) = k + 1 /\ ~Odd(file, mark[k] + 1)
        /\ k # Len(written.records) => mark[k] < Len(file)
  BY <1>1, <1>2, <1>3, <1>4, <1>5, FileLines
<1> QED BY <1>1, <1>2, <1>3, <1>5, <1>6 DEF FileAt

LEMMA PassedAtMark ==
  ASSUME NEW f, NEW p, NEW k \in Nat, LinesUpTo(f, p) = k + 1,
         csv'.mode = "read", csv'.pos = p, file' = f
  PROVE  RecordsPassed' = k
<1>1. LinesUpTo(f, p) - 1 = k OBVIOUS
<1> QED BY <1>1 DEF RecordsPassed, LinesUpTo

LEMMA OpenedFacts ==
  ASSUME NEW m \in {"read", "write", "append"}, NEW n \in Nat
  PROVE  LET o == [Opened(m) EXCEPT !.n = n] IN
         /\ o \in Object /\ o.mode = m /\ o.sep = Comma /\ o.n = n /\ o.cur = 0 /\ o.pos = 0
         /\ o.eof = FALSE /\ o.filter = <<>>
<1>1. Opened(m) \in Object BY OpenedOk
<1>2. Opened(m).mode = m /\ Opened(m).sep = Comma /\ Opened(m).cur = 0 /\ Opened(m).pos = 0
      /\ Opened(m).eof = FALSE /\ Opened(m).filter = <<>>
  BY DEF Opened
<1> DEFINE o == Opened(m)
<1> HIDE DEF o
<1>3. o \in Object /\ o.mode = m /\ o.sep = Comma /\ o.cur = 0 /\ o.pos = 0 /\ o.eof = FALSE
      /\ o.filter = <<>>
  BY <1>1, <1>2 DEF o
<1>4. LET x == [o EXCEPT !.n = n] IN
      /\ x \in Object /\ x.mode = m /\ x.sep = Comma /\ x.n = n /\ x.cur = 0 /\ x.pos = 0
      /\ x.eof = FALSE /\ x.filter = <<>>
  BY <1>3 DEF Object
<1> QED BY <1>4 DEF o

LEMMA FirstStart ==
  ASSUME NEW n \in Nat \ {0}, n <= DwordValues
  PROVE  StartsRecord(0, n, 0)
<1>1. 0 * n = 0 /\ (0 + 1) * n = n OBVIOUS
<1> QED BY <1>1 DEF StartsRecord

LEMMA CreateStream ==
  ASSUME Regular, TypeInv, StreamInv, NEW h \in Headers, CsvOpenWriteW(h)
  PROVE  StreamInv' /\ StreamStep
<1> DEFINE n == Len(h)
           o == [Opened("write") EXCEPT !.n = n]
<1>1. csv.mode = "closed" BY DEF CsvOpenWriteW, MayOpen
<1>2. CASE mapped BY <1>2, CrashIsStill DEF CsvOpenWriteW
<1>3. CASE ~mapped
  <2>1. /\ file' = FlattenSeq(EncodedFields(h, o)) /\ fileSep' = Unset
        /\ written' = [header |-> h, records |-> <<>>]
        /\ Succeeds("other", [o EXCEPT !.cur = Advanced(@, n)], <<>>, 0)
    BY <1>3 DEF CsvOpenWriteW
  <2>2. h \in Seq(Seq(Characters)) /\ n \in Nat \ {0} /\ n <= DwordValues BY HeaderFacts
  <2> HIDE DEF n
  <2>3. /\ o \in Object /\ o.mode = "write" /\ o.sep = Comma /\ o.n = n /\ o.cur = 0 /\ o.filter = <<>>
    BY <2>2, OpenedFacts
  <2> HIDE DEF o
  <2>4. StartsRecord(o.cur, o.n, 0) BY <2>2, <2>3, FirstStart
  <2>5. file' = <<>> \o FlattenSeq(EncodedFields(h, o))
    <3>1. FlattenSeq(EncodedFields(h, o)) \in Seq(Characters) BY <2>2, <2>3, EncodedType
    <3> QED BY <2>1, <3>1, ConcatEmptySeq
  <2>6. file' \in Seq(Characters) /\ RecordAt(file', 0, Len(file'), h, Comma)
    <3>1. <<>> \in Seq(Characters) /\ Len(<<>>) = 0 BY EmptySeq
    <3>2. o.n = Len(h) /\ o.n > 0 BY <2>2, <2>3 DEF n
    <3>3. file' \in Seq(Characters) /\ RecordAt(file', Len(<<>>), Len(file'), h, o.sep)
      BY <2>2, <2>3, <2>4, <2>5, <3>1, <3>2, WrittenRecordAt
    <3> QED BY <2>3, <3>1, <3>3
  <2>7. Len(file') \in Nat /\ file' # <<>>
    <3>1. ~Odd(file', 0 + 1)
      <4>1. 0 + 1 = 1 OBVIOUS
      <4> QED BY <4>1, ParityStart
    <3>2. Comma \notin {Quote, EndOfLine} /\ Len(h) # 0 BY <2>2, CharactersDiffer DEF n
    <3>3. 0 < Len(file') BY <2>6, <3>1, <3>2, RecordLines
    <3> QED BY <2>6, <3>3, EmptySeq, LenProperties
  <2>8. csv' = [[o EXCEPT !.cur = Advanced(@, n)] EXCEPT !.err = "NO_ERROR"] /\ ret'.call = "other"
    BY <2>1 DEF Succeeds, Returns
  <2>9. csv'.mode = "write" /\ csv'.n = n /\ csv'.cur = Advanced(0, n) /\ csv'.filter = <<>>
    BY <2>3, <2>8 DEF Object
  <2>10. written'.header = h /\ written'.records = <<>> /\ Len(<<>>) = 0
         /\ RecordSeparator' = Comma
    BY <2>1 DEF RecordSeparator
  <2>11. PICK mark : FileAt(file', h, <<>>, Comma, mark)
    <3> DEFINE only == [k \in 0..0 |-> Len(file')]
    <3>1. only \in [0..0 -> Nat] /\ only[0] = Len(file') /\ 1..0 = {} BY <2>7
    <3> HIDE DEF only
    <3>2. FileAt(file', h, <<>>, Comma, only) BY <2>6, <2>10, <3>1 DEF FileAt
    <3> QED BY <3>2
  <2>12. Marked(mark)' BY <2>10, <2>11 DEF Marked
  <2>13. PositionInv(mark)'
    <3>1. StartsRecord(0, n, 0) BY <2>2, FirstStart
    <3>2. Multiple(Advanced(0, n), n, 0 + 1)
      <4>1. 0 \in 0..0 OBVIOUS
      <4> QED BY <2>2, <3>1, <4>1, MultipleCounts
    <3> QED BY <2>9, <2>10, <3>2 DEF PositionInv, n
  <2>14. RecordsInv'
    <3>1. \A k \in 1..Len(written'.records) : Len(written'.records[k]) = Len(written'.header)
      <4>1. 1..0 = {} OBVIOUS
      <4> QED BY <2>10, <4>1
    <3> QED BY <2>10, <2>12, <2>13, <3>1 DEF RecordsInv
  <2>15. StreamInv'
    <3>1. 0 <= MaxRecords BY HostAssumption
    <3>2. Comma \notin {Quote, EndOfLine} BY CharactersDiffer
    <3> QED BY <2>7, <2>10, <2>14, <3>1, <3>2 DEF StreamInv
  <2>16. Outcome' = Stream!Nothing
    <3>1. Unseen(ret') BY <2>8 DEF Unseen
    <3> QED BY <3>1, UnseenOutcome
  <2>17. Mode = "closed" /\ Mode' = "write" /\ RecordsPassed = 0 /\ RecordsPassed' = 0
    BY <1>1, <2>9 DEF Mode, RecordsPassed
  <2>18. StreamStep BY <2>10, <2>16, <2>17, StreamSteps
  <2> QED BY <2>15, <2>18
<1> QED BY <1>2, <1>3

LEMMA OpenedHeader ==
  ASSUME NEW f \in Seq(Characters), NEW ts, NEW q, NEW m \in {"read", "append"},
         HeaderAhead(f, q, ts, Comma)
  PROVE  /\ HeaderFound(CsviReadHeader(f, Opened(m)), q, ts)
         /\ CsviReadHeader(f, Opened(m)).obj.mode = m
<1> DEFINE o == Opened(m)
<1>1. o \in Object /\ o.mode = m /\ o.sep = Comma /\ o.cur = 0 /\ o.pos = 0 /\ o.eof = FALSE
  BY OpenedOk DEF Opened
<1> HIDE DEF o
<1>2. HeaderAhead(f, q, ts, o.sep) BY <1>1
<1>3. HeaderFound(CsviReadHeader(f, o), q, ts) /\ CsviReadHeader(f, o).obj.mode = o.mode
  BY <1>1, <1>2, HeaderRead
<1> QED BY <1>1, <1>3 DEF o

LEMMA OpenStream ==
  ASSUME Regular, TypeInv, StreamInv, csv.mode = "closed", file # <<>>,
         NEW m \in {"read", "append"}, NEW b, NEW index \in Seq(Nat),
         m # "read" => index = <<>>, OpenExisting("other", m, b, index)
  PROVE  StreamInv' /\ StreamStep
<1> DEFINE o == Opened(m)
           h == CsviReadHeader(file, o)
           n == Len(written.header)
           K == Len(written.records)
<1>1. RecordsInv BY DEF StreamInv
<1>2. PICK mark : Marked(mark) BY <1>1 DEF RecordsInv
<1>3. /\ K \in Nat /\ K <= MaxRecords /\ file \in Seq(Characters)
      /\ written.header \in Headers
      /\ \A k \in 0..K : mark[k] \in Nat /\ LinesUpTo(file, mark[k]) = k + 1
  BY <1>2, MarkedLines
<1>4. /\ written.header \in Seq(Seq(Characters)) /\ n \in Nat \ {0} /\ n <= DwordValues
      /\ written.header[n] # <<>>
  BY <1>3, HeaderFacts
<1>5. o \in Object /\ o.mode = m /\ o.sep = Comma /\ o.cur = 0 /\ o.pos = 0 /\ o.eof = FALSE
  <2>1. o \in Object BY OpenedOk
  <2>2. o.mode = m /\ o.sep = Comma /\ o.cur = 0 /\ o.pos = 0 /\ o.eof = FALSE BY DEF Opened
  <2> QED BY <2>1, <2>2
<1>6. RecordAt(file, 0, mark[0], written.header, Comma) BY <1>2 DEF Marked, FileAt
<1>7. h.obj \in Object
  <2> HIDE DEF o
  <2> QED BY <1>3, <1>5, ReadHeaderFacts
<1>8. /\ h.texts = written.header /\ h.obj.n = n
      /\ h.obj.pos = mark[0] /\ h.obj.eof = FALSE /\ h.obj.err = "NO_ERROR"
      /\ h.obj.cur = CountAt(0, n, n) /\ h.obj.mode = m
  <2>1. HeaderAhead(file, mark[0], written.header, Comma)
    BY <1>4, <1>6, CharactersDiffer DEF HeaderAhead
  <2>2. HeaderFound(h, mark[0], written.header) /\ h.obj.mode = m
    BY <1>3, <2>1, OpenedHeader
  <2> QED BY <2>2 DEF HeaderFound
<1> DEFINE x == [h.obj EXCEPT !.after = h.obj.pos, !.filter = index]
<1>9. Crash \/ (Succeeds("other", x, h.texts, 0) /\ UNCHANGED <<file, fileSep, written>>)
  BY <1>8 DEF OpenExisting
<1> HIDE DEF o, h, n, K
<1>10. x.mode = m /\ x.n = n /\ x.pos = mark[0] /\ x.after = mark[0] /\ x.eof = FALSE
       /\ x.cur = CountAt(0, n, n) /\ x \in Object
       /\ x.filter = index
  BY <1>7, <1>8 DEF Object
<1> HIDE DEF x
<1>11. CASE Crash BY <1>11, CrashIsStill
<1>12. CASE Succeeds("other", x, h.texts, 0) /\ UNCHANGED <<file, fileSep, written>>
  <2>1. csv' = [x EXCEPT !.err = "NO_ERROR"] /\ ret'.call = "other"
    BY <1>12 DEF Succeeds, Returns
  <2>2. /\ csv'.mode = m /\ csv'.n = n /\ csv'.pos = mark[0] /\ csv'.after = mark[0]
        /\ csv'.eof = FALSE /\ csv'.cur = CountAt(0, n, n) /\ csv'.filter = index
    BY <1>10, <2>1 DEF Object
  <2>3. Multiple(CountAt(0, n, n), n, 0 + 1)
    <3>1. StartsRecord(0, n, 0) /\ 0 \in 0..0 BY <1>4, FirstStart
    <3> QED BY <1>4, <3>1, MultipleCounts
  <2>4. written' = written /\ 0 \in 0..K BY <1>3, <1>12
  <2>5. PositionInv(mark)'
    <3>1. CASE m = "read"
      <4>1. ReaderInv(mark, 0)' BY <2>2, <2>3 DEF ReaderInv
      <4>2. \E k \in 0..Len(written'.records) : ReaderInv(mark, k)' BY <2>4, <4>1 DEF K
      <4> QED BY <2>2, <2>4, <3>1, <4>2 DEF PositionInv, n
    <3>2. CASE m # "read"
      <4>1. 0 + 1 \in Nat /\ K + 1 \in Nat /\ 0 + 1 <= K + 1 BY <1>3
      <4>2. Multiple(CountAt(0, n, n), n, K + 1) BY <2>3, <4>1, MultipleMore
      <4> QED BY <2>2, <2>4, <3>2, <4>2 DEF PositionInv, n, K
    <3> QED BY <3>1, <3>2
  <2>6. StreamInv' BY <1>2, <1>12, <2>5, RecordsKept
  <2>7. RecordsPassed' = 0
    <3>1. CASE m = "read"
      <4>1. LinesUpTo(file, mark[0]) = 0 + 1 BY <1>3, <2>4
      <4> QED BY <1>12, <2>2, <3>1, <4>1, PassedAtMark
    <3>2. CASE m # "read" BY <2>2, <3>2 DEF RecordsPassed
    <3> QED BY <3>1, <3>2
  <2>8. Outcome' = Stream!Nothing
    <3>1. Unseen(ret') BY <2>1 DEF Unseen
    <3> QED BY <3>1, UnseenOutcome
  <2>9. Mode = "closed" /\ Mode' \in {"read", "write"} BY <2>2 DEF Mode
  <2>10. StreamStep BY <2>4, <2>7, <2>8, <2>9, StreamSteps
  <2> QED BY <2>6, <2>10
<1> QED BY <1>9, <1>11, <1>12

LEMMA OpeningStream ==
  ASSUME Regular, TypeInv, StreamInv, NEW b,
         CsvOpenReadW(b) \/ CsvOpenAppendW(b)
  PROVE  StreamInv' /\ StreamStep
<1>1. <<>> \in Seq(Nat) OBVIOUS
<1>2. CASE CsvOpenReadW(b)
  <2>1. csv.mode = "closed" /\ file # <<>> /\ OpenExisting("other", "read", b, <<>>)
    BY <1>2 DEF CsvOpenReadW, MayOpen
  <2> QED BY <1>1, <2>1, OpenStream
<1>3. CASE CsvOpenAppendW(b)
  <2>1. csv.mode = "closed" /\ file # <<>> /\ OpenExisting("other", "append", b, <<>>)
    BY <1>3 DEF CsvOpenAppendW, MayOpen
  <2> QED BY <1>1, <2>1, OpenStream
<1> QED BY <1>2, <1>3

LEMMA OpenFilteredStream ==
  ASSUME Regular, TypeInv, StreamInv, NEW s \in FilterSets, CsvOpenReadWithFilteredSetW(s)
  PROVE  StreamInv' /\ StreamStep
<1> DEFINE h == CsviReadHeader(file, Opened("read"))
           index == [j \in DOMAIN s |-> SelectInSeq(h.texts, LAMBDA t : t = s[j])]
<1>1. \/ Crash
      \/ OpenFails("other", "INVALID_PARAMETER") /\ UNCHANGED <<file, fileSep, written>>
      \/ OpenExisting("other", "read", TRUE, index)
  BY DEF CsvOpenReadWithFilteredSetW
<1>2. csv.mode = "closed" /\ file # <<>> BY DEF CsvOpenReadWithFilteredSetW, MayOpen
<1>3. index \in Seq(Nat) BY FilterIndexes
<1> HIDE DEF h, index
<1>4. CASE Crash BY <1>4, CrashIsStill
<1>5. CASE OpenFails("other", "INVALID_PARAMETER") /\ UNCHANGED <<file, fileSep, written>>
  BY <1>2, <1>5, OpenFailsStream
<1>6. CASE OpenExisting("other", "read", TRUE, index) BY <1>2, <1>3, <1>6, OpenStream
<1> QED BY <1>1, <1>4, <1>5, <1>6

-----------------------------------------------------------------------------
(* Resetting.                                                                *)

LEMMA ResetStream ==
  ASSUME Regular, TypeInv, StreamInv, CsvResetFile
  PROVE  StreamInv' /\ StreamStep
<1>1. CASE csv.mode # "read"
  <2>1. Refused("other", "INVALID_OPERATION") BY <1>1 DEF CsvResetFile
  <2> QED BY <2>1, RefusedUnseen
<1>2. CASE csv.mode = "read"
  <2> DEFINE o == [csv EXCEPT !.cur = 0, !.pos = csv.after, !.eof = FALSE]
  <2>1. Succeeds("CsvResetFile", o, <<>>, 0) /\ UNCHANGED <<file, fileSep, written>>
    BY <1>2 DEF CsvResetFile
  <2>2. csv \in Object BY DEF TypeInv, OkObject
  <2>3. /\ csv'.mode = "read" /\ csv'.n = csv.n /\ csv'.cur = 0 /\ csv'.pos = csv.after
        /\ csv'.after = csv.after /\ csv'.eof = FALSE
    BY <1>2, <2>1, <2>2 DEF Succeeds, Returns, Object
  <2>4. ret'.call = "CsvResetFile" BY <2>1 DEF Succeeds, Returns
  <2>5. file # <<>> /\ RecordsInv BY <1>2 DEF StreamInv
  <2>6. PICK mark : Marked(mark) /\ PositionInv(mark) BY <2>5 DEF RecordsInv
  <2>7. csv.n = Len(written.header) /\ csv.after = mark[0]
    BY <1>2, <2>6 DEF PositionInv, ReaderInv
  <2>8. LinesUpTo(file, mark[0]) = 0 + 1 /\ 0 \in 0..Len(written.records)
    <3>1. Len(written.records) \in Nat
          /\ \A k \in 0..Len(written.records) : LinesUpTo(file, mark[k]) = k + 1
      BY <2>5, <2>6, MarkedLines
    <3>2. 0 \in 0..Len(written.records) BY <3>1
    <3> QED BY <3>1, <3>2
  <2>9. RecordsPassed' = 0
    <3>1. csv'.mode = "read" /\ csv'.pos = mark[0] /\ file' = file BY <2>1, <2>3, <2>7
    <3>2. LinesUpTo(file, mark[0]) = 0 + 1 BY <2>8
    <3> QED BY <3>1, <3>2, PassedAtMark
  <2>10. PositionInv(mark)'
    <3>1. csv.n \in Nat BY <2>2 DEF Object
    <3>2. Multiple(0, csv.n, 0 + 1)
      <4>1. 0 \in 0..0 + 1 /\ 0 = 0 * csv.n BY <3>1
      <4> QED BY <4>1 DEF Multiple
    <3>3. ReaderInv(mark, 0)' BY <2>3, <2>7, <3>2 DEF ReaderInv
    <3> QED BY <2>1, <2>3, <2>7, <2>8, <3>3 DEF PositionInv
  <2>11. StreamInv' BY <2>1, <2>5, <2>6, <2>10, RecordsKept
  <2>12. Outcome' = [kind |-> "reset", values |-> <<>>] BY <2>4 DEF Outcome
  <2>13. Mode = "read" /\ Mode' = "read" BY <1>2, <2>3 DEF Mode
  <2>14. StreamStep BY <2>1, <2>9, <2>12, <2>13, StreamSteps
  <2> QED BY <2>11, <2>14
<1> QED BY <1>1, <1>2

-----------------------------------------------------------------------------
(* Writing.                                                                  *)

LEMMA WriteStream ==
  ASSUME Regular, TypeInv, StreamInv, NEW ts \in [1..csv.n -> Texts],
         CsvWriteNextRecordW(ts)
  PROVE  StreamInv' /\ StreamStep
<1>1. CASE csv.mode = "read"
  <2>1. Refused("CsvWriteNextRecord", "INVALID_OPERATION") BY <1>1 DEF CsvWriteNextRecordW
  <2> QED BY <2>1, RefusedUnseen
<1>2. CASE csv.mode # "read"
  <2> DEFINE o == [csv EXCEPT !.cur = Advanced(@, csv.n), !.records = @ + 1]
             n == csv.n
             K == Len(written.records)
  <2>1. /\ file' = file \o FlattenSeq(EncodedFields(ts, csv)) /\ fileSep' = csv.sep
        /\ written' = Given(ts) /\ Succeeds("CsvWriteNextRecord", o, ts, o.records)
        /\ SeparatorFits /\ K < MaxRecords /\ csv.mode # "closed"
    BY <1>2 DEF CsvWriteNextRecordW, MayUse, MayWrite
  <2>2. /\ csv \in Object /\ csv.sep \in Characters \ {Quote, EndOfLine}
        /\ file \in Seq(Characters) /\ written.records \in Seq(Seq(Texts))
        /\ written = [header |-> written.header, records |-> written.records]
    BY DEF TypeInv, OkObject, FileInv, Object
  <2>3. /\ csv'.mode = csv.mode /\ csv'.n = csv.n /\ csv'.cur = Advanced(csv.cur, csv.n)
        /\ csv'.filter = csv.filter
    <3>1. csv' = [o EXCEPT !.err = "NO_ERROR"] BY <2>1 DEF Succeeds, Returns
    <3> QED BY <2>2, <3>1 DEF Object
  <2>4. ret'.call = "CsvWriteNextRecord" /\ ret'.ok = TRUE /\ ret'.values = ts
    BY <2>1 DEF Succeeds, Returns
  <2>5. file # <<>> /\ RecordsInv BY <2>1 DEF StreamInv
  <2>6. PICK mark : Marked(mark) /\ PositionInv(mark) BY <2>5 DEF RecordsInv
  <2>7. n = Len(written.header) /\ csv.filter = <<>> /\ Multiple(csv.cur, n, K + 1)
    BY <1>2, <2>1, <2>6 DEF PositionInv
  <2>8. written.header \in Headers
        /\ \A k \in 1..K : Len(written.records[k]) = Len(written.header)
    BY <2>5 DEF RecordsInv
  <2>9. n \in Nat \ {0} /\ MaxRecords \in Nat /\ (MaxRecords + 1) * n <= DwordValues
    BY <2>7, <2>8, HeaderFacts
  <2>10. K \in Nat /\ K + 1 \in Nat /\ K + 1 <= MaxRecords
    <3>1. K \in Nat BY <2>2, LenProperties
    <3> HIDE DEF K
    <3> QED BY <2>1, <2>9, <3>1
  <2> HIDE DEF n, K, o
  <2>11. PICK m \in 0..K + 1 : StartsRecord(csv.cur, n, m)
    BY <2>7, <2>9, <2>10, MultipleStarts
  <2>12. ts \in Seq(Seq(Characters)) /\ ts \in Seq(Texts) /\ Len(ts) = n
    <3>1. ts \in Seq(Texts) BY <2>9, FunctionIsSeq DEF n
    <3>2. Len(ts) = n
      <4>1. DOMAIN ts = 1..n /\ DOMAIN ts = 1..Len(ts) /\ Len(ts) \in Nat
        BY <3>1, LenProperties DEF n
      <4> QED BY <2>9, <4>1
    <3> QED BY <3>1, <3>2, TextsAreSequences
  <2>13. /\ file' \in Seq(Characters) /\ Extends(file, file')
         /\ RecordAt(file', Len(file), Len(file'), ts, csv.sep)
    <3>1. csv.n = Len(ts) /\ csv.n > 0 /\ StartsRecord(csv.cur, csv.n, m)
      BY <2>9, <2>11, <2>12 DEF n
    <3> QED BY <2>1, <2>2, <2>12, <3>1, WrittenRecordAt
  <2>14. fileSep' # Unset /\ RecordSeparator' = csv.sep
    <3>1. fileSep' # Unset BY <2>1, <2>2, UnsetAssumption
    <3> QED BY <2>1, <3>1 DEF RecordSeparator
  <2>15. FileAt(file, written.header, written.records, csv.sep, mark)
    <3>1. FileAt(file, written.header, written.records, RecordSeparator, mark)
      BY <2>6 DEF Marked
    <3>2. CASE K = 0
      <4>1. 1..K = {} BY <3>2
      <4> QED BY <3>1, <4>1 DEF FileAt, K
    <3>3. CASE K # 0
      <4>1. fileSep # Unset BY <3>3 DEF StreamInv, K
      <4>2. fileSep = csv.sep BY <2>1, <4>1 DEF SeparatorFits, Regular
      <4>3. RecordSeparator = csv.sep BY <4>1, <4>2 DEF RecordSeparator
      <4> QED BY <3>1, <4>3
    <3> QED BY <3>2, <3>3
  <2>16. PICK new : FileAt(file', written.header, Append(written.records, ts), csv.sep, new)
    BY <2>2, <2>12, <2>13, <2>15, FileGrows
  <2>17. written'.header = written.header /\ written'.records = Append(written.records, ts)
    BY <2>1, <2>2 DEF Given
  <2>18. Len(written'.records) = K + 1
         /\ \A k \in 1..K + 1 : written'.records[k] = IF k = K + 1 THEN ts ELSE written.records[k]
    <3>1. /\ Len(Append(written.records, ts)) = K + 1
          /\ \A k \in 1..K : Append(written.records, ts)[k] = written.records[k]
          /\ Append(written.records, ts)[K + 1] = ts
      BY <2>2, <2>12, AppendProperties DEF K
    <3>2. \A k \in 1..K + 1 : k = K + 1 \/ k \in 1..K BY <2>10
    <3> QED BY <2>17, <3>1, <3>2
  <2>19. Marked(new)' BY <2>14, <2>16, <2>17 DEF Marked
  <2>20. PositionInv(new)'
    <3>1. Multiple(Advanced(csv.cur, n), n, (K + 1) + 1)
      BY <2>9, <2>10, <2>11, MultipleCounts
    <3> QED BY <1>2, <2>3, <2>7, <2>17, <2>18, <3>1 DEF PositionInv, n
  <2>21. RecordsInv'
    <3>1. \A k \in 1..Len(written'.records) : Len(written'.records[k]) = Len(written'.header)
      <4>1. \A k \in 1..K + 1 : k = K + 1 \/ k \in 1..K BY <2>10
      <4>2. Len(ts) = Len(written.header) BY <2>7, <2>12
      <4> QED BY <2>8, <2>17, <2>18, <4>1, <4>2
    <3> QED BY <2>8, <2>17, <2>19, <2>20, <3>1 DEF RecordsInv
  <2>22. StreamInv'
    <3>1. file' # <<>>
      <4>1. Len(file) \in Nat /\ Len(file) # 0 BY <2>2, <2>5, EmptySeq, LenProperties
      <4>2. Len(file) <= Len(file') BY <2>13 DEF Extends
      <4> QED BY <4>1, <4>2, EmptySeq
    <3>2. RecordSeparator' \notin {Quote, EndOfLine} BY <2>2, <2>14
    <3> QED BY <2>10, <2>14, <2>18, <2>21, <3>1, <3>2 DEF StreamInv
  <2>23. Outcome'.kind = "written" /\ Outcome'.values = ts
    BY <2>3, <2>4, <2>7 DEF Outcome
  <2>24. DOMAIN written.header = 1..n
    <3>1. written.header \in Seq(Seq(Characters)) BY <2>8, HeaderFacts
    <3> QED BY <2>7, <3>1, LenProperties
  <2>25. Mode = "write" /\ Mode' = Mode /\ RecordsPassed = 0 /\ RecordsPassed' = 0
    <3>1. csv.mode \in {"write", "append"} BY <1>2, <2>1, <2>2 DEF Object
    <3> QED BY <2>3, <3>1 DEF Mode, RecordsPassed
  <2>26. StreamStep
    <3>1. ts \in [DOMAIN written.header -> Texts] BY <2>24 DEF n
    <3> QED BY <2>17, <2>23, <2>25, <3>1, StreamSteps
  <2> QED BY <2>22, <2>26
<1> QED BY <1>1, <1>2

-----------------------------------------------------------------------------
(* Reading.                                                                  *)

(* At the end of the file a record fails at its first field.                 *)
LEMMA EndRead ==
  ASSUME NEW f \in Seq(Characters), NEW o \in Object, o.n > 0, o.eof = TRUE \/ o.pos >= Len(f)
  PROVE  ReadRecord(f, o).obj = [o EXCEPT !.eof = TRUE, !.err = "END_OF_FILE"]
<1> DEFINE n == o.n
           read == FieldResults(f, o, TRUE, n)
<1>1. n \in Nat /\ n # 0 /\ TRUE \in BOOLEAN BY DEF Object
<1>2. read \in Seq(FieldResult) /\ Len(read) = n
  <2> HIDE DEF n
  <2> QED BY <1>1, FieldResultsFacts
<1>3. ReadEquation(f, o, TRUE, n, read)
  <2> HIDE DEF n
  <2> QED BY <1>1, ResultsFollow
<1> HIDE DEF read
<1>4. read[1] = CsviReadField(f, o, TRUE)
  <2>1. 1 \in 1..n BY <1>1
  <2> HIDE DEF n
  <2> QED BY <1>3, <2>1 DEF ReadEquation, Before
<1>5. read[1].obj = [o EXCEPT !.eof = TRUE, !.err = "END_OF_FILE"]
  <2>1. o.eof \/ o.pos >= Len(f) OBVIOUS
  <2>2. CsviReadField(f, o, TRUE) = Failed([o EXCEPT !.eof = TRUE], o.pos, "END_OF_FILE")
    BY <2>1 DEF CsviReadField
  <2>3. Failed([o EXCEPT !.eof = TRUE], o.pos, "END_OF_FILE").obj
        = [o EXCEPT !.eof = TRUE, !.err = "END_OF_FILE"]
    BY DEF Failed, Object
  <2> QED BY <1>4, <2>2, <2>3
<1>6. Stopped(read[1])
  <2>1. read[1].obj.err = "END_OF_FILE" BY <1>5 DEF Object
  <2> QED BY <2>1 DEF Stopped
<1>7. SelectInSeq(read, Stopped) = 1
  <2> DEFINE first == 1
  <2>1. first \in 0..n /\ \A k \in 1..n : (first = 0 \/ k < first) => ~Stopped(read[k])
    BY <1>1
  <2>2. first # 0 => Stopped(read[first]) BY <1>6
  <2> HIDE DEF first, n
  <2>3. SelectInSeq(read, Stopped) = first BY <1>1, <1>2, <2>1, <2>2, FirstStop
  <2> QED BY <2>3 DEF first
<1> DEFINE bad == SelectInSeq(read, Stopped)
<1>8. ReadRecord(f, o).obj = read[IF bad = 0 THEN n ELSE bad].obj BY DEF ReadRecord, read
<1>9. bad = 1 BY <1>7
<1> HIDE DEF bad, n
<1> QED BY <1>5, <1>8, <1>9

StoredBy(filter, ts) ==
  IF filter = <<>> THEN ts
  ELSE [k \in DOMAIN ts |-> IF k = 1 THEN ts[filter[1]] ELSE Unset]

(* The host holds what is stored of the record that the reader has passed.   *)
Holding ==
  /\ 1 \in DOMAIN written.records[RecordsPassed]
  /\ ret.values = StoredBy(csv.filter, written.records[RecordsPassed])

HoldingStep ==
  UNCHANGED <<file, written, csv, ret>> \/ (csv'.filter = csv.filter /\ (ret'.ok = FALSE \/ Holding'))

(* What a reader is given of the file that it stands in.                     *)
LEMMA NextRecordStream ==
  ASSUME Regular, TypeInv, StreamInv, csv.mode = "read", SeparatorFits,
         NextRecord("CsvGetNextRecord", FALSE)
  PROVE  StreamInv' /\ StreamStep /\ HoldingStep
<1> DEFINE r == ReadRecord(file, csv)
           n == csv.n
           K == Len(written.records)
           o == [r.obj EXCEPT !.records = @ + 1]
<1>1. \/ Crash
      \/ /\ UNCHANGED <<file, fileSep, written>>
         /\ \/ Stopped(r) /\ Returns("CsvGetNextRecord", r.obj, FALSE, <<>>, 0)
            \/ ~Stopped(r) /\ Succeeds("CsvGetNextRecord", o, Stored(r.texts), o.records)
  BY DEF NextRecord
<1>2. /\ csv \in Object /\ csv.sep \in Characters \ {Quote, EndOfLine} /\ csv.n > 0
      /\ file \in Seq(Characters)
  BY DEF TypeInv, OkObject, FileInv, Object
<1>3. file # <<>> /\ RecordsInv BY DEF StreamInv
<1>4. PICK mark : Marked(mark) /\ PositionInv(mark) BY <1>3 DEF RecordsInv
<1>5. csv.n = Len(written.header) /\ \E k \in 0..K : ReaderInv(mark, k)
  BY <1>4 DEF PositionInv
<1>6. PICK k \in 0..K : ReaderInv(mark, k) BY <1>5
<1>7. /\ csv.pos = mark[k] /\ csv.after = mark[0] /\ (csv.eof => k = K)
      /\ Multiple(csv.cur, n, k + 1)
  BY <1>6 DEF ReaderInv
<1>8. /\ K \in Nat /\ K <= MaxRecords /\ written.header \in Headers /\ Len(file) = mark[K]
      /\ \A j \in 1..K : Len(written.records[j]) = Len(written.header)
      /\ \A j \in 0..K : /\ mark[j] \in Nat /\ mark[j] <= Len(file)
                         /\ LinesUpTo(file, mark[j]) = j + 1
                         /\ j # K => mark[j] < Len(file)
  BY <1>3, <1>4, MarkedLines
<1>9. k \in Nat /\ k <= K /\ LinesUpTo(file, csv.pos) = k + 1 BY <1>7, <1>8
<1>10. RecordsPassed = k
  <2>1. LinesUpTo(file, csv.pos) - 1 = k BY <1>9
  <2> QED BY <2>1 DEF RecordsPassed, LinesUpTo
<1>11. n \in Nat \ {0} /\ MaxRecords \in Nat /\ (MaxRecords + 1) * n <= DwordValues
  BY <1>5, <1>8, HeaderFacts
<1> HIDE DEF r, n, K
<1>12. CASE Crash BY <1>12, CrashIsStill DEF Crash, HoldingStep
<1>13. CASE ~Crash /\ k = K
  <2>1. r.obj = [csv EXCEPT !.eof = TRUE, !.err = "END_OF_FILE"]
    <3>1. csv.pos >= Len(file) BY <1>7, <1>8, <1>13
    <3> QED BY <1>2, <3>1, EndRead DEF r
  <2>2. Stopped(r) BY <1>2, <2>1 DEF Object, Stopped
  <2>3. Returns("CsvGetNextRecord", r.obj, FALSE, <<>>, 0) /\ UNCHANGED <<file, fileSep, written>>
    BY <1>1, <1>13, <2>2
  <2>4. /\ csv'.mode = "read" /\ csv'.n = csv.n /\ csv'.cur = csv.cur /\ csv'.pos = csv.pos
        /\ csv'.after = csv.after
    BY <1>2, <2>1, <2>3 DEF Returns, Object
  <2>5. ret'.call = "CsvGetNextRecord" /\ ret'.ok = FALSE /\ ret'.values = <<>>
        /\ ret'.error = "END_OF_FILE"
    BY <1>2, <2>1, <2>3 DEF Returns, Object
  <2>6. PositionInv(mark)'
    <3>1. ReaderInv(mark, k)' BY <1>7, <1>13, <2>3, <2>4 DEF ReaderInv, n, K
    <3>2. \E j \in 0..Len(written'.records) : ReaderInv(mark, j)' BY <1>6, <2>3, <3>1 DEF K
    <3> QED BY <1>5, <2>3, <2>4, <3>2 DEF PositionInv
  <2>7. StreamInv' BY <1>3, <1>4, <2>3, <2>6, RecordsKept
  <2>8. RecordsPassed' = k BY <1>9, <2>3, <2>4, PassedAtMark
  <2>9. Outcome' = [kind |-> "end", values |-> <<>>] BY <2>5 DEF Outcome
  <2>10. Mode = "read" /\ Mode' = Mode BY <2>4 DEF Mode
  <2>11. StreamStep BY <1>10, <1>13, <2>3, <2>8, <2>9, <2>10, StreamSteps DEF K
  <2>12. csv'.filter = csv.filter BY <1>2, <2>1, <2>3 DEF Returns, Object
  <2> QED BY <2>5, <2>7, <2>11, <2>12 DEF HoldingStep
<1>14. CASE ~Crash /\ k # K
  <2>1. k + 1 \in 1..K /\ k + 1 \in 0..K /\ k + 1 <= MaxRecords /\ K # 0
    BY <1>8, <1>9, <1>11, <1>14
  <2> DEFINE ts == written.records[k + 1]
             q == mark[k + 1]
  <2>2. RecordSeparator = csv.sep
    <3>1. fileSep # Unset BY <2>1 DEF StreamInv, K
    <3> QED BY <3>1 DEF SeparatorFits, Regular, RecordSeparator
  <2>3. RecordAt(file, csv.pos, q, ts, csv.sep)
    <3>1. \A j \in 1..K : RecordAt(file, mark[j - 1], mark[j], written.records[j], csv.sep)
      BY <1>4, <2>2 DEF Marked, FileAt, K
    <3>2. (k + 1) - 1 = k BY <1>9
    <3> QED BY <1>7, <2>1, <3>1, <3>2
  <2>4. Len(ts) = n BY <1>5, <1>8, <2>1 DEF n
  <2> HIDE DEF ts, q
  <2>5. PICK m \in 0..k + 1 : StartsRecord(csv.cur, n, m)
    <3>1. k + 1 \in Nat BY <1>9
    <3> QED BY <1>7, <1>11, <2>1, <3>1, MultipleStarts
  <2>6. RecordFound(r, csv, q, ts, m)
    <3>1. csv.eof = FALSE BY <1>2, <1>7, <1>14 DEF Object
    <3>2. RecordAhead(file, csv, q, ts, m)
      BY <1>2, <1>11, <2>3, <2>4, <2>5, <3>1 DEF RecordAhead, n
    <3> QED BY <1>2, <3>2, RecordRead DEF r
  <2>7. /\ r.obj \in Object /\ Kept(csv, r.obj) /\ r.texts = ts /\ r.obj.pos = q
        /\ r.obj.eof = FALSE /\ r.obj.err = "NO_ERROR" /\ r.obj.cur = CountAt(m, n, n)
    BY <2>6 DEF RecordFound, n
  <2>8. ~Stopped(r) BY <2>7 DEF Stopped
  <2>9. Succeeds("CsvGetNextRecord", o, Stored(ts), o.records)
        /\ UNCHANGED <<file, fileSep, written>>
    BY <1>1, <1>14, <2>7, <2>8
  <2>10. /\ csv'.mode = "read" /\ csv'.n = csv.n /\ csv'.cur = CountAt(m, n, n) /\ csv'.pos = q
         /\ csv'.after = csv.after /\ csv'.eof = FALSE /\ csv'.filter = csv.filter
    <3>1. csv' = [o EXCEPT !.err = "NO_ERROR"] BY <2>9 DEF Succeeds, Returns
    <3> QED BY <2>7, <3>1 DEF Object, Kept
  <2>11. ret'.call = "CsvGetNextRecord" /\ ret'.ok = TRUE /\ ret'.values = Stored(ts)
    BY <2>9 DEF Succeeds, Returns
  <2>12. PositionInv(mark)'
    <3>1. Multiple(CountAt(m, n, n), n, (k + 1) + 1)
      <4>1. k + 1 \in Nat BY <1>9
      <4> QED BY <1>11, <2>5, <4>1, MultipleCounts
    <3>2. ReaderInv(mark, k + 1)' BY <1>7, <2>9, <2>10, <3>1 DEF ReaderInv, n, q
    <3>3. \E j \in 0..Len(written'.records) : ReaderInv(mark, j)' BY <2>1, <2>9, <3>2 DEF K
    <3> QED BY <1>5, <2>9, <2>10, <3>3 DEF PositionInv
  <2>13. StreamInv' BY <1>3, <1>4, <2>9, <2>12, RecordsKept
  <2>14. RecordsPassed' = k + 1
    <3>1. k + 1 \in Nat BY <1>9
    <3>2. LinesUpTo(file, q) = (k + 1) + 1 BY <1>8, <2>1 DEF q
    <3> QED BY <2>9, <2>10, <3>1, <3>2, PassedAtMark
  <2>15. Outcome' = [kind |-> "read", values |-> ts]
    <3>1. CASE csv.filter = <<>>
      <4>1. Stored(ts) = ts BY <3>1 DEF Stored
      <4> QED BY <2>10, <2>11, <3>1, <4>1 DEF Outcome
    <3>2. CASE csv.filter # <<>>
      <4>1. written'.records[RecordsPassed'] = ts BY <2>9, <2>14 DEF ts
      <4> QED BY <2>10, <2>11, <3>2, <4>1 DEF Outcome
    <3> QED BY <3>1, <3>2
  <2>16. Mode = "read" /\ Mode' = Mode BY <2>10 DEF Mode
  <2>17. StreamStep
    <3>1. RecordsPassed < Len(written.records) BY <1>8, <1>9, <1>10, <1>14 DEF K
    <3>2. Outcome' = [kind |-> "read", values |-> written.records[RecordsPassed + 1]]
      BY <1>10, <2>15 DEF ts
    <3> QED BY <1>10, <2>9, <2>14, <2>16, <3>1, <3>2, StreamSteps
  <2>18. Holding'
    <3>1. written'.records[RecordsPassed'] = ts BY <2>9, <2>14 DEF ts
    <3>2. Stored(ts) = StoredBy(csv.filter, ts) BY DEF Stored, Filtered, StoredBy
    <3>3. 1 \in DOMAIN ts
      <4>1. written.records \in Seq(Seq(Texts)) BY DEF TypeInv, FileInv
      <4>2. ts \in Seq(Texts) BY <2>1, <4>1, ElementOfSeq DEF ts, K
      <4>3. DOMAIN ts = 1..Len(ts) BY <4>2, LenProperties
      <4> QED BY <1>11, <2>4, <4>3
    <3> QED BY <2>10, <2>11, <3>1, <3>2, <3>3 DEF Holding
  <2> QED BY <2>10, <2>13, <2>17, <2>18 DEF HoldingStep
<1> QED BY <1>12, <1>13, <1>14

LEMMA ReadStream ==
  ASSUME Regular, TypeInv, StreamInv, CsvGetNextRecordW
  PROVE  StreamInv' /\ StreamStep /\ HoldingStep
<1>1. CASE csv.mode = "read"
  <2>1. SeparatorFits /\ NextRecord("CsvGetNextRecord", FALSE) BY <1>1 DEF CsvGetNextRecordW
  <2> QED BY <1>1, <2>1, NextRecordStream
<1>2. CASE csv.mode # "read"
  <2>1. Refused("CsvGetNextRecord", "INVALID_OPERATION") BY <1>2 DEF CsvGetNextRecordW
  <2>2. HoldingStep
    <3>1. csv \in Object BY DEF TypeInv, OkObject
    <3> QED BY <2>1, <3>1 DEF Refused, Returns, HoldingStep, Object
  <2> QED BY <2>1, <2>2, RefusedUnseen
<1> QED BY <1>1, <1>2

-----------------------------------------------------------------------------
(* The theorem.                                                              *)

LEMMA StreamStarts == Regular /\ Init => StreamInv /\ Stream!Init
<1> SUFFICES ASSUME Regular, Init PROVE StreamInv /\ Stream!Init OBVIOUS
<1>1. file = <<>> /\ fileSep = Unset /\ written = [header |-> <<>>, records |-> <<>>]
      /\ csv = NoObject
      /\ ret = [call |-> "other", ok |-> TRUE, values |-> <<>>, number |-> 0,
                error |-> "NO_ERROR"]
  BY DEF Init, Regular
<1>2. csv.mode = "closed" BY <1>1 DEF NoObject, Opened
<1>3. StreamInv
  <2>1. Len(written.records) = 0 BY <1>1, EmptySeq
  <2>2. 0 <= MaxRecords BY HostAssumption
  <2>3. RecordSeparator = Comma BY <1>1 DEF RecordSeparator
  <2> QED BY <1>1, <1>2, <2>1, <2>2, <2>3, CharactersDiffer DEF StreamInv
<1>4. Stream!Init BY <1>1, <1>2 DEF Stream!Init, Stream!Nothing, RecordsPassed
<1> QED BY <1>3, <1>4

LEMMA NextStream ==
  ASSUME Regular, TypeInv, StreamInv, [Next]_vars
  PROVE  StreamInv' /\ StreamStep
<1>1. CASE UNCHANGED vars \/ Finished BY <1>1, StillStep DEF vars, Finished
<1>2. CASE Opening BY <1>2, CreateStream, OpeningStream, OpenFilteredStream DEF Opening
<1>3. CASE Writing BY <1>3, QueriesUnseen, WriteStream DEF Writing, WriteStops, Regular
<1>4. CASE Reading BY <1>4, ReadStream, ResetStream DEF Reading, CsvGetNextRecordA, Regular
<1>5. CASE Setting
  <2>1. Separators \subseteq Characters /\ Comma \in Characters
    BY HostAssumption, CharactersDiffer
  <2> QED BY <1>5, <2>1, OptionsUnseen DEF Setting
<1>6. CASE CsvGetLastError \/ CsvGetHeaderNumberOfFields BY <1>6, QueriesUnseen
<1>7. CASE CsvClose BY <1>7, CloseStream
<1> QED BY <1>1, <1>2, <1>3, <1>4, <1>5, <1>6, <1>7 DEF Next

LEMMA StreamHolds == Regular => (Spec => []StreamInv)
<1> SUFFICES ASSUME Regular PROVE Spec => []StreamInv OBVIOUS
<1>1. Init => StreamInv BY StreamStarts
<1>2. TypeInv /\ StreamInv /\ [Next]_vars => StreamInv' BY NextStream
<1> QED BY <1>1, <1>2, TypesHold, PTL DEF Spec

(* StreamImplemented: for every regular host program, a file is a stream of  *)
(* records. What the library writes it reads again, text for text, whatever  *)
(* the fields, the separator and the options are, over any number of files   *)
(* created, closed, appended to, read and reset; a reader gets one record    *)
(* after the other and the end only after the last.                          *)
THEOREM StreamIsImplemented == Regular => (Spec => StreamImplemented)
<1> SUFFICES ASSUME Regular PROVE Spec => StreamImplemented OBVIOUS
<1>1. Init => Stream!Init BY StreamStarts
<1>2. TypeInv /\ StreamInv /\ [Next]_vars => [Stream!Next]_(Stream!vars)
  BY NextStream DEF StreamStep
<1>3. Spec => []StreamInv BY StreamHolds
<1> QED BY <1>1, <1>2, <1>3, TypesHold, PTL DEF Spec, StreamImplemented, Stream!Spec

-----------------------------------------------------------------------------
(* Filtered reads.                                                           *)

(* A step after which the host does not hold a record it has just read.      *)
Quiet == UNCHANGED <<file, written, csv, ret>> \/ ret'.call # "CsvGetNextRecord"

HoldingInv == ret.call = "CsvGetNextRecord" /\ ret.ok => Holding

LEMMA QuietReturns ==
  ASSUME NEW call, NEW o, NEW ok, NEW values, NEW number,
         Returns(call, o, ok, values, number) \/ Succeeds(call, o, values, number),
         call # "CsvGetNextRecord"
  PROVE  Quiet
<1>1. ret'.call = call BY DEF Returns, Succeeds
<1> QED BY <1>1 DEF Quiet

LEMMA QuietRefusal ==
  ASSUME NEW call, NEW e, Refused(call, e), call # "CsvGetNextRecord"
  PROVE  Quiet
BY QuietReturns DEF Refused

LEMMA QuietOpening ==
  ASSUME NEW m, NEW b, NEW index, OpenExisting("other", m, b, index)
  PROVE  Quiet
<1> DEFINE h == CsviReadHeader(file, Opened(m))
           o == [h.obj EXCEPT !.after = h.obj.pos, !.filter = index]
<1>1. Crash \/ Succeeds("other", o, h.texts, 0) \/ OpenFails("other", h.obj.err)
  BY DEF OpenExisting
<1> HIDE DEF h, o
<1>2. CASE Crash BY <1>2 DEF Crash, Quiet
<1>3. CASE Succeeds("other", o, h.texts, 0) BY <1>3, QuietReturns
<1>4. CASE OpenFails("other", h.obj.err) BY <1>4 DEF OpenFails, Quiet
<1> QED BY <1>1, <1>2, <1>3, <1>4

LEMMA QuietOpenings ==
  ASSUME Opening
  PROVE  Quiet
<1>1. CASE \E h \in Headers : CsvOpenWriteW(h)
  <2>1. PICK h \in Headers : CsvOpenWriteW(h) BY <1>1
  <2>2. CASE mapped BY <2>1, <2>2 DEF CsvOpenWriteW, Crash, Quiet
  <2>3. CASE ~mapped BY <2>1, <2>3, QuietReturns DEF CsvOpenWriteW
  <2> QED BY <2>2, <2>3
<1>2. CASE \E b \in BOOLEAN : CsvOpenReadW(b) \/ CsvOpenAppendW(b)
  BY <1>2, QuietOpening DEF CsvOpenReadW, CsvOpenAppendW
<1>3. CASE \E s \in FilterSets : CsvOpenReadWithFilteredSetW(s)
  <2>1. PICK s \in FilterSets : CsvOpenReadWithFilteredSetW(s) BY <1>3
  <2> DEFINE h == CsviReadHeader(file, Opened("read"))
             index == [j \in DOMAIN s |-> SelectInSeq(h.texts, LAMBDA t : t = s[j])]
  <2>2. Crash \/ OpenFails("other", "INVALID_PARAMETER") \/ OpenExisting("other", "read", TRUE, index)
    BY <2>1 DEF CsvOpenReadWithFilteredSetW
  <2> HIDE DEF h, index
  <2>3. CASE Crash BY <2>3 DEF Crash, Quiet
  <2>4. CASE OpenFails("other", "INVALID_PARAMETER") BY <2>4 DEF OpenFails, Quiet
  <2>5. CASE OpenExisting("other", "read", TRUE, index) BY <2>5, QuietOpening
  <2> QED BY <2>2, <2>3, <2>4, <2>5
<1> QED BY <1>1, <1>2, <1>3 DEF Opening

LEMMA QuietSetting ==
  ASSUME Setting
  PROVE  Quiet
<1>1. PICK e, c : CsvSetOption(e, c) \/ CsvUnsetOption(e) BY DEF Setting
<1>2. CASE CsvSetOption(e, c) BY <1>2, QuietReturns, QuietRefusal DEF CsvSetOption
<1>3. CASE CsvUnsetOption(e) BY <1>3, QuietReturns, QuietRefusal DEF CsvUnsetOption
<1> QED BY <1>1, <1>2, <1>3

LEMMA QuietRest ==
  ASSUME Regular,
         Writing \/ CsvResetFile \/ CsvGetLastError \/ CsvGetHeaderNumberOfFields \/ CsvClose
  PROVE  Quiet
<1>1. CASE Writing
  <2>1. CASE CsvWriteNextRecordWithTypes BY <2>1 DEF CsvWriteNextRecordWithTypes, Quiet
  <2>2. CASE \E ts \in [1..csv.n -> Texts] : CsvWriteNextRecordW(ts)
    BY <2>2, QuietReturns, QuietRefusal DEF CsvWriteNextRecordW
  <2> QED BY <1>1, <2>1, <2>2 DEF Writing, WriteStops, Regular
<1>2. CASE CsvResetFile BY <1>2, QuietReturns, QuietRefusal DEF CsvResetFile
<1>3. CASE CsvGetLastError BY <1>3 DEF CsvGetLastError, Quiet
<1>4. CASE CsvGetHeaderNumberOfFields BY <1>4, QuietReturns DEF CsvGetHeaderNumberOfFields
<1>5. CASE CsvClose BY <1>5, QuietReturns DEF CsvClose
<1> QED BY <1>1, <1>2, <1>3, <1>4, <1>5

LEMMA HoldingStays ==
  ASSUME HoldingInv, Quiet \/ HoldingStep
  PROVE  HoldingInv'
<1>1. CASE UNCHANGED <<file, written, csv, ret>>
  BY <1>1 DEF HoldingInv, Holding, RecordsPassed
<1>2. CASE ~UNCHANGED <<file, written, csv, ret>>
  BY <1>2 DEF HoldingInv, Quiet, HoldingStep
<1> QED BY <1>1, <1>2

LEMMA HoldingNext ==
  ASSUME Regular, TypeInv, StreamInv, HoldingInv, [Next]_vars
  PROVE  HoldingInv'
<1>1. CASE UNCHANGED vars \/ Finished
  <2>1. HoldingStep BY <1>1 DEF vars, Finished, HoldingStep
  <2> QED BY <2>1, HoldingStays
<1>2. CASE Opening BY <1>2, QuietOpenings, HoldingStays
<1>3. CASE CsvGetNextRecordW BY <1>3, ReadStream, HoldingStays
<1>4. CASE Setting BY <1>4, QuietSetting, HoldingStays
<1>5. CASE Writing \/ CsvResetFile \/ CsvGetLastError \/ CsvGetHeaderNumberOfFields \/ CsvClose
  BY <1>5, QuietRest, HoldingStays
<1> QED BY <1>1, <1>2, <1>3, <1>4, <1>5 DEF Next, Reading, CsvGetNextRecordA, Regular

(* FirstFilteredFieldOnly: for every regular host program and filtered sets  *)
(* of any size, a filtered read copies the first field of the set from the   *)
(* record it has passed, and no other one.                                   *)
THEOREM FirstFilteredFieldIsCopied ==
  Regular => (Spec => []FirstFilteredFieldOnly)
<1> SUFFICES ASSUME Regular PROVE Spec => []FirstFilteredFieldOnly OBVIOUS
<1>1. Init => HoldingInv BY DEF Init, HoldingInv
<1>2. TypeInv /\ StreamInv /\ HoldingInv /\ [Next]_vars => HoldingInv' BY HoldingNext
<1>3. HoldingInv => FirstFilteredFieldOnly
  BY DEF HoldingInv, Holding, StoredBy, FirstFilteredFieldOnly
<1>4. Spec => []StreamInv BY StreamHolds
<1> QED BY <1>1, <1>2, <1>3, <1>4, TypesHold, PTL DEF Spec

-----------------------------------------------------------------------------
(* What the reference grammar finds in a file.                               *)

(* The places g[1 .. n] of a set, one behind the other.                      *)
Values(g, n) == {g[i] : i \in 1..n}
Rising(n, g) == \A i \in 1..n, j \in 1..n : i < j => g[i] < g[j]

LEMMA RisingCount ==
  ASSUME NEW n \in Nat, NEW g \in [1..n -> Nat], Rising(n, g)
  PROVE  \A m \in 0..n : IsFiniteSet(Values(g, m)) /\ Cardinality(Values(g, m)) = m
<1> DEFINE T == {m \in Nat : m <= n => IsFiniteSet(Values(g, m)) /\ Cardinality(Values(g, m)) = m}
<1>1. 0 \in T
  <2>1. Values(g, 0) = {} BY DEF Values
  <2> QED BY <2>1, FS_EmptySet
<1>2. ASSUME NEW m \in Nat, m < n, m \in T PROVE m + 1 \in T
  <2>1. m + 1 \in 1..n /\ m <= n BY <1>2
  <2>2. Values(g, m + 1) = Values(g, m) \cup {g[m + 1]}
    <3>1. \A i : i \in 1..m + 1 <=> i \in 1..m \/ i = m + 1 OBVIOUS
    <3> QED BY <3>1 DEF Values
  <2>3. g[m + 1] \notin Values(g, m)
    <3>1. \A i \in 1..m : i \in 1..n /\ i < m + 1 BY <1>2
    <3>2. \A i \in 1..m : g[i] < g[m + 1] BY <2>1, <3>1 DEF Rising
    <3>3. \A i \in 1..m : g[i] \in Nat BY <3>1
    <3>4. \A i \in 1..m : g[i] # g[m + 1] BY <2>1, <3>2, <3>3
    <3> QED BY <3>4 DEF Values
  <2>4. IsFiniteSet(Values(g, m)) /\ Cardinality(Values(g, m)) = m BY <1>2, <2>1
  <2>5. /\ IsFiniteSet(Values(g, m) \cup {g[m + 1]})
        /\ Cardinality(Values(g, m) \cup {g[m + 1]}) = Cardinality(Values(g, m)) + 1
    BY <2>3, <2>4, FS_AddElement
  <2>6. IsFiniteSet(Values(g, m + 1)) /\ Cardinality(Values(g, m + 1)) = m + 1
    BY <2>2, <2>4, <2>5
  <2> QED BY <2>6
<1>3. \A m \in 0..n : m \in T
  <2>1. \A m \in Nat : m < n /\ m \in T => m + 1 \in T BY <1>2
  <2> HIDE DEF T
  <2> QED BY <1>1, <2>1, Induction
<1> QED BY <1>3

(* The grammar puts such a set in the order of its places.                   *)
LEMMA RisingInOrder ==
  ASSUME NEW n \in Nat, NEW g \in [1..n -> Nat], Rising(n, g),
         NEW S, S = Values(g, n)
  PROVE  Grammar!InOrder(S) = g
<1> DEFINE Below(k) == {j \in S : j < k}
<1>1. Cardinality(S) = n
  <2>1. n \in 0..n OBVIOUS
  <2> QED BY <2>1, RisingCount
<1>2. \A i \in 1..n : Cardinality(Below(g[i])) = i - 1
  <2> SUFFICES ASSUME NEW i \in 1..n PROVE Cardinality(Below(g[i])) = i - 1 OBVIOUS
  <2> DEFINE m == i - 1
  <2>1. m \in 0..n OBVIOUS
  <2>2. \A j \in 1..n : g[j] \in Nat /\ (j < i => g[j] < g[i]) /\ (i < j => g[i] < g[j])
    BY DEF Rising
  <2>3. \A j \in 1..n : g[j] < g[i] <=> j < i
    <3> SUFFICES ASSUME NEW j \in 1..n PROVE g[j] < g[i] <=> j < i OBVIOUS
    <3>1. g[i] \in Nat /\ g[j] \in Nat BY <2>2
    <3>2. CASE j < i BY <2>2, <3>2
    <3>3. CASE j = i BY <3>1, <3>3
    <3>4. CASE i < j
      <4>1. g[i] < g[j] BY <2>2, <3>4
      <4> QED BY <3>1, <3>4, <4>1
    <3> QED BY <3>2, <3>3, <3>4
  <2>4. Below(g[i]) = Values(g, m)
    <3>1. \A j \in 1..n : j < i <=> j \in 1..m OBVIOUS
    <3>2. \A j \in 1..m : j \in 1..n OBVIOUS
    <3> QED BY <2>3, <3>1, <3>2 DEF Values
  <2>5. Cardinality(Values(g, m)) = m
    <3> HIDE DEF m
    <3> QED BY <2>1, RisingCount
  <2> QED BY <2>4, <2>5
<1> HIDE DEF Below
<1>3. \A i \in 1..n : (CHOOSE k \in S : Cardinality(Below(k)) = i - 1) = g[i]
  <2> SUFFICES ASSUME NEW i \in 1..n
      PROVE  (CHOOSE k \in S : Cardinality(Below(k)) = i - 1) = g[i]
    OBVIOUS
  <2>1. g[i] \in S /\ Cardinality(Below(g[i])) = i - 1 BY <1>2 DEF Values
  <2>2. ASSUME NEW k \in S, Cardinality(Below(k)) = i - 1 PROVE k = g[i]
    <3>1. PICK j \in 1..n : k = g[j] BY DEF Values
    <3>2. j - 1 = i - 1 BY <1>2, <2>2, <3>1
    <3> QED BY <3>1, <3>2
  <2> QED BY <2>1, <2>2
<1>4. Grammar!InOrder(S) = [i \in 1..n |-> CHOOSE k \in S : Cardinality(Below(k)) = i - 1]
  BY <1>1 DEF Grammar!InOrder, Below, Grammar!Cardinality, Cardinality
<1> QED BY <1>3, <1>4

(* An unprotected c ends a piece of f that has no other.                     *)
Cut(f, c, p, q) ==
  /\ p < q /\ f[q] = c /\ ~Odd(f, q)
  /\ \A k \in p + 1..q - 1 : f[k] = c => Odd(f, k)
CutBy(f, c, n, e) ==
  /\ e \in [0..n -> Nat] /\ e[0] = 0 /\ e[n] = Len(f)
  /\ \A i \in 1..n : Cut(f, c, e[i - 1], e[i])

LEMMA StepsRise ==
  ASSUME NEW n \in Nat, NEW e \in [0..n -> Nat], \A i \in 1..n : e[i - 1] < e[i]
  PROVE  \A i \in 0..n, j \in 0..n : i < j => e[i] < e[j]
<1> DEFINE T == {j \in Nat : j <= n => \A i \in 0..n : i < j => e[i] < e[j]}
<1>1. \A i \in 0..n : e[i] \in Nat OBVIOUS
<1>2. 0 \in T OBVIOUS
<1>3. ASSUME NEW j \in Nat, j < n, j \in T PROVE j + 1 \in T
  <2> DEFINE m == j + 1
  <2>1. m \in 1..n /\ m - 1 = j /\ j \in 0..n /\ m \in 0..n BY <1>3
  <2>2. e[j] < e[m]
    <3> HIDE DEF m
    <3> QED BY <2>1
  <2>3. e[j] \in Nat /\ e[m] \in Nat BY <1>1, <2>1
  <2>4. ASSUME NEW i \in 0..n, i < m PROVE e[i] < e[m]
    <3>1. CASE i = j BY <2>2, <3>1
    <3>2. CASE i # j
      <4>1. i < j BY <2>4, <3>2
      <4>2. e[i] < e[j] /\ e[i] \in Nat BY <1>1, <1>3, <2>1, <4>1
      <4> HIDE DEF m
      <4> QED BY <2>2, <2>3, <4>2
    <3> QED BY <3>1, <3>2
  <2> QED BY <2>4
<1>4. \A j \in 0..n : j \in T
  <2>1. \A j \in Nat : j < n /\ j \in T => j + 1 \in T BY <1>3
  <2> HIDE DEF T
  <2> QED BY <1>2, <2>1, Induction
<1> QED BY <1>4

LEMMA PiecesAt ==
  ASSUME NEW f \in Seq(Characters), NEW c, NEW n \in Nat, NEW e, CutBy(f, c, n, e)
  PROVE  Grammar!Pieces(f, c) = [i \in 1..n |-> SubSeq(f, e[i - 1] + 1, e[i] - 1)]
<1> DEFINE g == [i \in 1..n |-> e[i]]
           E == Grammar!Ends(f, c)
<1>1. /\ e \in [0..n -> Nat] /\ e[0] = 0 /\ e[n] = Len(f)
      /\ \A i \in 1..n : Cut(f, c, e[i - 1], e[i])
  BY DEF CutBy
<1>2. Len(f) \in Nat /\ DOMAIN f = 1..Len(f) BY LenProperties
<1>3. \A i \in 0..n, j \in 0..n : i < j => e[i] < e[j]
  <2>1. \A i \in 1..n : e[i - 1] < e[i] BY <1>1 DEF Cut
  <2> QED BY <1>1, <2>1, StepsRise
<1>4. g \in [1..n -> Nat] /\ \A i \in 1..n : g[i] = e[i] BY <1>1
<1>5. Rising(n, g)
  <2>1. \A i \in 1..n : i \in 0..n OBVIOUS
  <2> QED BY <1>3, <1>4, <2>1 DEF Rising
<1>6. E = Values(g, n)
  <2>1. ASSUME NEW i \in 1..n PROVE e[i] \in E
    <3>1. f[e[i]] = c /\ ~Odd(f, e[i]) BY <1>1 DEF Cut
    <3>2. e[i] \in 1..Len(f)
      <4>1. i \in 0..n /\ n \in 0..n /\ 0 \in 0..n /\ 0 < i OBVIOUS
      <4>2. e[i] \in Nat /\ e[0] < e[i] BY <1>1, <1>3, <4>1
      <4>3. e[i] <= e[n]
        <5>1. CASE i = n BY <4>2, <5>1
        <5>2. CASE i # n
          <6>1. i < n BY <5>2
          <6>2. e[i] < e[n] /\ e[n] \in Nat BY <1>1, <1>3, <4>1, <6>1
          <6> QED BY <4>2, <6>2
        <5> QED BY <5>1, <5>2
      <4> QED BY <1>1, <1>2, <4>2, <4>3
    <3> QED BY <1>2, <3>1, <3>2 DEF Grammar!Ends, Odd
  <2>2. ASSUME NEW k \in E PROVE \E i \in 1..n : k = e[i]
    <3>1. k \in 1..Len(f) /\ f[k] = c /\ ~Odd(f, k) BY <1>2 DEF Grammar!Ends, Odd
    <3>2. k \in e[0] + 1..e[n] BY <1>1, <3>1
    <3>3. PICK i \in 1..n : e[i - 1] < k /\ k <= e[i] BY <1>1, <3>2, PlacesCover
    <3>4. \A j \in e[i - 1] + 1..e[i] - 1 : f[j] = c => Odd(f, j) BY <1>1 DEF Cut
    <3>5. e[i - 1] \in Nat /\ e[i] \in Nat
      <4>1. i - 1 \in 0..n /\ i \in 0..n OBVIOUS
      <4> QED BY <1>1, <4>1
    <3>6. k \notin e[i - 1] + 1..e[i] - 1 BY <3>1, <3>4
    <3> QED BY <3>1, <3>3, <3>5, <3>6
  <2> HIDE DEF E, g
  <2>3. \A i \in 1..n : g[i] \in E BY <1>4, <2>1
  <2>4. \A k \in E : \E i \in 1..n : k = g[i] BY <1>4, <2>2
  <2> QED BY <2>3, <2>4 DEF Values
<1> HIDE DEF g, E
<1>7. Grammar!InOrder(E) = g BY <1>4, <1>5, <1>6, RisingInOrder
<1>8. Grammar!Pieces(f, c) =
        [i \in DOMAIN g |-> SubSeq(f, IF i = 1 THEN 1 ELSE g[i - 1] + 1, g[i] - 1)]
  BY <1>7 DEF Grammar!Pieces, E
<1>9. DOMAIN g = 1..n BY <1>4
<1>10. \A i \in 1..n : SubSeq(f, IF i = 1 THEN 1 ELSE g[i - 1] + 1, g[i] - 1)
                       = SubSeq(f, e[i - 1] + 1, e[i] - 1)
  <2> SUFFICES ASSUME NEW i \in 1..n
      PROVE  SubSeq(f, IF i = 1 THEN 1 ELSE g[i - 1] + 1, g[i] - 1)
             = SubSeq(f, e[i - 1] + 1, e[i] - 1)
    OBVIOUS
  <2>1. (IF i = 1 THEN 1 ELSE g[i - 1] + 1) = e[i - 1] + 1
    <3>1. CASE i = 1
      <4>1. i - 1 = 0 /\ 0 + 1 = 1 BY <3>1
      <4>2. e[i - 1] = 0 BY <1>1, <4>1
      <4> QED BY <3>1, <4>1, <4>2
    <3>2. CASE i # 1
      <4>1. i - 1 \in 1..n BY <3>2
      <4> QED BY <1>4, <3>2, <4>1
    <3> QED BY <3>1, <3>2
  <2>2. g[i] = e[i] BY <1>4
  <2> QED BY <2>1, <2>2
<1> QED BY <1>8, <1>9, <1>10

(* A part of a file has the parity of the file from its beginning on.        *)
LEMMA PartParity ==
  ASSUME NEW f, NEW a \in Nat, NEW s, NEW l \in Nat, \A k \in 1..l : s[k] = f[a + k]
  PROVE  \A k \in 0..l : Odd(s, k + 1) <=> (Odd(f, (a + k) + 1) <=> ~Odd(f, a + 1))
<1> DEFINE Good(k) == Odd(s, k + 1) <=> (Odd(f, (a + k) + 1) <=> ~Odd(f, a + 1))
           T == {k \in Nat : k <= l => Good(k)}
<1>1. 0 \in T
  <2>1. 0 + 1 = 1 /\ (a + 0) + 1 = a + 1 OBVIOUS
  <2>2. ~Odd(s, 1) BY ParityStart
  <2> QED BY <2>1, <2>2
<1>2. ASSUME NEW k \in Nat, k < l, k \in T PROVE k + 1 \in T
  <2> DEFINE m == k + 1
             b == (a + k) + 1
  <2>1. m \in 1..l /\ m \in Nat \ {0} /\ b \in Nat \ {0} /\ a + m = b BY <1>2
  <2>2. Odd(s, m) <=> (Odd(f, b) <=> ~Odd(f, a + 1)) BY <1>2
  <2> HIDE DEF m, b
  <2>3. s[m] = f[b] BY <2>1
  <2>4. Odd(s, m + 1) <=> (Odd(s, m) <=> s[m] # Quote) BY <2>1, ParityStep
  <2>5. Odd(f, b + 1) <=> (Odd(f, b) <=> f[b] # Quote) BY <2>1, ParityStep
  <2>6. Odd(s, m + 1) <=> (Odd(f, (a + m) + 1) <=> ~Odd(f, a + 1))
    BY <2>1, <2>2, <2>3, <2>4, <2>5
  <2> QED BY <2>6 DEF m
<1>3. \A k \in 0..l : k \in T
  <2>1. \A k \in Nat : k < l /\ k \in T => k + 1 \in T BY <1>2
  <2> HIDE DEF T
  <2> QED BY <1>1, <2>1, Induction
<1> QED BY <1>3

LEMMA PartOf ==
  ASSUME NEW f \in Seq(Characters), NEW p \in Nat, NEW q \in Nat, p <= q, q <= Len(f)
  PROVE  /\ SubSeq(f, p + 1, q) \in Seq(Characters) /\ Len(SubSeq(f, p + 1, q)) = q - p
         /\ \A k \in 1..q - p : SubSeq(f, p + 1, q)[k] = f[p + k]
<1>1. Len(f) \in Nat BY LenProperties
<1>2. \A i \in p + 1..q : f[i] \in Characters
  <2>1. \A i \in p + 1..q : i \in 1..Len(f) BY <1>1
  <2> QED BY <2>1, ElementOfSeq
<1>3. /\ SubSeq(f, p + 1, q) \in Seq(Characters)
      /\ Len(SubSeq(f, p + 1, q)) = IF p + 1 <= q THEN q - (p + 1) + 1 ELSE 0
      /\ \A i \in 1..q - (p + 1) + 1 : SubSeq(f, p + 1, q)[i] = f[(p + 1) + i - 1]
  BY <1>1, <1>2, SubSeqProperties
<1>4. q - (p + 1) + 1 = q - p /\ (p + 1 > q => q - p = 0) OBVIOUS
<1>5. \A k \in 1..q - p : (p + 1) + k - 1 = p + k OBVIOUS
<1> QED BY <1>3, <1>4, <1>5

LEMMA SameText ==
  ASSUME NEW S, NEW s \in Seq(S), NEW t \in Seq(S), Len(s) = Len(t),
         \A k \in 1..Len(t) : s[k] = t[k]
  PROVE  s = t
BY SeqEqual

(* Of the characters between two quotes, one of each pair is kept.           *)
TextWithin(inner) ==
  LET kept == Grammar!InOrder({k \in DOMAIN inner : inner[k] = Quote => ~Odd(inner, k)})
  IN  [i \in DOMAIN kept |-> inner[kept[i]]]

LEMMA TextOfQuoted ==
  ASSUME NEW piece, piece # <<>>, piece[1] = Quote
  PROVE  Grammar!Text(piece) = TextWithin(SubSeq(piece, 2, Len(piece) - 1))
BY DEF Grammar!Text, TextWithin, Odd

LEMMA KeptText ==
  ASSUME NEW inner \in Seq(Characters), NEW t \in Seq(Characters), NEW h,
         Spread(inner, t, 0, h), Len(inner) = h[Len(t)]
  PROVE  TextWithin(inner) = t
<1> DEFINE n == Len(t)
           l == Len(inner)
           g == [i \in 1..n |-> h[i - 1] + 1]
           S == {k \in DOMAIN inner : inner[k] = Quote => ~Odd(inner, k)}
<1>1. n \in Nat /\ l \in Nat /\ DOMAIN inner = 1..l /\ l = h[n] /\ DOMAIN t = 1..n
  BY LenProperties
<1>2. /\ h \in [0..n -> Nat] /\ h[0] = 0
      /\ \A i \in 1..n :
           IF t[i] = Quote
           THEN h[i] = h[i - 1] + 2 /\ inner[h[i - 1] + 1] = Quote /\ inner[h[i - 1] + 2] = Quote
           ELSE h[i] = h[i - 1] + 1 /\ inner[h[i - 1] + 1] = t[i]
  BY DEF Spread
<1>3. \A i \in 0..n : h[i] \in Nat /\ ~Odd(inner, h[i] + 1)
  <2>1. ~Odd(inner, 0 + 1)
    <3>1. 0 + 1 = 1 OBVIOUS
    <3> QED BY <3>1, ParityStart
  <2>2. 0 \in Nat OBVIOUS
  <2>3. \A i \in 0..Len(t) : Odd(inner, h[i] + 1) <=> Odd(inner, 0 + 1) BY <2>2, SpreadParity
  <2> QED BY <1>2, <2>1, <2>3
<1>4. \A i \in 0..n : h[i] <= l
  <2>1. 0 \in Nat OBVIOUS
  <2>2. \A i \in 0..Len(t) : h[i] <= h[Len(t)] BY <2>1, SpreadBounded
  <2> QED BY <1>1, <2>2
<1> HIDE DEF n, l
<1>5. \A i \in 1..n : h[i - 1] \in Nat /\ h[i] \in Nat /\ h[i - 1] < h[i] /\ h[i] <= l
  <2> SUFFICES ASSUME NEW i \in 1..n
      PROVE  h[i - 1] \in Nat /\ h[i] \in Nat /\ h[i - 1] < h[i] /\ h[i] <= l
    OBVIOUS
  <2>1. i - 1 \in 0..n /\ i \in 0..n BY <1>1
  <2>2. h[i - 1] \in Nat /\ h[i] \in Nat /\ h[i] <= l BY <1>3, <1>4, <2>1
  <2>3. h[i] = h[i - 1] + 1 \/ h[i] = h[i - 1] + 2 BY <1>2
  <2> QED BY <2>2, <2>3
<1>6. g \in [1..n -> Nat] /\ \A i \in 1..n : g[i] = h[i - 1] + 1
  <2>1. \A i \in 1..n : h[i - 1] + 1 \in Nat BY <1>5
  <2> QED BY <2>1
<1> HIDE DEF g
<1>7. Rising(n, g)
  <2>1. \A i \in 1..n : h[i - 1] < h[i] BY <1>5
  <2>2. \A i \in 0..n, j \in 0..n : i < j => h[i] < h[j] BY <1>1, <1>2, <2>1, StepsRise
  <2>3. ASSUME NEW i \in 1..n, NEW j \in 1..n, i < j PROVE g[i] < g[j]
    <3>1. i - 1 \in 0..n /\ j - 1 \in 0..n /\ i - 1 < j - 1 BY <1>1, <2>3
    <3>2. h[i - 1] < h[j - 1] BY <2>2, <3>1
    <3>3. h[i - 1] \in Nat /\ h[j - 1] \in Nat BY <1>5
    <3> QED BY <1>6, <3>2, <3>3
  <2> QED BY <2>3 DEF Rising
<1>8. \A i \in 1..n : g[i] \in 1..l /\ inner[g[i]] = t[i] /\ ~Odd(inner, g[i])
  <2> SUFFICES ASSUME NEW i \in 1..n
      PROVE  g[i] \in 1..l /\ inner[g[i]] = t[i] /\ ~Odd(inner, g[i])
    OBVIOUS
  <2>1. g[i] \in 1..l
    <3> DEFINE x == h[i - 1]
               y == h[i]
    <3>1. x \in Nat /\ y \in Nat /\ x < y /\ y <= l /\ g[i] = x + 1 BY <1>5, <1>6
    <3> HIDE DEF x, y
    <3> QED BY <1>1, <3>1
  <2>2. inner[g[i]] = t[i] BY <1>2, <1>6
  <2>3. i - 1 \in 0..n BY <1>1
  <2>4. ~Odd(inner, g[i]) BY <1>3, <1>6, <2>3
  <2> QED BY <2>1, <2>2, <2>4
<1>9. S = Values(g, n)
  <2>1. \A i \in 1..n : g[i] \in S BY <1>1, <1>8
  <2>2. ASSUME NEW k \in S PROVE \E i \in 1..n : k = g[i]
    <3>1. k \in 1..l /\ (inner[k] = Quote => ~Odd(inner, k)) BY <1>1
    <3>2. k \in h[0] + 1..h[n] BY <1>1, <1>2, <3>1
    <3>3. PICK i \in 1..n : h[i - 1] < k /\ k <= h[i] BY <1>1, <1>2, <3>2, PlacesCover
    <3>4. h[i - 1] \in Nat /\ h[i] \in Nat BY <1>5
    <3>5. CASE k = h[i - 1] + 1 BY <1>6, <3>5
    <3>6. CASE k # h[i - 1] + 1
      <4>1. t[i] = Quote /\ h[i] = h[i - 1] + 2 BY <1>2, <3>1, <3>3, <3>4, <3>6
      <4>2. k = (h[i - 1] + 1) + 1 /\ h[i - 1] + 1 \in Nat \ {0}
        <5> DEFINE x == h[i - 1]
                   y == h[i]
        <5>1. x \in Nat /\ y = x + 2 /\ k \in Nat /\ x < k /\ k <= y /\ k # x + 1
          BY <3>1, <3>3, <3>4, <3>6, <4>1
        <5> HIDE DEF x, y
        <5>2. k = (x + 1) + 1 /\ x + 1 \in Nat \ {0} BY <5>1
        <5> QED BY <5>2 DEF x
      <4>3. inner[h[i - 1] + 1] = Quote /\ inner[h[i - 1] + 2] = Quote BY <1>2, <4>1
      <4>4. inner[k] = Quote
        <5>1. k = h[i - 1] + 2 BY <3>4, <4>2
        <5> QED BY <4>3, <5>1
      <4>5. ~Odd(inner, h[i - 1] + 1) BY <1>6, <1>8
      <4>6. Odd(inner, k) BY <4>2, <4>3, <4>5, ParityStep
      <4> QED BY <3>1, <4>4, <4>6
    <3> QED BY <3>5, <3>6
  <2> HIDE DEF S
  <2> QED BY <2>1, <2>2 DEF Values
<1>10. TextWithin(inner) = [i \in 1..n |-> inner[g[i]]]
  <2>1. Grammar!InOrder(S) = g BY <1>1, <1>6, <1>7, <1>9, RisingInOrder
  <2>2. DOMAIN g = 1..n BY <1>6
  <2> QED BY <2>1, <2>2 DEF TextWithin
<1>11. \A i \in 1..n : inner[g[i]] = t[i] BY <1>8
<1>12. t = [i \in 1..n |-> t[i]] BY <1>1, SeqDef
<1> QED BY <1>10, <1>11, <1>12

(* The grammar finds the text of a field in its place.                       *)
LEMMA FieldText ==
  ASSUME NEW f \in Seq(Characters), NEW p, NEW q, NEW t, NEW sep, NEW closing,
         FieldAt(f, p, q, t, sep, closing)
  PROVE  Grammar!Text(SubSeq(f, p + 1, q - 1)) = t
<1> DEFINE r == q - 1
           piece == SubSeq(f, p + 1, r)
<1>1. t \in Seq(Characters) /\ p \in Nat /\ q \in Nat /\ p < q /\ q <= Len(f)
  BY FieldAdvances DEF FieldAt
<1>2. Len(t) \in Nat /\ Len(f) \in Nat /\ DOMAIN t = 1..Len(t) BY <1>1, LenProperties
<1>3. r \in Nat /\ p <= r /\ r <= Len(f) /\ r - p = q - 1 - p BY <1>1, <1>2
<1>4. /\ piece \in Seq(Characters) /\ Len(piece) = r - p
      /\ \A k \in 1..r - p : piece[k] = f[p + k]
  <2> HIDE DEF r
  <2> QED BY <1>1, <1>3, PartOf
<1> HIDE DEF piece
<1>5. CASE PlainAt(f, p, q, t, sep)
  <2>1. q = p + Len(t) + 1 /\ \A i \in 1..Len(t) : f[p + i] = t[i] /\ t[i] # Quote
    BY <1>5 DEF PlainAt
  <2>2. r - p = Len(t) BY <1>1, <1>2, <2>1
  <2>3. piece = t
    <3>1. Len(piece) = Len(t) /\ \A k \in 1..Len(t) : piece[k] = t[k] BY <1>4, <2>1, <2>2
    <3>2. piece \in Seq(Characters) /\ t \in Seq(Characters) BY <1>1, <1>4
    <3> HIDE DEF r
    <3> QED BY <3>1, <3>2, SameText
  <2>4. t = <<>> \/ t[1] # Quote
    <3>1. t # <<>> => Len(t) # 0 BY <1>1, EmptySeq
    <3>2. Len(t) # 0 => 1 \in 1..Len(t) BY <1>2
    <3> QED BY <2>1, <3>1, <3>2
  <2>5. Grammar!Text(piece) = piece BY <2>3, <2>4 DEF Grammar!Text
  <2> QED BY <2>3, <2>5 DEF piece
<1>6. CASE QuotedAt(f, p, q, t)
  <2>1. PICK g : QuotedBy(f, p, q, t, g) BY <1>6 DEF QuotedAt
  <2> DEFINE a == p + 1
             e == g[Len(t)]
             n == Len(t)
  <2>2. Spread(f, t, a, g) /\ q = e + 2 /\ f[p + 1] = Quote BY <2>1 DEF QuotedBy
  <2>3. a \in Nat BY <1>1
  <2>4. \A i \in 0..n : g[i] \in Nat /\ g[i] >= a + i BY <1>1, <2>2, <2>3, SpreadGrows
  <2>5. \A i \in 0..n : g[i] <= e BY <1>1, <2>2, <2>3, SpreadBounded
  <2>6. e \in Nat /\ e >= a + n /\ r = e + 1
    <3>1. n \in 0..n BY <1>2
    <3> QED BY <2>2, <2>4, <3>1
  <2>7. piece # <<>> /\ piece[1] = Quote /\ Len(piece) - 1 = r - p - 1 /\ 1 <= Len(piece) - 1
        /\ Len(piece) - 1 <= Len(piece)
    <3>1. 1 \in 1..r - p /\ r - p = e - p + 1 /\ e - p + 1 >= 2 BY <1>1, <1>2, <2>6
    <3>2. piece[1] = Quote BY <1>4, <2>2, <3>1
    <3>3. Len(piece) # 0 BY <1>4, <3>1
    <3> QED BY <1>4, <3>1, <3>2, <3>3, EmptySeq
  <2> DEFINE m == Len(piece) - 1
             inner == SubSeq(piece, 2, m)
             l == e - a
  <2>8. m \in Nat /\ 1 <= m /\ m <= Len(piece) /\ m - 1 = l /\ r - p = l + 2 /\ l \in Nat
    <3> DEFINE len == Len(piece)
               top == g[n]
               wide == Len(t)
               last == q - 1
    <3>1. len = last - p /\ len - 1 = last - p - 1 /\ 1 <= len - 1 /\ len - 1 <= len
      BY <1>4, <2>7
    <3>2. top \in Nat /\ top >= p + 1 + wide /\ last = top + 1 /\ p \in Nat /\ wide \in Nat
      BY <1>1, <1>2, <2>6
    <3> HIDE DEF len, top, wide, last
    <3>3. /\ len - 1 \in Nat /\ 1 <= len - 1 /\ len - 1 <= len /\ (len - 1) - 1 = top - (p + 1)
          /\ last - p = top - (p + 1) + 2 /\ top - (p + 1) \in Nat
      BY <3>1, <3>2
    <3> QED BY <3>3 DEF len, top, last
  <2>9. inner \in Seq(Characters) /\ Len(inner) = l /\ \A k \in 1..l : inner[k] = piece[1 + k]
    <3> DEFINE one == 1
    <3>1. one \in Nat /\ one <= m /\ one + 1 = 2 BY <2>8
    <3> HIDE DEF one, m
    <3>2. /\ SubSeq(piece, one + 1, m) \in Seq(Characters)
          /\ Len(SubSeq(piece, one + 1, m)) = m - one
          /\ \A k \in 1..m - one : SubSeq(piece, one + 1, m)[k] = piece[one + k]
      BY <1>4, <2>8, <3>1, PartOf
    <3> QED BY <2>8, <3>1, <3>2 DEF one
  <2>10. \A k \in 1..l : inner[k] = f[a + k]
    <3> SUFFICES ASSUME NEW k \in 1..l PROVE inner[k] = f[a + k] OBVIOUS
    <3>1. 1 + k \in 1..r - p /\ p + (1 + k) = a + k BY <1>1, <2>8
    <3>2. inner[k] = piece[1 + k] BY <2>9
    <3> QED BY <1>4, <3>1, <3>2
  <2>11. Grammar!Text(piece) = TextWithin(inner) BY <2>7, TextOfQuoted
  <2> DEFINE h == [i \in 0..n |-> g[i] - a]
  <2>12. Spread(inner, t, 0, h) /\ h[n] = l
    <3>1. \A i \in 0..n : g[i] - a \in Nat /\ g[i] \in Nat BY <2>3, <2>4
    <3>2. h \in [0..n -> Nat] /\ \A i \in 0..n : h[i] = g[i] - a BY <3>1
    <3>3. 0 \in 0..n /\ n \in 0..n BY <1>2
    <3>4. h[0] = 0 /\ h[n] = l
      <4>1. g[0] = a BY <2>2 DEF Spread
      <4> QED BY <2>3, <3>2, <3>3, <4>1
    <3> HIDE DEF h, inner
    <3>5. ASSUME NEW i \in 1..n
          PROVE  IF t[i] = Quote
                 THEN h[i] = h[i - 1] + 2 /\ inner[h[i - 1] + 1] = Quote
                      /\ inner[h[i - 1] + 2] = Quote
                 ELSE h[i] = h[i - 1] + 1 /\ inner[h[i - 1] + 1] = t[i]
      <4> DEFINE x == g[i - 1]
                 y == g[i]
                 u == h[i - 1]
                 v == h[i]
      <4>1. i - 1 \in 0..n /\ i \in 0..n BY <1>2
      <4>2. x \in Nat /\ y \in Nat /\ u \in Nat /\ v \in Nat /\ x = a + u /\ y = a + v /\ y <= e
        BY <2>3, <2>5, <3>1, <3>2, <4>1
      <4>3. IF t[i] = Quote THEN y = x + 2 /\ f[x + 1] = Quote /\ f[x + 2] = Quote
            ELSE y = x + 1 /\ f[x + 1] = t[i]
        BY <2>2 DEF Spread
      <4> HIDE DEF x, y, u, v
      <4>4. v <= l BY <2>3, <2>6, <4>2
      <4>5. x + 1 = a + (u + 1) /\ x + 2 = a + (u + 2) BY <2>3, <4>2
      <4>6. CASE t[i] = Quote
        <5>1. y = x + 2 /\ f[x + 1] = Quote /\ f[x + 2] = Quote BY <4>3, <4>6
        <5>2. v = u + 2
          <6>1. a \in Nat /\ u \in Nat /\ v \in Nat /\ x = a + u /\ y = a + v BY <2>3, <4>2
          <6> HIDE DEF a
          <6> QED BY <5>1, <6>1
        <5>3. u + 1 \in 1..l /\ u + 2 \in 1..l BY <2>8, <4>2, <4>4, <5>2
        <5>4. inner[u + 1] = Quote /\ inner[u + 2] = Quote BY <2>10, <4>5, <5>1, <5>3
        <5> QED BY <4>6, <5>2, <5>4 DEF u, v
      <4>7. CASE t[i] # Quote
        <5>1. y = x + 1 /\ f[x + 1] = t[i] BY <4>3, <4>7
        <5>2. v = u + 1
          <6>1. a \in Nat /\ u \in Nat /\ v \in Nat /\ x = a + u /\ y = a + v BY <2>3, <4>2
          <6> HIDE DEF a
          <6> QED BY <5>1, <6>1
        <5>3. u + 1 \in 1..l BY <2>8, <4>2, <4>4, <5>2
        <5>4. inner[u + 1] = t[i] BY <2>10, <4>5, <5>1, <5>3
        <5> QED BY <4>7, <5>2, <5>4 DEF u, v
      <4> QED BY <4>6, <4>7
    <3> QED BY <3>2, <3>4, <3>5 DEF Spread
  <2> HIDE DEF inner, h, l
  <2>13. TextWithin(inner) = t BY <1>1, <2>9, <2>12, KeptText
  <2> QED BY <2>11, <2>13 DEF piece
<1> QED BY <1>5, <1>6 DEF FieldAt

(* The fields of a record hide what is inside them.                          *)
LEMMA RecordHides ==
  ASSUME NEW f, NEW c, NEW ts, NEW sep, RecordBy(f, c, ts, sep), ~Odd(f, c[0] + 1),
         sep \notin {Quote, EndOfLine}
  PROVE  \A k \in 1..Len(ts) : /\ Hides(f, c[k - 1], c[k], sep)
                               /\ f[c[k]] = Closing(k, Len(ts), sep)
<1> DEFINE N == Len(ts)
           T == {k \in Nat : k <= N => ~Odd(f, c[k] + 1)}
<1>1. N \in Nat
  <2>1. ts \in Seq(Seq(Characters)) BY DEF RecordBy
  <2> QED BY <2>1, LenProperties
<1>2. \A k \in 1..N : FieldAt(f, c[k - 1], c[k], ts[k], sep, Closing(k, N, sep))
  BY DEF RecordBy
<1>3. \A k \in 1..N : sep # Quote /\ Closing(k, N, sep) # Quote BY CharactersDiffer DEF Closing
<1> HIDE DEF N
<1>4. \A k \in 1..N : ~Odd(f, c[k - 1] + 1) => Hides(f, c[k - 1], c[k], sep) /\ ~Odd(f, c[k] + 1)
  BY <1>2, <1>3, FieldHides
<1>5. 0 \in T OBVIOUS
<1>6. ASSUME NEW k \in Nat, k < N, k \in T PROVE k + 1 \in T
  <2> DEFINE n == k + 1
  <2>1. n \in 1..N /\ n - 1 = k /\ k <= N BY <1>1, <1>6
  <2>2. ~Odd(f, c[k] + 1) BY <1>6, <2>1
  <2>3. ~Odd(f, c[n] + 1)
    <3> HIDE DEF n
    <3> QED BY <1>4, <2>1, <2>2
  <2> QED BY <2>3
<1>7. \A k \in 0..N : k \in T
  <2>1. \A k \in Nat : k < N /\ k \in T => k + 1 \in T BY <1>6
  <2> HIDE DEF T
  <2> QED BY <1>1, <1>5, <2>1, Induction
<1>8. ASSUME NEW k \in 1..N PROVE Hides(f, c[k - 1], c[k], sep)
  <2>1. k - 1 \in 0..N /\ k - 1 <= N BY <1>1
  <2>2. ~Odd(f, c[k - 1] + 1) BY <1>7, <2>1
  <2> QED BY <1>4, <2>2
<1>9. \A k \in 1..N : f[c[k]] = Closing(k, N, sep) BY <1>2 DEF FieldAt
<1> QED BY <1>8, <1>9 DEF N

(* A record is cut from the file by its end of line.                         *)
LEMMA RecordCut ==
  ASSUME NEW f \in Seq(Characters), NEW p, NEW q, NEW ts, NEW sep, RecordAt(f, p, q, ts, sep),
         ~Odd(f, p + 1), sep \notin {Quote, EndOfLine}, Len(ts) # 0
  PROVE  Cut(f, EndOfLine, p, q)
<1> DEFINE N == Len(ts)
<1>1. PICK c : RecordBy(f, c, ts, sep) /\ c[0] = p /\ c[N] = q BY DEF RecordAt
<1>2. N \in Nat \ {0} /\ c \in [0..N -> Nat]
  <2>1. ts \in Seq(Seq(Characters)) /\ c \in [0..N -> Nat] BY <1>1 DEF RecordBy
  <2> QED BY <2>1, LenProperties
<1>3. \A k \in 1..N : Hides(f, c[k - 1], c[k], sep) /\ f[c[k]] = Closing(k, N, sep)
  BY <1>1, RecordHides
<1>4. p \in Nat /\ q \in Nat /\ p < q BY RecordLines
<1> HIDE DEF N
<1>5. f[q] = EndOfLine /\ ~Odd(f, q)
  <2>1. N \in 1..N BY <1>2
  <2> QED BY <1>1, <1>3, <2>1 DEF Hides, Closing
<1>6. ASSUME NEW k \in p + 1..q - 1, f[k] = EndOfLine PROVE Odd(f, k)
  <2>1. k \in c[0] + 1..c[N] /\ k # q BY <1>1, <1>4
  <2>2. PICK i \in 1..N : c[i - 1] < k /\ k <= c[i] BY <1>2, <2>1, PlacesCover
  <2>3. c[i - 1] \in Nat /\ c[i] \in Nat
    <3>1. i - 1 \in 0..N /\ i \in 0..N BY <1>2
    <3> QED BY <1>2, <3>1
  <2>4. CASE k = c[i]
    <3>1. i # N BY <1>1, <2>1, <2>4
    <3>2. f[k] = sep BY <1>3, <2>4, <3>1 DEF Closing
    <3> QED BY <1>6, <3>2
  <2>5. CASE k # c[i]
    <3>1. k \in c[i - 1] + 1..c[i] - 1 BY <2>1, <2>2, <2>3, <2>5
    <3> QED BY <1>3, <1>6, <3>1 DEF Hides
  <2> QED BY <2>4, <2>5
<1> QED BY <1>4, <1>5, <1>6 DEF Cut

(* The grammar finds the fields of a record in its line.                     *)
LEMMA LineFields ==
  ASSUME NEW f \in Seq(Characters), NEW p, NEW q, NEW ts, NEW sep \in Characters,
         RecordAt(f, p, q, ts, sep), ~Odd(f, p + 1), sep \notin {Quote, EndOfLine}, Len(ts) # 0
  PROVE  Grammar!Fields(SubSeq(f, p + 1, q - 1), sep) = ts
<1> DEFINE N == Len(ts)
           r == q - 1
           line == SubSeq(f, p + 1, r)
           s == Append(line, sep)
           l == r - p
<1>1. PICK c : RecordBy(f, c, ts, sep) /\ c[0] = p /\ c[N] = q BY DEF RecordAt
<1>2. /\ N \in Nat \ {0} /\ c \in [0..N -> Nat] /\ ts \in Seq(Seq(Characters))
      /\ \A k \in 1..N : FieldAt(f, c[k - 1], c[k], ts[k], sep, Closing(k, N, sep))
  <2>1. ts \in Seq(Seq(Characters)) /\ c \in [0..N -> Nat] BY <1>1 DEF RecordBy
  <2> QED BY <1>1, <2>1, LenProperties DEF RecordBy
<1>3. \A k \in 1..N : Hides(f, c[k - 1], c[k], sep) /\ f[c[k]] = Closing(k, N, sep)
  BY <1>1, RecordHides
<1>4. p \in Nat /\ q \in Nat /\ p < q /\ q <= Len(f) BY RecordLines
<1>5. /\ r \in Nat /\ p <= r /\ r <= Len(f) /\ l \in Nat /\ p + (l + 1) = q /\ q = r + 1
      /\ q - p = l + 1
  <2>1. Len(f) \in Nat BY LenProperties
  <2> QED BY <1>4, <2>1
<1> HIDE DEF N, r
<1>6. line \in Seq(Characters) /\ Len(line) = l /\ \A k \in 1..l : line[k] = f[p + k]
  BY <1>4, <1>5, PartOf
<1> HIDE DEF line
<1>7. /\ s \in Seq(Characters) /\ Len(s) = l + 1 /\ s[l + 1] = sep
      /\ \A k \in 1..l : s[k] = f[p + k]
  BY <1>5, <1>6, AppendProperties
<1> HIDE DEF s, l
<1>8. \A k \in 0..l : Odd(s, k + 1) <=> Odd(f, (p + k) + 1)
  <2>1. \A k \in 0..l : Odd(s, k + 1) <=> (Odd(f, (p + k) + 1) <=> ~Odd(f, p + 1))
    BY <1>4, <1>5, <1>7, PartParity
  <2> QED BY <2>1
<1>9. \A k \in 1..l + 1 : Odd(s, k) <=> Odd(f, p + k)
  <2> SUFFICES ASSUME NEW k \in 1..l + 1 PROVE Odd(s, k) <=> Odd(f, p + k) OBVIOUS
  <2> DEFINE j == k - 1
  <2>1. j \in 0..l /\ j + 1 = k /\ (p + j) + 1 = p + k BY <1>4, <1>5
  <2> HIDE DEF j
  <2>2. Odd(s, j + 1) <=> Odd(f, (p + j) + 1) BY <1>8, <2>1
  <2> QED BY <2>1, <2>2
<1> DEFINE e == [k \in 0..N |-> c[k] - p]
<1>10. \A k \in 0..N : c[k] \in Nat /\ c[k] >= p /\ c[k] <= q
  <2>1. \A k \in 0..N : c[k] \in Nat BY <1>2
  <2>2. \A k \in 1..N : c[k - 1] < c[k] BY <1>3 DEF Hides
  <2>3. \A i \in 0..N, j \in 0..N : i < j => c[i] < c[j] BY <1>2, <2>2, StepsRise
  <2> SUFFICES ASSUME NEW k \in 0..N PROVE c[k] \in Nat /\ c[k] >= p /\ c[k] <= q OBVIOUS
  <2>4. k = 0 \/ p < c[k]
    <3>1. 0 \in 0..N /\ (k # 0 => 0 < k) BY <1>2
    <3> QED BY <1>1, <2>3, <3>1
  <2>5. k = N \/ c[k] < q
    <3>1. N \in 0..N /\ (k # N => k < N) BY <1>2
    <3> QED BY <1>1, <2>3, <3>1
  <2>6. c[k] \in Nat BY <2>1
  <2> QED BY <1>1, <1>4, <2>4, <2>5, <2>6
<1>11. /\ e \in [0..N -> Nat] /\ e[0] = 0 /\ e[N] = l + 1
       /\ \A k \in 0..N : c[k] = p + e[k] /\ e[k] \in Nat /\ e[k] <= l + 1
  <2>1. \A k \in 0..N : c[k] - p \in Nat /\ c[k] = p + (c[k] - p) /\ c[k] - p <= l + 1
    BY <1>4, <1>5, <1>10
  <2>2. 0 \in 0..N /\ N \in 0..N BY <1>2
  <2>3. c[0] - p = 0 /\ c[N] - p = l + 1 BY <1>1, <1>4, <1>5
  <2> QED BY <2>1, <2>2, <2>3
<1> HIDE DEF e
<1>12. ASSUME NEW i \in 1..N
       PROVE  /\ Cut(s, sep, e[i - 1], e[i])
              /\ Grammar!Text(SubSeq(s, e[i - 1] + 1, e[i] - 1)) = ts[i]
  <2> DEFINE u == e[i - 1]
             v == e[i]
             w == v - 1
  <2>1. /\ u \in Nat /\ v \in Nat /\ v <= l + 1 /\ c[i - 1] = p + u /\ c[i] = p + v
    <3>1. i - 1 \in 0..N /\ i \in 0..N BY <1>2
    <3> QED BY <1>11, <3>1
  <2>2. /\ c[i - 1] < c[i] /\ ~Odd(f, c[i]) /\ f[c[i]] = Closing(i, N, sep)
        /\ \A k \in c[i - 1] + 1..c[i] - 1 : f[k] = sep => Odd(f, k)
    BY <1>3 DEF Hides
  <2>3. FieldAt(f, c[i - 1], c[i], ts[i], sep, Closing(i, N, sep)) BY <1>2
  <2>4. i # N => v # l + 1
    <3> SUFFICES ASSUME i # N, v = l + 1 PROVE FALSE OBVIOUS
    <3>1. f[c[i]] = sep BY <2>2 DEF Closing
    <3>2. c[i] = q BY <1>5, <2>1
    <3>3. N \in 1..N BY <1>2
    <3>4. f[c[N]] = EndOfLine BY <1>3, <3>3 DEF Closing
    <3> QED BY <1>1, <3>1, <3>2, <3>4
  <2>5. i = N => v = l + 1 BY <1>11
  <2> HIDE DEF u, v
  <2>6. u < v /\ w \in Nat /\ u <= w /\ w <= l /\ v \in 1..l + 1 BY <1>4, <1>5, <2>1, <2>2
  <2>7. s[v] = sep
    <3>1. CASE i = N BY <1>7, <2>5, <3>1
    <3>2. CASE i # N
      <4>1. v \in 1..l BY <1>5, <2>4, <2>6, <3>2
      <4>2. s[v] = f[p + v] BY <1>7, <4>1
      <4> QED BY <2>1, <2>2, <3>2, <4>2 DEF Closing
    <3> QED BY <3>1, <3>2
  <2>8. ~Odd(s, v) BY <1>9, <2>1, <2>2, <2>6
  <2>9. ASSUME NEW k \in u + 1..v - 1, s[k] = sep PROVE Odd(s, k)
    <3>1. k \in 1..l /\ k \in 1..l + 1 BY <1>5, <2>1, <2>6
    <3>2. p + k \in c[i - 1] + 1..c[i] - 1 BY <1>4, <2>1
    <3>3. f[p + k] = sep BY <1>7, <2>9, <3>1
    <3>4. Odd(f, p + k) BY <2>2, <3>2, <3>3
    <3> QED BY <1>9, <3>1, <3>4
  <2>10. Cut(s, sep, u, v) BY <2>6, <2>7, <2>8, <2>9 DEF Cut
  <2>11. SubSeq(s, u + 1, w) = SubSeq(f, c[i - 1] + 1, c[i] - 1)
    <3> DEFINE x == SubSeq(s, u + 1, w)
               y == SubSeq(f, (p + u) + 1, p + w)
    <3>1. x \in Seq(Characters) /\ Len(x) = w - u /\ \A k \in 1..w - u : x[k] = s[u + k]
      <4>1. w <= Len(s) BY <1>5, <1>7, <2>6
      <4> HIDE DEF w
      <4> QED BY <1>7, <2>1, <2>6, <4>1, PartOf
    <3>2. /\ y \in Seq(Characters) /\ Len(y) = (p + w) - (p + u)
          /\ \A k \in 1..(p + w) - (p + u) : y[k] = f[(p + u) + k]
      <4>1. p + u \in Nat /\ p + w \in Nat /\ p + u <= p + w /\ p + w <= Len(f)
        <5>1. Len(f) \in Nat BY LenProperties
        <5> QED BY <1>4, <1>5, <2>1, <2>6, <5>1
      <4> HIDE DEF w
      <4> QED BY <4>1, PartOf
    <3> HIDE DEF x, y
    <3>3. (p + w) - (p + u) = w - u BY <1>4, <2>1, <2>6
    <3>4. ASSUME NEW k \in 1..w - u PROVE x[k] = y[k]
      <4>1. u + k \in 1..l /\ p + (u + k) = (p + u) + k BY <1>4, <1>5, <2>1, <2>6
      <4>2. s[u + k] = f[p + (u + k)] BY <1>7, <4>1
      <4> QED BY <3>1, <3>2, <3>3, <4>1, <4>2
    <3>5. x = y
      <4>1. Len(x) = Len(y) /\ \A k \in 1..Len(y) : x[k] = y[k] BY <3>1, <3>2, <3>3, <3>4
      <4> QED BY <3>1, <3>2, <4>1, SameText
    <3>6. c[i] - 1 = p + w BY <1>4, <2>1
    <3> QED BY <2>1, <3>5, <3>6 DEF x, y
  <2>12. Grammar!Text(SubSeq(f, c[i - 1] + 1, c[i] - 1)) = ts[i] BY <2>3, FieldText
  <2>13. Grammar!Text(SubSeq(s, u + 1, w)) = ts[i] BY <2>11, <2>12
  <2> QED BY <2>10, <2>13 DEF u, v
<1>13. CutBy(s, sep, N, e) BY <1>7, <1>11, <1>12 DEF CutBy
<1>14. Grammar!Pieces(s, sep) = [i \in 1..N |-> SubSeq(s, e[i - 1] + 1, e[i] - 1)]
  <2>1. N \in Nat BY <1>2
  <2> QED BY <1>7, <1>13, <2>1, PiecesAt
<1>15. Grammar!Fields(line, sep)
         = [i \in 1..N |-> Grammar!Text(SubSeq(s, e[i - 1] + 1, e[i] - 1))]
  <2> DEFINE pieces == [i \in 1..N |-> SubSeq(s, e[i - 1] + 1, e[i] - 1)]
  <2>1. Grammar!Fields(line, sep) = [i \in DOMAIN pieces |-> Grammar!Text(pieces[i])]
    BY <1>14 DEF Grammar!Fields, s
  <2>2. DOMAIN pieces = 1..N
        /\ \A i \in 1..N : pieces[i] = SubSeq(s, e[i - 1] + 1, e[i] - 1)
    OBVIOUS
  <2> HIDE DEF pieces
  <2> QED BY <2>1, <2>2
<1>16. ts = [i \in 1..N |-> ts[i]] BY <1>2, SeqDef DEF N
<1>17. Grammar!Fields(line, sep) = ts BY <1>12, <1>15, <1>16
<1> QED BY <1>17 DEF line, r

(* The grammar finds the header and the records between the marks.           *)
LEMMA FileText ==
  ASSUME NEW f \in Seq(Characters), NEW h \in Seq(Seq(Characters)),
         NEW rs \in Seq(Seq(Seq(Characters))), NEW sep \in Characters, NEW mark,
         FileAt(f, h, rs, sep, mark), sep \notin {Quote, EndOfLine},
         Len(h) # 0, \A k \in 1..Len(rs) : Len(rs[k]) # 0
  PROVE  Grammar!Header(f) = h /\ Grammar!Records(f, sep) = rs
<1> DEFINE K == Len(rs)
           n == K + 1
           e == [k \in 0..n |-> IF k = 0 THEN 0 ELSE mark[k - 1]]
           lines == [i \in 1..n |-> SubSeq(f, e[i - 1] + 1, e[i] - 1)]
<1>1. /\ mark \in [0..K -> Nat] /\ Len(f) = mark[K]
      /\ RecordAt(f, 0, mark[0], h, Comma)
      /\ \A k \in 1..K : RecordAt(f, mark[k - 1], mark[k], rs[k], sep)
  BY DEF FileAt
<1>2. K \in Nat /\ \A k \in 1..K : Len(rs[k]) # 0 BY LenProperties
<1>3. \A k \in 0..K : ~Odd(f, mark[k] + 1) /\ mark[k] <= Len(f) /\ mark[k] \in Nat
  BY <1>2, FileLines
<1>4. Comma \in Characters /\ Comma \notin {Quote, EndOfLine} BY CharactersDiffer
<1>5. ~Odd(f, 0 + 1)
  <2>1. 0 + 1 = 1 OBVIOUS
  <2> QED BY <2>1, ParityStart
<1> HIDE DEF K
<1>6. /\ n \in Nat /\ e \in [0..n -> Nat] /\ e[0] = 0 /\ e[1] = mark[0]
      /\ \A k \in 1..n : e[k] = mark[k - 1]
  <2>1. \A k \in 0..n : k = 0 \/ k - 1 \in 0..K BY <1>2
  <2>2. \A k \in 0..n : (IF k = 0 THEN 0 ELSE mark[k - 1]) \in Nat BY <1>1, <2>1
  <2>3. 0 \in 0..n /\ 1 \in 0..n /\ 1 - 1 = 0 BY <1>2
  <2>4. \A k \in 1..n : k \in 0..n /\ k # 0 BY <1>2
  <2> QED BY <1>2, <2>2, <2>3, <2>4
<1> HIDE DEF e
<1>7. Cut(f, EndOfLine, e[0], e[1])
      /\ Grammar!Fields(SubSeq(f, e[0] + 1, e[1] - 1), Comma) = h
  BY <1>1, <1>4, <1>5, <1>6, RecordCut, LineFields
<1>8. ASSUME NEW k \in 1..K
      PROVE  /\ Cut(f, EndOfLine, e[k], e[k + 1])
             /\ Grammar!Fields(SubSeq(f, e[k] + 1, e[k + 1] - 1), sep) = rs[k]
  <2>1. k \in 1..n /\ k + 1 \in 1..n /\ (k + 1) - 1 = k /\ k - 1 \in 0..K BY <1>2
  <2>2. e[k] = mark[k - 1] /\ e[k + 1] = mark[k] BY <1>6, <2>1
  <2>3. RecordAt(f, e[k], e[k + 1], rs[k], sep) BY <1>1, <2>2
  <2>4. ~Odd(f, e[k] + 1) /\ Len(rs[k]) # 0 BY <1>2, <1>3, <2>1, <2>2
  <2> QED BY <2>3, <2>4, RecordCut, LineFields
<1>9. CutBy(f, EndOfLine, n, e)
  <2>1. e[n] = Len(f)
    <3>1. n \in 1..n /\ n - 1 = K BY <1>2
    <3> QED BY <1>1, <1>6, <3>1
  <2>2. ASSUME NEW i \in 1..n PROVE Cut(f, EndOfLine, e[i - 1], e[i])
    <3>1. CASE i = 1
      <4>1. i - 1 = 0 BY <3>1
      <4> QED BY <1>7, <3>1, <4>1
    <3>2. CASE i # 1
      <4> DEFINE k == i - 1
      <4>1. k \in 1..K /\ k + 1 = i BY <1>2, <3>2
      <4> HIDE DEF k
      <4>2. Cut(f, EndOfLine, e[k], e[k + 1]) BY <1>8, <4>1
      <4> QED BY <4>1, <4>2 DEF k
    <3> QED BY <3>1, <3>2
  <2> QED BY <1>6, <2>1, <2>2 DEF CutBy
<1>10. Grammar!Lines(f) = lines
  <2> HIDE DEF n
  <2>1. n \in Nat BY <1>6
  <2>2. Grammar!Pieces(f, EndOfLine) = [i \in 1..n |-> SubSeq(f, e[i - 1] + 1, e[i] - 1)]
    BY <1>9, <2>1, PiecesAt
  <2>3. Grammar!Pieces(f, EndOfLine) = lines BY <2>2 DEF lines
  <2> HIDE DEF lines
  <2> QED BY <2>3 DEF Grammar!Lines
<1>11. DOMAIN lines = 1..n /\ \A i \in 1..n : lines[i] = SubSeq(f, e[i - 1] + 1, e[i] - 1)
  OBVIOUS
<1> HIDE DEF lines
<1>12. lines \in Seq(Seq(Characters)) /\ Len(lines) = n
  <2>1. \A i \in 1..n : SubSeq(f, e[i - 1] + 1, e[i] - 1) \in Seq(Characters)
    <3> SUFFICES ASSUME NEW i \in 1..n
        PROVE  SubSeq(f, e[i - 1] + 1, e[i] - 1) \in Seq(Characters)
      OBVIOUS
    <3> DEFINE u == e[i - 1]
               v == e[i]
               w == v - 1
    <3>1. u \in Nat /\ v \in Nat /\ u < v /\ v <= Len(f)
      <4>1. i - 1 \in 0..n /\ i \in 0..n /\ i - 1 \in 0..K BY <1>2
      <4>2. u \in Nat /\ v \in Nat BY <1>6, <4>1
      <4>3. v = mark[i - 1] BY <1>6
      <4>4. u < v BY <1>9 DEF CutBy, Cut
      <4> QED BY <1>3, <4>1, <4>2, <4>3, <4>4
    <3>2. Len(f) \in Nat BY LenProperties
    <3> HIDE DEF u, v
    <3>3. w \in Nat /\ u <= w /\ w <= Len(f) BY <3>1, <3>2
    <3> HIDE DEF w
    <3>4. SubSeq(f, u + 1, w) \in Seq(Characters) BY <3>1, <3>3, PartOf
    <3> QED BY <3>4 DEF u, v, w
  <2>2. \A i \in 1..n : lines[i] \in Seq(Characters) BY <1>11, <2>1
  <2>3. lines = [i \in 1..n |-> SubSeq(f, e[i - 1] + 1, e[i] - 1)] BY DEF lines
  <2>4. lines \in [1..n -> Seq(Characters)] BY <2>1, <2>3
  <2>5. lines \in Seq(Seq(Characters)) BY <1>6, <2>4, FunctionIsSeq
  <2> QED BY <1>6, <1>11, <2>5, LenProperties
<1>13. Grammar!Header(f) = h
  <2>1. 1 \in 1..n /\ 1 - 1 = 0 /\ n # 0 BY <1>2
  <2>2. lines # <<>> BY <1>12, <2>1, EmptySeq
  <2>3. lines[1] = SubSeq(f, e[0] + 1, e[1] - 1) BY <1>11, <2>1
  <2>4. Grammar!Fields(lines[1], Comma) = h BY <1>7, <2>3
  <2> QED BY <1>10, <2>2, <2>4 DEF Grammar!Header
<1>14. Grammar!Records(f, sep) = rs
  <2>1. Grammar!Records(f, sep) = [i \in 1..Len(lines) - 1 |-> Grammar!Fields(lines[i + 1], sep)]
    BY <1>10 DEF Grammar!Records
  <2>2. Len(lines) - 1 = K BY <1>2, <1>12
  <2>3. ASSUME NEW i \in 1..K PROVE Grammar!Fields(lines[i + 1], sep) = rs[i]
    <3> DEFINE j == i + 1
    <3>1. j \in 1..n /\ j - 1 = i BY <1>2
    <3> HIDE DEF j
    <3>2. lines[j] = SubSeq(f, e[i] + 1, e[j] - 1) BY <1>11, <3>1
    <3>3. Grammar!Fields(SubSeq(f, e[i] + 1, e[j] - 1), sep) = rs[i] BY <1>8 DEF j
    <3>4. Grammar!Fields(lines[j], sep) = rs[i] BY <3>2, <3>3
    <3> QED BY <3>4 DEF j
  <2>4. rs = [i \in 1..K |-> rs[i]] BY SeqDef DEF K
  <2> QED BY <2>1, <2>2, <2>3, <2>4
<1> QED BY <1>13, <1>14

(* FileHoldsRecords: what CsvWriteHeader and CsvWriteNextRecord leave in the *)
(* file is, by a definition of CSV text that shares nothing with the reader, *)
(* the header and the records that the host wrote, each with as many fields  *)
(* as the header, whatever their texts, the separator and the options are.   *)
THEOREM FileHoldsWhatWasWritten == Regular => (Spec => []FileHoldsRecords)
<1> SUFFICES ASSUME Regular PROVE Spec => []FileHoldsRecords OBVIOUS
<1>1. TypeInv /\ StreamInv => FileHoldsRecords
  <2> SUFFICES ASSUME TypeInv, StreamInv, file # <<>>
               PROVE  /\ Grammar!Header(file) = written.header
                      /\ \A k \in DOMAIN written.records :
                           Len(written.records[k]) = Len(written.header)
                      /\ Grammar!Records(file, RecordSeparator) = written.records
    BY DEF FileHoldsRecords
  <2> DEFINE h == written.header
             rs == written.records
             sep == RecordSeparator
  <2>1. RecordsInv /\ sep \notin {Quote, EndOfLine} BY DEF StreamInv
  <2>2. PICK mark : FileAt(file, h, rs, sep, mark) BY <2>1 DEF RecordsInv, Marked
  <2>3. h \in Headers /\ \A k \in 1..Len(rs) : Len(rs[k]) = Len(h) BY <2>1 DEF RecordsInv
  <2>4. h \in Seq(Seq(Characters)) /\ Len(h) # 0 BY <2>3, HeaderFacts
  <2>5. file \in Seq(Characters) /\ rs \in Seq(Seq(Texts)) /\ sep \in Characters
    <3>1. Separators \cup {Comma} \subseteq Characters BY HostAssumption, CharactersDiffer
    <3> QED BY <3>1 DEF TypeInv, FileInv, RecordSeparator
  <2>6. rs \in Seq(Seq(Seq(Characters)))
    <3>1. Texts \subseteq Seq(Characters) BY HostAssumption
    <3>2. \A k \in 1..Len(rs) : rs[k] \in Seq(Texts) BY <2>5, ElementOfSeq
    <3>3. \A k \in 1..Len(rs) : rs[k] \in Seq(Seq(Characters)) BY <3>1, <3>2, SeqDef
    <3>4. Len(rs) \in Nat /\ rs \in [1..Len(rs) -> Seq(Texts)] BY <2>5, LenProperties
    <3>5. rs \in [1..Len(rs) -> Seq(Seq(Characters))] BY <3>3, <3>4
    <3> QED BY <3>4, <3>5, FunctionIsSeq
  <2>7. DOMAIN rs = 1..Len(rs) BY <2>5, LenProperties
  <2> HIDE DEF h, rs, sep
  <2>8. \A k \in 1..Len(rs) : Len(rs[k]) # 0 BY <2>3, <2>4
  <2>9. Grammar!Header(file) = h /\ Grammar!Records(file, sep) = rs
    BY <2>1, <2>2, <2>4, <2>5, <2>6, <2>8, FileText
  <2> QED BY <2>3, <2>7, <2>9 DEF h, rs, sep
<1> QED BY <1>1, StreamHolds, TypesHold, PTL
=============================================================================
