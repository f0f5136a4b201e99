--------------------------- MODULE GetoptRescanProofs ---------------------------
(***************************************************************************)
(* Proof that a scan can be repeated on the argv that it has left: the     *)
(* next one returns the same. It is about the reader of GetoptReading,     *)
(* which Getopt implements: no exchange is in sight here.                  *)
(***************************************************************************)
EXTENDS GetoptProofs, FiniteSetTheorems

-----------------------------------------------------------------------------
(* The arguments a scan has read, without the words it has set aside.       *)

LEMMA OntoIsInjective ==
  ASSUME NEW N \in Nat, NEW g, Onto(N, g)
  PROVE  \A i, j \in 1..N : g[i] = g[j] => i = j
<1>1. IsFiniteSet(1..N)
  BY FS_Interval
<1>2. g \in Surjection(1..N, 1..N)
  BY DEF Onto, Surjection
<1>3. g \in Injection(1..N, 1..N)
  BY <1>1, <1>2, FS_SurjSameCardinalityImpliesInj
<1>4. QED
  BY <1>3 DEF Injection, IsInjective

(* Of the arguments g[1..end], those in q were read and those in ws are     *)
(* words; q has the order of g.                                             *)
InSequence(N, g, q) ==
  \A i, j \in DOMAIN q : i < j => \E k, l \in 1..N : k < l /\ g[k] = q[i] /\ g[l] = q[j]
Parted(g, end, q, ws) ==
  /\ Len(q) + Len(ws) = end
  /\ \A i \in DOMAIN q : \E k \in 1..end : g[k] = q[i]
  /\ \A i \in DOMAIN ws : \E k \in 1..end : g[k] = ws[i]
  /\ \A k \in 1..end : (\E i \in DOMAIN q : q[i] = g[k]) \/ (\E i \in DOMAIN ws : ws[i] = g[k])
  /\ \A i \in DOMAIN q, j \in DOMAIN ws : q[i] # ws[j]
Squeezed(N, g, end, q, ws) ==
  /\ q \in Seq(1..N) /\ ws \in Seq(1..N)
  /\ InSequence(N, g, q) /\ Parted(g, end, q, ws)

LEMMA NothingSqueezed ==
  ASSUME NEW N \in Nat, NEW g
  PROVE  Squeezed(N, g, 0, <<>>, <<>>)
<1>1. <<>> \in Seq(1..N) /\ Len(<<>>) = 0 /\ DOMAIN <<>> = {}
  OBVIOUS
<1>2. QED
  BY <1>1 DEF Squeezed, InSequence, Parted

LEMMA SqueezedFacts ==
  ASSUME NEW N, NEW g, NEW end, NEW q, NEW ws, Squeezed(N, g, end, q, ws)
  PROVE  /\ q \in Seq(1..N) /\ Len(q) \in Nat /\ DOMAIN q = 1..Len(q)
         /\ ws \in Seq(1..N) /\ Len(ws) \in Nat /\ DOMAIN ws = 1..Len(ws)
         /\ InSequence(N, g, q) /\ Parted(g, end, q, ws) /\ Len(q) + Len(ws) = end
<1>1. q \in Seq(1..N) /\ ws \in Seq(1..N) /\ InSequence(N, g, q) /\ Parted(g, end, q, ws)
  BY DEF Squeezed
<1>2. \A s \in Seq(1..N) : Len(s) \in Nat /\ DOMAIN s = 1..Len(s)
  OBVIOUS
<1>3. QED
  BY <1>1, <1>2 DEF Parted

LEMMA SqueezedReads ==
  ASSUME NEW N \in Nat, NEW g, Onto(N, g), NEW q, NEW ws, NEW end \in Nat, end < N,
         Squeezed(N, g, end, q, ws)
  PROVE  Squeezed(N, g, end + 1, Append(q, g[end + 1]), ws)
<1> DEFINE e == g[end + 1]
           p == Append(q, e)
<1>1. /\ q \in Seq(1..N) /\ ws \in Seq(1..N) /\ InSequence(N, g, q) /\ Parted(g, end, q, ws)
      /\ Len(q) \in Nat /\ Len(ws) \in Nat /\ DOMAIN q = 1..Len(q) /\ DOMAIN ws = 1..Len(ws)
      /\ Len(q) + Len(ws) = end /\ end + 1 \in 1..N /\ end \in Nat
  BY SqueezedFacts
<1>2. e \in 1..N
  BY <1>1 DEF Onto
<1> HIDE DEF e
<1>3. /\ p \in Seq(1..N) /\ Len(p) = Len(q) + 1 /\ DOMAIN p = 1..Len(q) + 1
      /\ p[Len(q) + 1] = e /\ \A i \in 1..Len(q) : p[i] = q[i]
  BY <1>1, <1>2
<1> HIDE DEF p
<1>4. \A k \in 1..end : g[k] # e
  BY <1>1, OntoIsInjective DEF e
<1>5. \A i \in DOMAIN q : \E k \in 1..end : g[k] = q[i]
  BY <1>1 DEF Parted
<1>6. InSequence(N, g, p)
  <2>1. ASSUME NEW i \in 1..Len(q) + 1, NEW j \in 1..Len(q) + 1, i < j
        PROVE  \E k, l \in 1..N : k < l /\ g[k] = p[i] /\ g[l] = p[j]
    <3>1. CASE j = Len(q) + 1
      <4>1. i \in 1..Len(q)
        BY <1>1, <2>1, <3>1
      <4>2. PICK k \in 1..end : g[k] = q[i]
        BY <1>1, <1>5, <4>1
      <4>3. k \in 1..N /\ k < end + 1 /\ g[k] = p[i] /\ g[end + 1] = p[j]
        BY <1>1, <1>3, <3>1, <4>1, <4>2 DEF e
      <4>4. QED
        BY <1>1, <4>3
    <3>2. CASE j # Len(q) + 1
      <4>1. i \in 1..Len(q) /\ j \in 1..Len(q)
        <5>1. Len(q) \in Nat
          BY <1>1
        <5>2. QED
          BY <2>1, <3>2, <5>1
      <4>2. \E k, l \in 1..N : k < l /\ g[k] = q[i] /\ g[l] = q[j]
        <5>1. i \in DOMAIN q /\ j \in DOMAIN q /\ i < j
          BY <1>1, <2>1, <4>1
        <5>2. QED
          BY <1>1, <5>1 DEF InSequence
      <4>3. QED
        BY <1>3, <4>1, <4>2
    <3>3. QED
      BY <3>1, <3>2
  <2>2. \A i, j \in DOMAIN p : i < j => \E k, l \in 1..N : k < l /\ g[k] = p[i] /\ g[l] = p[j]
    <3>1. DOMAIN p = 1..Len(q) + 1
      BY <1>3
    <3>2. QED
      BY <2>1, <3>1
  <2>3. QED
    BY <2>2 DEF InSequence
<1>7. Parted(g, end + 1, p, ws)
  <2>1. Len(p) + Len(ws) = end + 1
    BY <1>1, <1>3
  <2>2. ASSUME NEW i \in 1..Len(q) + 1
        PROVE  (\E k \in 1..end + 1 : g[k] = p[i]) /\ \A j \in DOMAIN ws : p[i] # ws[j]
    <3>1. CASE i = Len(q) + 1
      <4>1. p[i] = e /\ g[end + 1] = e /\ end + 1 \in 1..end + 1
        BY <1>1, <1>3, <3>1 DEF e
      <4>2. ASSUME NEW j \in DOMAIN ws PROVE e # ws[j]
        <5>1. PICK k \in 1..end : g[k] = ws[j]
          BY <1>1 DEF Parted
        <5>2. QED
          BY <1>4, <5>1
      <4>3. QED
        BY <4>1, <4>2
    <3>2. CASE i # Len(q) + 1
      <4>1. i \in 1..Len(q) /\ p[i] = q[i]
        BY <1>1, <1>3, <3>2
      <4>2. PICK k \in 1..end : g[k] = q[i]
        BY <1>1, <1>5, <4>1
      <4>3. \A j \in DOMAIN ws : q[i] # ws[j]
        BY <1>1, <4>1 DEF Parted
      <4>4. k \in 1..end + 1
        BY <1>1
      <4>5. QED
        BY <4>1, <4>2, <4>3, <4>4
    <3>3. QED
      BY <3>1, <3>2
  <2>3. \A i \in DOMAIN ws : \E k \in 1..end + 1 : g[k] = ws[i]
    <3>1. \A k \in 1..end : k \in 1..end + 1
      BY <1>1
    <3>2. \A i \in DOMAIN ws : \E k \in 1..end : g[k] = ws[i]
      BY <1>1 DEF Parted
    <3>3. QED
      BY <3>1, <3>2
  <2>4. ASSUME NEW k \in 1..end + 1
        PROVE  (\E i \in DOMAIN p : p[i] = g[k]) \/ (\E i \in DOMAIN ws : ws[i] = g[k])
    <3>1. CASE k = end + 1
      <4>1. Len(q) + 1 \in DOMAIN p /\ p[Len(q) + 1] = g[k]
        BY <1>1, <1>3, <3>1 DEF e
      <4>2. QED
        BY <4>1
    <3>2. CASE k # end + 1
      <4>1. k \in 1..end
        BY <1>1, <3>2
      <4>2. (\E i \in DOMAIN q : q[i] = g[k]) \/ (\E i \in DOMAIN ws : ws[i] = g[k])
        BY <1>1, <4>1 DEF Parted
      <4>3. \A i \in DOMAIN q : i \in DOMAIN p /\ p[i] = q[i]
        BY <1>1, <1>3
      <4>4. QED
        BY <4>2, <4>3
    <3>3. QED
      BY <3>1, <3>2
  <2>5. QED
    BY <1>3, <2>1, <2>2, <2>3, <2>4 DEF Parted
<1>8. QED
  BY <1>1, <1>3, <1>6, <1>7 DEF Squeezed, p, e

(* All that is left of the line is set aside, or a part of it.              *)
LEMMA SqueezedSetsAside ==
  ASSUME NEW N \in Nat, NEW g, Onto(N, g), NEW q, NEW ws, NEW end \in Nat, NEW to \in Nat, end <= to, to <= N,
         Squeezed(N, g, end, q, ws), NEW rest \in Seq(1..N), Len(rest) = to - end,
         \A j \in 1..to - end : rest[j] = g[end + j]
  PROVE  Squeezed(N, g, to, q, ws \o rest)
<1> DEFINE s == ws \o rest
<1>1. /\ q \in Seq(1..N) /\ ws \in Seq(1..N) /\ InSequence(N, g, q) /\ Parted(g, end, q, ws)
      /\ Len(q) \in Nat /\ Len(ws) \in Nat /\ DOMAIN q = 1..Len(q) /\ DOMAIN ws = 1..Len(ws)
      /\ Len(q) + Len(ws) = end /\ end \in Nat /\ to \in Nat /\ end <= to /\ to <= N
  BY SqueezedFacts
<1>2. /\ s \in Seq(1..N) /\ Len(s) = Len(ws) + (to - end) /\ DOMAIN s = 1..Len(s)
      /\ \A i \in 1..Len(ws) : s[i] = ws[i]
      /\ \A j \in 1..to - end : s[Len(ws) + j] = g[end + j]
  <2>1. s \in Seq(1..N) /\ Len(s) = Len(ws) + Len(rest)
        /\ \A i \in 1..Len(s) : s[i] = IF i <= Len(ws) THEN ws[i] ELSE rest[i - Len(ws)]
    <3>1. ws \in Seq(1..N)
      BY <1>1
    <3>2. s \in Seq(1..N) /\ Len(s) = Len(ws) + Len(rest)
      BY <3>1, ConcatProperties
    <3>3. \A i \in 1..Len(ws) + Len(rest) : s[i] = IF i <= Len(ws) THEN ws[i] ELSE rest[i - Len(ws)]
      BY <3>1, ConcatProperties
    <3> HIDE DEF s
    <3>4. QED
      BY <3>2, <3>3
  <2> HIDE DEF s
  <2>2. \A j \in 1..to - end : s[Len(ws) + j] = rest[j]
    <3>1. ASSUME NEW j \in 1..to - end, NEW i, i = Len(ws) + j PROVE s[i] = rest[j]
      <4>0. \A w, m \in Nat : \A k \in 1..m :
              w + k \in 1..w + m /\ ~(w + k <= w) /\ w + k - w = k
        OBVIOUS
      <4>5. Len(ws) \in Nat /\ to - end \in Nat /\ Len(s) = Len(ws) + (to - end)
        BY <1>1, <2>1
      <4>1. i \in 1..Len(s) /\ ~(i <= Len(ws)) /\ i - Len(ws) = j
        BY <3>1, <4>0, <4>5
      <4>2. s[i] = rest[i - Len(ws)]
        BY <2>1, <4>1
      <4>3. QED
        BY <4>1, <4>2
    <3>2. QED
      BY <3>1
  <2>5. \A i \in 1..Len(ws) : i \in 1..Len(s) /\ i <= Len(ws)
    BY <1>1, <2>1
  <2>6. DOMAIN s = 1..Len(s)
    BY <2>1
  <2>3. QED
    BY <1>1, <2>1, <2>2, <2>5, <2>6
<1> HIDE DEF s
<1>3. \A k \in 1..end, l \in end + 1..to : g[k] # g[l]
  BY <1>1, OntoIsInjective
<1>4. \A k \in 1..end : k \in 1..to
  BY <1>1
<1>5. \A i \in DOMAIN q : \E k \in 1..to : g[k] = q[i]
  BY <1>1, <1>4 DEF Parted
<1>6. ASSUME NEW i \in DOMAIN s
      PROVE  (\E k \in 1..to : g[k] = s[i]) /\ \A j \in DOMAIN q : q[j] # s[i]
  <2>1. CASE i <= Len(ws)
    <3>1. i \in DOMAIN ws /\ s[i] = ws[i]
      BY <1>1, <1>2, <2>1
    <3>2. (\E k \in 1..end : g[k] = ws[i]) /\ \A j \in DOMAIN q : q[j] # ws[i]
      BY <1>1, <3>1 DEF Parted
    <3>3. QED
      BY <1>4, <3>1, <3>2
  <2>2. CASE i > Len(ws)
    <3> DEFINE l == end + (i - Len(ws))
    <3>1. i - Len(ws) \in 1..to - end /\ Len(ws) + (i - Len(ws)) = i
      <4>1. Len(ws) \in Nat /\ to \in Nat /\ end \in Nat
        BY <1>1
      <4>2. i \in 1..Len(ws) + (to - end)
        BY <1>2
      <4>3. QED
        BY <2>2, <4>1, <4>2
    <3>2. s[i] = g[l] /\ l \in end + 1..to /\ l \in 1..to
      <4>1. s[Len(ws) + (i - Len(ws))] = g[l]
        BY <1>2, <3>1
      <4>2. to \in Nat /\ end \in Nat
        BY <1>1
      <4>3. \A d \in 1..to - end : end + d \in end + 1..to /\ end + d \in 1..to
        BY <4>2
      <4>4. l \in end + 1..to /\ l \in 1..to
        BY <3>1, <4>3
      <4> HIDE DEF l
      <4>5. QED
        BY <3>1, <4>1, <4>4
    <3>3. ASSUME NEW j \in DOMAIN q PROVE q[j] # s[i]
      <4>1. PICK k \in 1..end : g[k] = q[j]
        BY <1>1 DEF Parted
      <4> HIDE DEF l
      <4>2. QED
        BY <1>3, <3>2, <4>1
    <3> HIDE DEF l
    <3>4. QED
      BY <3>2, <3>3
  <2>3. QED
    BY <1>1, <1>2, <2>1, <2>2
<1>7. ASSUME NEW k \in 1..to
      PROVE  (\E i \in DOMAIN q : q[i] = g[k]) \/ (\E i \in DOMAIN s : s[i] = g[k])
  <2>1. CASE k <= end
    <3>1. k \in 1..end
      BY <1>1, <2>1
    <3>2. (\E i \in DOMAIN q : q[i] = g[k]) \/ (\E i \in DOMAIN ws : ws[i] = g[k])
      BY <1>1, <3>1 DEF Parted
    <3>3. \A i \in DOMAIN ws : i \in DOMAIN s /\ s[i] = ws[i]
      <4>1. Len(ws) \in Nat /\ to - end \in Nat /\ DOMAIN ws = 1..Len(ws)
            /\ DOMAIN s = 1..Len(ws) + (to - end)
        BY <1>1, <1>2
      <4>2. \A i \in DOMAIN ws : i \in DOMAIN s
        BY <4>1
      <4>3. \A i \in 1..Len(ws) : s[i] = ws[i]
        BY <1>2
      <4>4. QED
        BY <4>1, <4>2, <4>3
    <3>4. QED
      BY <3>2, <3>3
  <2>2. CASE k > end
    <3>1. k - end \in 1..to - end /\ end + (k - end) = k
      BY <1>1, <2>2
    <3>2. s[Len(ws) + (k - end)] = g[end + (k - end)]
      BY <1>2, <3>1
    <3>3. Len(ws) + (k - end) \in DOMAIN s
      BY <1>1, <1>2, <3>1
    <3>4. QED
      BY <3>1, <3>2, <3>3
  <2>3. QED
    BY <1>1, <2>1, <2>2
<1>8. Len(q) + Len(s) = to
  <2>1. Len(q) \in Nat /\ Len(ws) \in Nat /\ end \in Nat /\ to \in Nat
        /\ Len(q) + Len(ws) = end
    BY <1>1
  <2>2. Len(s) = Len(ws) + (to - end)
    BY <1>2
  <2>3. \A k, l, m, n \in Nat : k + l = m => k + (l + (n - m)) = n
    OBVIOUS
  <2>4. Len(q) + (Len(ws) + (to - end)) = to
    BY <2>1, <2>3
  <2>5. QED
    BY <2>2, <2>4
<1>9. QED
  BY <1>1, <1>2, <1>5, <1>6, <1>7, <1>8 DEF Squeezed, Parted, s

LEMMA LeastIn ==
  ASSUME NEW S, S \subseteq Nat, S # {}
  PROVE  \E n \in S : \A j \in S : n <= j
<1> DEFINE R == OpToRel(<, Nat)
<1>1. R = {ss \in Nat \X Nat : ss[1] < ss[2]}
  BY DEF OpToRel
<1>2. IsWellFoundedOn(R, Nat)
  BY NatLessThanWellFounded
<1> HIDE DEF R
<1>3. PICK x \in S : \A y \in S : ~(<<y, x>> \in R)
  BY <1>2, WFMin
<1>4. \A j \in S : ~(j < x)
  BY <1>1, <1>3
<1>5. QED
  BY <1>3, <1>4

(* The first n arguments of h have the order of g.                          *)
FrontInOrder(N, g, h, n) ==
  \A i, j \in 1..n : i < j => \E k, l \in 1..N : k < l /\ g[k] = h[i] /\ g[l] = h[j]

(* However the arguments read are put in front in their order, it is q.     *)
LEMMA SqueezedIsUnique ==
  ASSUME NEW N \in Nat, NEW g, Onto(N, g), NEW q, NEW ws, Squeezed(N, g, N, q, ws),
         NEW h, Onto(N, h), FrontInOrder(N, g, h, Len(q)),
         \A i \in 1..Len(ws) : h[Len(q) + i] = ws[i]
  PROVE  \A i \in 1..Len(q) : h[i] = q[i]
<1> DEFINE l == Len(q)
           Bad == {i \in 1..l : h[i] # q[i]}
<1>1. /\ q \in Seq(1..N) /\ l \in Nat /\ DOMAIN q = 1..l
      /\ Len(ws) \in Nat /\ DOMAIN ws = 1..Len(ws) /\ l + Len(ws) = N
  BY SqueezedFacts
<1>d. DOMAIN q = 1..l /\ DOMAIN ws = 1..Len(ws)
  BY <1>1
<1>2. InSequence(N, g, q) /\ Parted(g, N, q, ws)
  BY SqueezedFacts
<1>3. \A i, j \in 1..N : (g[i] = g[j] => i = j) /\ (h[i] = h[j] => i = j)
  BY OntoIsInjective
<1>4. \A i \in 1..l : i \in 1..N
  BY <1>1
<1>5. ASSUME NEW i \in 1..l PROVE \E j \in 1..l : q[j] = h[i]
  <2>1. PICK k \in 1..N : g[k] = h[i]
    BY <1>4 DEF Onto
  <2>2. \A j \in DOMAIN ws : ws[j] # g[k]
    <3>1. \A j \in 1..Len(ws) : l + j \in 1..N /\ l + j # i
      BY <1>1
    <3>2. \A j \in 1..Len(ws) : h[l + j] # h[i]
      BY <1>3, <1>4, <3>1
    <3>3. \A j \in 1..Len(ws) : h[l + j] = ws[j]
      OBVIOUS
    <3>4. \A j \in 1..Len(ws) : ws[j] # g[k]
      BY <2>1, <3>2, <3>3
    <3>5. QED
      BY <1>d, <3>4
  <2>3. (\E j \in DOMAIN q : q[j] = g[k]) \/ (\E j \in DOMAIN ws : ws[j] = g[k])
    BY <1>2 DEF Parted
  <2>4. QED
    BY <1>d, <2>1, <2>2, <2>3
<1>6. ASSUME NEW i \in 1..l PROVE \E j \in 1..l : h[j] = q[i]
  <2>1. q[i] \in 1..N
    BY <1>1
  <2>2. PICK j \in 1..N : h[j] = q[i]
    BY <2>1 DEF Onto
  <2>3. ~(j > l)
    <3> SUFFICES ASSUME j > l PROVE FALSE
      OBVIOUS
    <3>1. j - l \in 1..Len(ws) /\ l + (j - l) = j
      BY <1>1
    <3>2. h[l + (j - l)] = ws[j - l]
      BY <3>1
    <3>3. q[i] = ws[j - l] /\ i \in DOMAIN q /\ j - l \in DOMAIN ws
      BY <1>1, <2>2, <3>1, <3>2
    <3>4. QED
      BY <1>2, <3>3 DEF Parted
  <2>4. j \in 1..l
    BY <1>1, <2>3
  <2>5. QED
    BY <2>2, <2>4
<1>7. ASSUME NEW i \in 1..l, NEW j \in 1..l, i < j
      PROVE  \E k, m \in 1..N : k < m /\ g[k] = q[i] /\ g[m] = q[j]
  <2>1. i \in DOMAIN q /\ j \in DOMAIN q
    BY <1>d
  <2>2. QED
    BY <1>2, <1>7, <2>1 DEF InSequence
<1>8. ASSUME Bad # {} PROVE FALSE
  <2>1. PICK x \in Bad : \A j \in Bad : x <= j
    <3>1. Bad \subseteq Nat
      BY <1>1
    <3> HIDE DEF Bad
    <3>2. QED
      BY <1>8, <3>1, LeastIn
  <2>2. x \in 1..l /\ h[x] # q[x] /\ \A j \in 1..l : j < x => h[j] = q[j]
    BY <1>1, <2>1
  <2> HIDE DEF Bad
  <2>3. PICK j \in 1..l : q[j] = h[x]
    BY <1>5, <2>2
  <2>4. PICK m \in 1..l : h[m] = q[x]
    BY <1>6, <2>2
  <2>5. j > x
    <3>1. j # x
      BY <2>2, <2>3
    <3>2. ~(j < x)
      BY <1>3, <1>4, <2>2, <2>3, <3>1
    <3>3. QED
      BY <1>1, <2>2, <3>1, <3>2
  <2>6. m > x
    <3>1. m # x
      BY <2>2, <2>4
    <3>2. ASSUME m < x PROVE FALSE
      <4>1. q[m] = q[x]
        BY <2>2, <2>4, <3>2
      <4>2. \E k, n \in 1..N : k < n /\ g[k] = q[m] /\ g[n] = q[x]
        BY <1>7, <2>2, <3>2
      <4>3. QED
        BY <1>3, <4>1, <4>2
    <3>3. QED
      BY <1>1, <2>2, <3>1, <3>2
  <2>7. PICK a \in 1..N, b \in 1..N : a < b /\ g[a] = q[x] /\ g[b] = q[j]
    BY <1>7, <2>2, <2>5
  <2>8. PICK d \in 1..N, e \in 1..N : d < e /\ g[d] = h[x] /\ g[e] = h[m]
    BY <2>2, <2>6 DEF FrontInOrder
  <2>9. b = d /\ a = e
    BY <1>3, <2>3, <2>4, <2>7, <2>8
  <2>10. QED
    BY <2>7, <2>8, <2>9
<1>9. QED
  BY <1>8

-----------------------------------------------------------------------------
(* One reading. Where an argument is does not matter: d places further on   *)
(* it is read as here, as long as it is not mistaken.                       *)
Shifted(r, s, i, d) ==
  /\ s.option = r.option /\ s.nextchar = r.nextchar
  /\ r.optind \in i + d..i + d + 2 /\ s.optind + d = r.optind /\ s.optind \in i..i + 2
  /\ s.arg = NoArg <=> r.arg = NoArg
  /\ r.arg # NoArg =>
       /\ s.arg[2] = r.arg[2]
       /\ \/ r.arg[1] = i + d /\ s.arg[1] = i
          \/ r.arg[1] = i + d + 1 /\ s.arg[1] = i + 1 /\ r.optind = i + d + 2

LEMMA OptionAtShifts ==
  ASSUME NEW f, NEW a, NEW i \in Nat, NEW d \in Nat, NEW end \in Nat, NEW k,
         OptionAt(f, a, i + d, k, end).option # Unknown
  PROVE  Shifted(OptionAt(f, a, i + d, k, end), OptionAt(f, a, i, k, end), i, d)
<1> DEFINE Fits(r, s) == r.option # Unknown => Shifted(r, s, i, d)
<1>1. \A o : Fits(Result(o, NoArg, i + d + 1, Null), Result(o, NoArg, i + 1, Null))
  BY DEF Shifted, Result
<1>2. \A o, n : Fits(Result(o, NoArg, i + d, n), Result(o, NoArg, i, n))
  BY DEF Shifted, Result
<1>3. \A o, p : Fits(Result(o, <<i + d, p>>, i + d + 1, Null), Result(o, <<i, p>>, i + 1, Null))
  BY DEF Shifted, Result, NoArg
<1>4. \A o : Fits(TakesNext(o, i + d, end), TakesNext(o, i, end))
  <2> TAKE o
  <2>1. CASE i + d + 1 < end
    <3>1. i + 1 < end
      BY <2>1
    <3>2. QED
      BY <2>1, <3>1 DEF Shifted, TakesNext, Result, NoArg
  <2>2. CASE ~(i + d + 1 < end)
    BY <2>2 DEF TakesNext, Result
  <2>3. QED
    BY <2>1, <2>2
<1> HIDE DEF Fits
<1>5. \A letters : Fits(ShortResult(letters, i + d, k, end), ShortResult(letters, i, k, end))
  BY <1>1, <1>2, <1>3, <1>4 DEF ShortResult
<1>6. \A found : Fits(LongResult(found, a, i + d, end), LongResult(found, a, i, end))
  BY <1>1, <1>3, <1>4 DEF LongResult
<1>7. Fits(OptionAt(f, a, i + d, k, end), OptionAt(f, a, i, k, end))
  BY <1>5, <1>6 DEF OptionAt
<1>8. QED
  BY <1>7 DEF Fits

-----------------------------------------------------------------------------
(* The trace of a scan. A state is where the reader is, counted without the *)
(* words set aside, and its nextchar; c is the setting of the scan, and of  *)
(* the sequence q of arguments only the first l are looked at.              *)
KindOf(c, v) == c[1][v].kind
Agree(D, p, q) == \A i \in D : p[i] = q[i]
Letter(n) == IF n = Null THEN 1 ELSE n
ReadAt(c, N, q, p, k) ==
  IF KindOf(c, q[p]) = "word" THEN Result("word", <<p, 0>>, p + 1, Null)
  ELSE OptionAt(c[2], c[1][q[p]], p, k, N + 1)
ToldAs(q, r) ==
  Answer(r.option, IF r.arg = NoArg THEN NoArg ELSE <<q[r.arg[1]], r.arg[2]>>, <<>>)
OneRead(c, N, q, l, s, t, answer) ==
  /\ s[1] \in 1..l /\ KindOf(c, q[s[1]]) # "dashes"
  /\ KindOf(c, q[s[1]]) = "word" => c[3] = "RETURN_IN_ORDER"
  /\ \E r \in {ReadAt(c, N, q, s[1], Letter(s[2]))} :
       /\ r.arg # NoArg => r.arg[1] \in 1..l
       /\ answer = ToldAs(q, r) /\ t = <<r.optind, r.nextchar>>
Traced(c, N, q, l, st, answers, M) ==
  /\ st[0] = <<1, Null>>
  /\ \A m \in 1..M : OneRead(c, N, q, l, st[m - 1], st[m], answers[m])

Reaches(c, N, q, l, answers, t) ==
  \E st : Traced(c, N, q, l, st, answers, Len(answers)) /\ st[Len(answers)] = t

LEMMA TracedRead ==
  ASSUME NEW c, NEW N, NEW q, NEW l, NEW st, NEW answers, NEW M \in Int, NEW m \in Nat, m < M,
         Traced(c, N, q, l, st, answers, M)
  PROVE  OneRead(c, N, q, l, st[m], st[m + 1], answers[m + 1])
<1>1. ASSUME NEW k \in 1..M, k - 1 = m PROVE OneRead(c, N, q, l, st[m], st[k], answers[k])
  BY <1>1 DEF Traced
<1>2. m + 1 \in 1..M /\ m + 1 - 1 = m
  OBVIOUS
<1>3. QED
  BY <1>1, <1>2

LEMMA OneReadCarries ==
  ASSUME NEW c, NEW N, NEW q, NEW h, NEW l \in Nat, NEW n \in Nat, l <= n,
         Agree(1..l, h, q), NEW s, NEW t, NEW answer, OneRead(c, N, q, l, s, t, answer)
  PROVE  OneRead(c, N, h, n, s, t, answer)
<1> DEFINE r == ReadAt(c, N, q, s[1], Letter(s[2]))
<1>1. /\ s[1] \in 1..l /\ h[s[1]] = q[s[1]]
      /\ r.arg # NoArg => r.arg[1] \in 1..l
      /\ answer = ToldAs(q, r) /\ t = <<r.optind, r.nextchar>>
  BY DEF OneRead, Agree
<1>2. ReadAt(c, N, h, s[1], Letter(s[2])) = r
  BY <1>1 DEF ReadAt
<1> HIDE DEF r
<1>3. ToldAs(h, r) = ToldAs(q, r)
  BY <1>1 DEF ToldAs, Agree
<1>4. \A i \in 1..l : i \in 1..n
  OBVIOUS
<1>5. QED
  BY <1>1, <1>2, <1>3, <1>4 DEF OneRead

LEMMA TracedCarries ==
  ASSUME NEW c, NEW N, NEW q, NEW h, NEW l \in Nat, NEW n \in Nat, l <= n,
         Agree(1..l, h, q), NEW M \in Nat, NEW st, NEW su, NEW answers, NEW others,
         Agree(0..M, su, st), Agree(1..M, others, answers),
         Traced(c, N, q, l, st, answers, M)
  PROVE  Traced(c, N, h, n, su, others, M)
<1>1. su[0] = <<1, Null>>
  BY DEF Traced, Agree
<1>2. ASSUME NEW m \in 1..M PROVE OneRead(c, N, h, n, su[m - 1], su[m], others[m])
  <2>1. OneRead(c, N, q, l, st[m - 1], st[m], answers[m])
    BY DEF Traced
  <2>2. su[m - 1] = st[m - 1] /\ su[m] = st[m] /\ others[m] = answers[m]
    <3>1. m - 1 \in 0..M /\ m \in 0..M
      OBVIOUS
    <3>2. QED
      BY <3>1 DEF Agree
  <2>3. QED
    BY <2>1, <2>2, OneReadCarries
<1>3. QED
  BY <1>1, <1>2 DEF Traced

(* One more reading.                                                        *)
LEMMA TracedFurther ==
  ASSUME NEW c, NEW N, NEW q, NEW h, NEW l \in Nat, NEW n \in Nat, l <= n,
         Agree(1..l, h, q), NEW st, NEW answers, IsSeq(answers), NEW t, NEW answer,
         Traced(c, N, q, l, st, answers, Len(answers)),
         OneRead(c, N, h, n, st[Len(answers)], t, answer)
  PROVE  Reaches(c, N, h, n, Append(answers, answer), t)
<1> DEFINE M == Len(answers)
           su == [m \in 0..M + 1 |-> IF m = M + 1 THEN t ELSE st[m]]
           others == Append(answers, answer)
<1>1. M \in Nat /\ others[M + 1] = answer /\ \A m \in 1..M : others[m] = answers[m]
  BY Appended
<1>2. su[M + 1] = t /\ \A m \in 0..M : su[m] = st[m]
  BY <1>1
<1> HIDE DEF su, others
<1>3. Traced(c, N, h, n, su, others, M)
  <2>1. Agree(0..M, su, st) /\ Agree(1..M, others, answers)
    BY <1>1, <1>2 DEF Agree
  <2>2. QED
    BY <1>1, <2>1, TracedCarries DEF M
<1>4. OneRead(c, N, h, n, su[M], su[M + 1], others[M + 1])
  <2>1. su[M] = st[M]
    BY <1>1, <1>2
  <2>2. QED
    BY <1>1, <1>2, <2>1
<1>5. Traced(c, N, h, n, su, others, M + 1)
  <2>1. ASSUME NEW m \in 1..M + 1 PROVE OneRead(c, N, h, n, su[m - 1], su[m], others[m])
    <3>1. CASE m = M + 1
      <4>1. m - 1 = M
        BY <1>1, <3>1
      <4>2. QED
        BY <1>4, <3>1, <4>1
    <3>2. CASE m # M + 1
      <4>1. m \in 1..M
        BY <1>1, <3>2
      <4>2. QED
        BY <1>3, <4>1 DEF Traced
    <3>3. QED
      BY <3>1, <3>2
  <2>2. QED
    BY <1>3, <2>1 DEF Traced
<1>6. Len(Append(answers, answer)) = M + 1
  BY Appended
<1>7. QED
  BY <1>2, <1>5, <1>6 DEF others, Reaches

-----------------------------------------------------------------------------
(* The trace of the scan that runs: g is given, n the place of the reader,  *)
(* nc its nextchar, ws what it has set aside.                               *)
AllKnown(answers) == \A i \in DOMAIN answers : answers[i].option # Unknown
AllWords(c, ws) == \A i \in DOMAIN ws : KindOf(c, ws[i]) = "word"
Words(c, ws) == IF c[3] = "PERMUTE" THEN AllWords(c, ws) ELSE ws = <<>>

Standing(c, N, g, n, nc, q, ws, s) ==
  \/ nc = Null /\ s = <<Len(q) + 1, Null>> /\ Words(c, ws)
  \/ /\ nc # Null /\ Len(q) # 0 /\ q[Len(q)] = g[n] /\ Words(c, ws)
     /\ KindOf(c, g[n]) \notin {"word", "dashes"}
     /\ s[1] = Len(q) /\ Letter(s[2]) = nc
  \/ /\ nc = Null /\ n = N + 1 /\ Len(q) # 0 /\ KindOf(c, q[Len(q)]) = "dashes"
     /\ s = <<Len(q), Null>>
CurrentBy(c, N, g, n, nc, ws, answers, q, st) ==
  /\ Squeezed(N, g, IF nc = Null THEN n - 1 ELSE n, q, ws)
  /\ Traced(c, N, q, Len(q), st, answers, Len(answers))
  /\ Standing(c, N, g, n, nc, q, ws, st[Len(answers)])
CurrentTrace(c, N, g, n, nc, ws, answers) ==
  \E q, st : CurrentBy(c, N, g, n, nc, ws, answers, q, st)

(* Where a scan stops: behind "--", or where the ordering says.             *)
Stops(c, ws) ==
  \/ c[3] = "PERMUTE" /\ AllWords(c, ws)
  \/ c[3] = "REQUIRE_ORDER" /\ (ws # <<>> => KindOf(c, ws[1]) = "word")
  \/ c[3] = "RETURN_IN_ORDER" /\ ws = <<>>
Finished(c, q, l, s, ws) ==
  \/ l # 0 /\ KindOf(c, q[l]) = "dashes" /\ s = <<l, Null>>
  \/ s = <<l + 1, Null>> /\ Stops(c, ws)
EndsWith(answers, ws) == answers[Len(answers)] = Answer("end", NoArg, ws)
DoneBy(c, N, g, answers, q, st, ws) ==
  /\ Squeezed(N, g, N, q, ws) /\ Len(answers) # 0 /\ EndsWith(answers, ws)
  /\ Traced(c, N, q, Len(q), st, answers, Len(answers) - 1)
  /\ Finished(c, q, Len(q), st[Len(answers) - 1], ws)
DoneTrace(c, N, g, answers) == \E q, st, ws : DoneBy(c, N, g, answers, q, st, ws)

LEMMA BeginsTraced ==
  ASSUME NEW c, NEW N \in Nat, NEW g
  PROVE  CurrentTrace(c, N, g, 1, Null, <<>>, <<>>)
<1> DEFINE st == [m \in {0} |-> <<1, Null>>]
<1>1. st[0] = <<1, Null>> /\ Len(<<>>) = 0 /\ Null = 0 /\ 1 - 1 = 0
  BY DEF Null
<1> HIDE DEF st
<1>2. Traced(c, N, <<>>, 0, st, <<>>, 0)
  <2>1. 1..0 = {}
    OBVIOUS
  <2>2. QED
    BY <1>1, <2>1 DEF Traced
<1>3. Words(c, <<>>)
  <2>1. DOMAIN <<>> = {}
    OBVIOUS
  <2>2. QED
    BY <2>1 DEF Words, AllWords
<1>4. Squeezed(N, g, 0, <<>>, <<>>)
  BY NothingSqueezed
<1>5. CurrentBy(c, N, g, 1, Null, <<>>, <<>>, <<>>, st)
  BY <1>1, <1>2, <1>3, <1>4 DEF CurrentBy, Standing
<1>6. QED
  BY <1>5 DEF CurrentTrace

LEMMA CurrentFacts ==
  ASSUME NEW c, NEW N, NEW g, NEW n, NEW nc, NEW ws, NEW answers, NEW q, NEW st,
         CurrentBy(c, N, g, n, nc, ws, answers, q, st)
  PROVE  /\ q \in Seq(1..N) /\ Len(q) \in Nat /\ DOMAIN q = 1..Len(q)
         /\ ws \in Seq(1..N) /\ Len(ws) \in Nat /\ DOMAIN ws = 1..Len(ws)
         /\ Len(q) + Len(ws) = IF nc = Null THEN n - 1 ELSE n
BY SqueezedFacts DEF CurrentBy

(* A sequence that is one longer.                                           *)
LEMMA Longer ==
  ASSUME NEW S, NEW q \in Seq(S), NEW e \in S
  PROVE  /\ Append(q, e) \in Seq(S) /\ Len(q) \in Nat /\ Len(Append(q, e)) = Len(q) + 1
         /\ Append(q, e)[Len(q) + 1] = e /\ \A i \in 1..Len(q) : Append(q, e)[i] = q[i]
         /\ Append(q, e) = q \o <<e>>
BY AppendProperties, AppendIsConcat, LenProperties

LEMMA SetAsideTraced ==
  ASSUME NEW c, NEW N \in Nat, NEW g, Onto(N, g), NEW n \in 1..N, NEW ws, NEW answers,
         c[3] = "PERMUTE", KindOf(c, g[n]) = "word",
         CurrentTrace(c, N, g, n, Null, ws, answers)
  PROVE  CurrentTrace(c, N, g, n + 1, Null, Append(ws, g[n]), answers)
<1> DEFINE u == Append(ws, g[n])
<1>1. PICK q, st : CurrentBy(c, N, g, n, Null, ws, answers, q, st)
  BY DEF CurrentTrace
<1>2. n - 1 \in Nat /\ n \in Nat /\ n - 1 <= n /\ n <= N /\ n - (n - 1) = 1 /\ n - 1 + 1 = n
  OBVIOUS
<1>3. g[n] \in 1..N
  BY DEF Onto
<1>4. ws \in Seq(1..N) /\ Len(ws) \in Nat /\ DOMAIN ws = 1..Len(ws)
  BY <1>1, CurrentFacts
<1>5. /\ u \in Seq(1..N) /\ Len(u) = Len(ws) + 1 /\ u[Len(ws) + 1] = g[n]
      /\ \A i \in 1..Len(ws) : u[i] = ws[i]
      /\ u = ws \o <<g[n]>>
  BY <1>3, <1>4, Longer
<1> HIDE DEF u
<1>6. Squeezed(N, g, n, q, u)
  <2>1. Squeezed(N, g, n - 1, q, ws)
    BY <1>1 DEF CurrentBy
  <2>2. <<g[n]>> \in Seq(1..N) /\ Len(<<g[n]>>) = n - (n - 1)
        /\ \A j \in 1..n - (n - 1) : <<g[n]>>[j] = g[n - 1 + j]
    <3>1. <<g[n]>> \in Seq(1..N) /\ Len(<<g[n]>>) = 1 /\ <<g[n]>>[1] = g[n]
      BY <1>3
    <3>2. \A j \in 1..1 : j = 1
      OBVIOUS
    <3>3. QED
      BY <1>2, <3>1, <3>2
  <2>3. Squeezed(N, g, n, q, ws \o <<g[n]>>)
    BY <1>2, <2>1, <2>2, SqueezedSetsAside
  <2>4. QED
    BY <1>5, <2>3
<1>7. st[Len(answers)] = <<Len(q) + 1, Null>> /\ AllWords(c, ws)
  <2>1. n # N + 1
    OBVIOUS
  <2>2. QED
    BY <1>1, <2>1 DEF CurrentBy, Standing, Words
<1>8. AllWords(c, u)
  <2>1. ASSUME NEW i \in DOMAIN u PROVE KindOf(c, u[i]) = "word"
    <3>1. i \in 1..Len(ws) + 1
      BY <1>5
    <3>2. CASE i = Len(ws) + 1
      BY <1>5, <3>2
    <3>3. CASE i # Len(ws) + 1
      <4>1. i \in 1..Len(ws)
        BY <1>4, <3>1, <3>3
      <4>2. QED
        BY <1>4, <1>5, <1>7, <4>1 DEF AllWords
    <3>4. QED
      BY <3>2, <3>3
  <2>2. QED
    BY <2>1 DEF AllWords
<1>9. CurrentBy(c, N, g, n + 1, Null, u, answers, q, st)
  <2>1. n + 1 - 1 = n
    BY <1>2
  <2>2. QED
    BY <1>1, <1>6, <1>7, <1>8, <2>1 DEF CurrentBy, Standing, Words
<1>10. QED
  BY <1>9 DEF CurrentTrace, u

(* The next argument is taken into q.                                       *)
LEMMA TakesNextArgument ==
  ASSUME NEW N \in Nat, NEW g, Onto(N, g), NEW q, NEW ws, NEW n \in 1..N,
         Squeezed(N, g, n - 1, q, ws)
  PROVE  \E p : /\ Squeezed(N, g, n, p, ws)
                /\ Len(q) \in Nat /\ Len(p) = Len(q) + 1 /\ Len(p) \in Nat
                /\ p[Len(q) + 1] = g[n] /\ Agree(1..Len(q), p, q)
<1> DEFINE p == Append(q, g[n])
<1>1. n - 1 \in Nat /\ n - 1 < N /\ n - 1 + 1 = n
  OBVIOUS
<1>2. Squeezed(N, g, n, p, ws)
  BY <1>1, SqueezedReads
<1>3. g[n] \in 1..N
  BY DEF Onto
<1>4. q \in Seq(1..N)
  BY SqueezedFacts
<1>5. Len(q) \in Nat /\ Len(p) = Len(q) + 1
      /\ p[Len(q) + 1] = g[n] /\ \A i \in 1..Len(q) : p[i] = q[i]
  BY <1>3, <1>4, Longer
<1> HIDE DEF p
<1>6. Len(p) \in Nat
  BY <1>5
<1>7. QED
  BY <1>2, <1>5, <1>6 DEF Agree

LEMMA ReturnWordTraced ==
  ASSUME NEW c, NEW N \in Nat, NEW g, Onto(N, g), NEW n \in 1..N, NEW ws,
         NEW answers, IsSeq(answers), c[3] = "RETURN_IN_ORDER", KindOf(c, g[n]) = "word",
         CurrentTrace(c, N, g, n, Null, ws, answers)
  PROVE  CurrentTrace(c, N, g, n + 1, Null, ws,
                      Append(answers, Answer("word", <<g[n], 0>>, <<>>)))
<1> DEFINE answer == Answer("word", <<g[n], 0>>, <<>>)
           M == Len(answers)
<1>1. PICK q, st : CurrentBy(c, N, g, n, Null, ws, answers, q, st)
  BY DEF CurrentTrace
<1>2. n # N + 1 /\ n + 1 - 1 = n
  OBVIOUS
<1>3. st[M] = <<Len(q) + 1, Null>> /\ Words(c, ws)
  BY <1>1, <1>2 DEF CurrentBy, Standing
<1> DEFINE l == Len(q)
<1>4. PICK p : /\ Squeezed(N, g, n, p, ws) /\ l \in Nat /\ Len(p) = l + 1 /\ Len(p) \in Nat
               /\ p[l + 1] = g[n] /\ Agree(1..l, p, q)
  <2>1. Squeezed(N, g, n - 1, q, ws)
    BY <1>1 DEF CurrentBy
  <2>2. QED
    BY <2>1, TakesNextArgument
<1>5. OneRead(c, N, p, l + 1, st[M], <<l + 2, Null>>, answer)
  <2> DEFINE r == Result("word", <<l + 1, 0>>, l + 2, Null)
  <2>1. st[M][1] = l + 1 /\ Letter(st[M][2]) = 1 /\ l + 1 + 1 = l + 2 /\ l + 1 \in 1..l + 1
    BY <1>3, <1>4 DEF Letter
  <2>2. ReadAt(c, N, p, l + 1, 1) = r
    BY <1>4, <2>1 DEF ReadAt
  <2>3. r.option = "word" /\ r.arg = <<l + 1, 0>> /\ r.optind = l + 2 /\ r.nextchar = Null
        /\ r.arg # NoArg
    BY DEF Result, NoArg
  <2> HIDE DEF r
  <2>8. r.arg[1] = l + 1 /\ r.arg[2] = 0
    BY <2>3
  <2>4. ToldAs(p, r) = answer
    <3>1. ToldAs(p, r) = Answer(r.option, <<p[r.arg[1]], r.arg[2]>>, <<>>)
      BY <2>3 DEF ToldAs
    <3>2. QED
      BY <1>4, <2>3, <2>8, <3>1
  <2> HIDE DEF answer
  <2>5. r.arg[1] \in 1..l + 1
    BY <2>1, <2>3
  <2>6. KindOf(c, p[l + 1]) = "word"
    BY <1>4
  <2>7. QED
    BY <2>1, <2>2, <2>3, <2>4, <2>5, <2>6 DEF OneRead
<1>6. Traced(c, N, q, l, st, answers, M)
  BY <1>1 DEF CurrentBy
<1> HIDE DEF answer
<1>8. Len(Append(answers, answer)) = M + 1
  BY Appended
<1>7. PICK su : Traced(c, N, p, l + 1, su, Append(answers, answer), M + 1)
                /\ su[M + 1] = <<l + 2, Null>>
  <2>1. l <= l + 1 /\ l + 1 \in Nat
    BY <1>4
  <2>2. Reaches(c, N, p, l + 1, Append(answers, answer), <<l + 2, Null>>)
    BY <1>4, <1>5, <1>6, <2>1, TracedFurther
  <2>3. QED
    BY <1>8, <2>2 DEF Reaches
<1>9. l + 2 = Len(p) + 1
  BY <1>4
<1>10. CurrentBy(c, N, g, n + 1, Null, ws, Append(answers, answer), p, su)
  BY <1>2, <1>3, <1>4, <1>7, <1>8, <1>9 DEF CurrentBy, Standing
<1>11. QED
  BY <1>10 DEF CurrentTrace, answer

LEMMA BeginOptionTraced ==
  ASSUME NEW c, NEW N \in Nat, NEW g, Onto(N, g), NEW n \in 1..N, NEW ws,
         NEW answers, IsSeq(answers), KindOf(c, g[n]) \notin {"word", "dashes"},
         CurrentTrace(c, N, g, n, Null, ws, answers)
  PROVE  CurrentTrace(c, N, g, n, 1, ws, answers)
<1> DEFINE M == Len(answers)
<1>1. PICK q, st : CurrentBy(c, N, g, n, Null, ws, answers, q, st)
  BY DEF CurrentTrace
<1>2. n # N + 1 /\ M \in Nat /\ 1 # Null
  BY Appended DEF Null
<1>3. st[M] = <<Len(q) + 1, Null>> /\ Words(c, ws)
  BY <1>1, <1>2 DEF CurrentBy, Standing
<1> DEFINE l == Len(q)
<1>4. PICK p : /\ Squeezed(N, g, n, p, ws) /\ l \in Nat /\ Len(p) = l + 1 /\ Len(p) \in Nat
               /\ p[l + 1] = g[n] /\ Agree(1..l, p, q)
  <2>1. Squeezed(N, g, n - 1, q, ws)
    BY <1>1 DEF CurrentBy
  <2>2. QED
    BY <2>1, TakesNextArgument
<1>5. Traced(c, N, p, Len(p), st, answers, M)
  <2>1. Traced(c, N, q, l, st, answers, M) /\ l <= Len(p)
    BY <1>1, <1>4 DEF CurrentBy
  <2>3. Agree(0..M, st, st) /\ Agree(1..M, answers, answers)
    BY DEF Agree
  <2>2. QED
    BY <1>2, <1>4, <2>1, <2>3, TracedCarries
<1>6. Letter(st[M][2]) = 1 /\ st[M][1] = Len(p) /\ Len(p) # 0 /\ p[Len(p)] = g[n]
  BY <1>3, <1>4 DEF Letter
<1>7. CurrentBy(c, N, g, n, 1, ws, answers, p, st)
  BY <1>2, <1>3, <1>4, <1>5, <1>6 DEF CurrentBy, Standing
<1>8. QED
  BY <1>7 DEF CurrentTrace

LEMMA PassDashesTraced ==
  ASSUME NEW c, NEW N \in Nat, NEW g, Onto(N, g), NEW n \in 1..N, NEW ws,
         NEW answers, IsSeq(answers), KindOf(c, g[n]) = "dashes",
         NEW rest \in Seq(1..N), Len(rest) = N - n, \A j \in 1..N - n : rest[j] = g[n + j],
         CurrentTrace(c, N, g, n, Null, ws, answers)
  PROVE  CurrentTrace(c, N, g, N + 1, Null, ws \o rest, answers)
<1> DEFINE M == Len(answers)
<1>1. PICK q, st : CurrentBy(c, N, g, n, Null, ws, answers, q, st)
  BY DEF CurrentTrace
<1>2. n # N + 1 /\ M \in Nat /\ N + 1 - 1 = N
  BY Appended
<1>3. st[M] = <<Len(q) + 1, Null>>
  BY <1>1, <1>2 DEF CurrentBy, Standing
<1> DEFINE l == Len(q)
<1>4. PICK p : /\ Squeezed(N, g, n, p, ws) /\ l \in Nat /\ Len(p) = l + 1 /\ Len(p) \in Nat
               /\ p[l + 1] = g[n] /\ Agree(1..l, p, q)
  <2>1. Squeezed(N, g, n - 1, q, ws)
    BY <1>1 DEF CurrentBy
  <2>2. QED
    BY <2>1, TakesNextArgument
<1>5. Squeezed(N, g, N, p, ws \o rest)
  <2>1. n \in Nat /\ n <= N /\ N <= N
    OBVIOUS
  <2>2. QED
    BY <1>4, <2>1, SqueezedSetsAside
<1>6. Traced(c, N, p, Len(p), st, answers, M)
  <2>1. Traced(c, N, q, l, st, answers, M) /\ l <= Len(p)
    BY <1>1, <1>4 DEF CurrentBy
  <2>3. Agree(0..M, st, st) /\ Agree(1..M, answers, answers)
    BY DEF Agree
  <2>2. QED
    BY <1>2, <1>4, <2>1, <2>3, TracedCarries
<1>7. Len(p) # 0 /\ KindOf(c, p[Len(p)]) = "dashes" /\ st[M] = <<Len(p), Null>>
  BY <1>3, <1>4
<1>8. CurrentBy(c, N, g, N + 1, Null, ws \o rest, answers, p, st)
  BY <1>2, <1>5, <1>6, <1>7 DEF CurrentBy, Standing
<1>9. QED
  BY <1>8 DEF CurrentTrace

LEMMA ReadOptionTraced ==
  ASSUME NEW c, NEW N \in Nat, NEW g, Onto(N, g), NEW n \in 1..N, NEW nc, nc # Null, NEW ws,
         NEW answers, IsSeq(answers), NEW r, r = OptionAt(c[2], c[1][g[n]], n, nc, N + 1), r.option # Unknown,
         NEW letters, GoesOn(r, n, letters, N + 1),
         CurrentTrace(c, N, g, n, nc, ws, answers)
  PROVE  CurrentTrace(c, N, g, r.optind, r.nextchar, ws, Append(answers, ToldAs(g, r)))
<1> DEFINE answer == ToldAs(g, r)
           M == Len(answers)
<1>1. PICK q, st : CurrentBy(c, N, g, n, nc, ws, answers, q, st)
  BY DEF CurrentTrace
<1> DEFINE l == Len(q)
           d == Len(ws)
           s == OptionAt(c[2], c[1][g[n]], l, nc, N + 1)
<1>2. l \in Nat /\ d \in Nat /\ l + d = n /\ q \in Seq(1..N)
  BY <1>1, CurrentFacts
<1>3. l # 0 /\ q[l] = g[n] /\ st[M][1] = l /\ Letter(st[M][2]) = nc /\ Words(c, ws)
      /\ KindOf(c, g[n]) \notin {"word", "dashes"}
  BY <1>1 DEF CurrentBy, Standing
<1>4. Shifted(r, s, l, d)
  <2>1. N + 1 \in Nat /\ r = OptionAt(c[2], c[1][g[n]], l + d, nc, N + 1)
    BY <1>2
  <2>2. QED
    BY <1>2, <2>1, OptionAtShifts
<1>5. Squeezed(N, g, n, q, ws) /\ Traced(c, N, q, l, st, answers, M)
  BY <1>1 DEF CurrentBy
<1> HIDE DEF s, answer, d
<1>6. ASSUME NEW p, NEW k \in Nat, l <= k, Agree(1..l, p, q),
             r.arg # NoArg => s.arg[1] \in 1..k /\ p[s.arg[1]] = g[r.arg[1]]
      PROVE  \E su : /\ Traced(c, N, p, k, su, Append(answers, answer), M + 1)
                     /\ su[M + 1] = <<s.optind, r.nextchar>>
  <2>1. l \in 1..l /\ l \in 1..k /\ p[l] = g[n]
    BY <1>2, <1>3, <1>6 DEF Agree
  <2>2. ReadAt(c, N, p, st[M][1], Letter(st[M][2])) = s
    BY <1>3, <2>1 DEF ReadAt, KindOf, s
  <2>3. ToldAs(p, s) = answer
    BY <1>4, <1>6 DEF ToldAs, Shifted, answer
  <2>4. OneRead(c, N, p, k, st[M], <<s.optind, r.nextchar>>, answer)
    <3>1. s.arg # NoArg => s.arg[1] \in 1..k
      BY <1>4, <1>6 DEF Shifted
    <3>2. s.nextchar = r.nextchar
      BY <1>4 DEF Shifted
    <3>3. st[M][1] \in 1..k /\ KindOf(c, p[st[M][1]]) # "word" /\ KindOf(c, p[st[M][1]]) # "dashes"
      BY <1>3, <2>1
    <3>4. QED
      BY <2>2, <2>3, <3>1, <3>2, <3>3 DEF OneRead
  <2>5. Reaches(c, N, p, k, Append(answers, answer), <<s.optind, r.nextchar>>)
    BY <1>2, <1>5, <1>6, <2>4, TracedFurther
  <2>6. Len(Append(answers, answer)) = M + 1
    BY Appended
  <2>7. QED
    BY <2>5, <2>6 DEF Reaches
<1>7. Len(Append(answers, answer)) = M + 1
  BY Appended
<1>8. CASE r.optind # n + 2
  <2>1. r.arg # NoArg => r.arg[1] = n /\ s.arg[1] = l
    BY <1>2, <1>4, <1>8 DEF Shifted
  <2>2. r.arg # NoArg => s.arg[1] \in 1..l /\ q[s.arg[1]] = g[r.arg[1]]
    BY <1>2, <1>3, <2>1
  <2>3. PICK su : /\ Traced(c, N, q, l, su, Append(answers, answer), M + 1)
                  /\ su[M + 1] = <<s.optind, r.nextchar>>
    <3>1. Agree(1..l, q, q) /\ l <= l
      BY <1>2 DEF Agree
    <3>2. QED
      BY <1>2, <1>6, <2>2, <3>1
  <2>4. \/ r.optind = n /\ s.optind = l /\ r.nextchar # Null
        \/ r.optind = n + 1 /\ s.optind = l + 1 /\ r.nextchar = Null
    <3>1. r.optind \in {n, n + 1} /\ s.optind + d = r.optind /\ s.optind \in Nat
      <4>1. r.optind \in l + d..l + d + 2 /\ s.optind + d = r.optind /\ s.optind \in l..l + 2
        BY <1>4 DEF Shifted
      <4>2. r.optind \in n..n + 2 /\ n \in Nat
        BY <1>2, <4>1
      <4>3. r.optind \in {n, n + 1}
        BY <1>8, <4>2
      <4>4. QED
        BY <1>2, <4>1, <4>3
    <3>2. r.optind = n => r.nextchar # Null
      BY DEF GoesOn, Null
    <3>3. r.optind = n + 1 => r.nextchar = Null
      BY DEF GoesOn
    <3>4. QED
      BY <1>2, <3>1, <3>2, <3>3
  <2>5. CASE r.optind = n
    <3>1. /\ s.optind = l /\ r.nextchar # Null /\ su[M + 1][1] = l
          /\ Letter(su[M + 1][2]) = r.nextchar
      BY <2>3, <2>4, <2>5 DEF Letter
    <3>2. CurrentBy(c, N, g, r.optind, r.nextchar, ws, Append(answers, answer), q, su)
      BY <1>3, <1>5, <1>7, <2>3, <2>5, <3>1 DEF CurrentBy, Standing
    <3>3. QED
      BY <3>2 DEF CurrentTrace, answer
  <2>6. CASE r.optind = n + 1
    <3>1. s.optind = l + 1 /\ r.nextchar = Null /\ su[M + 1] = <<l + 1, Null>> /\ r.optind - 1 = n
      BY <2>3, <2>4, <2>6
    <3>2. CurrentBy(c, N, g, r.optind, r.nextchar, ws, Append(answers, answer), q, su)
      BY <1>3, <1>5, <1>7, <2>3, <3>1 DEF CurrentBy, Standing
    <3>3. QED
      BY <3>2 DEF CurrentTrace, answer
  <2>7. QED
    BY <2>4, <2>5, <2>6
<1>9. CASE r.optind = n + 2
  <2>1. n + 1 \in 1..N /\ r.nextchar = Null /\ s.optind = l + 2 /\ n + 1 - 1 = n
    <3>1. r.optind \in n + 1..N + 1 /\ r.nextchar = Null
      BY <1>9 DEF GoesOn
    <3>2. n + 1 \in 1..N
      BY <1>9, <3>1
    <3>3. s.optind + d = r.optind /\ s.optind \in l..l + 2
      BY <1>4 DEF Shifted
    <3>4. QED
      BY <1>2, <1>9, <3>1, <3>2, <3>3
  <2>2. PICK p : /\ Squeezed(N, g, n + 1, p, ws) /\ Len(p) = l + 1 /\ Len(p) \in Nat
                 /\ p[l + 1] = g[n + 1] /\ Agree(1..l, p, q)
    <3>1. ASSUME NEW m \in 1..N, m - 1 = n
          PROVE  \E p : /\ Squeezed(N, g, m, p, ws) /\ Len(p) = l + 1 /\ Len(p) \in Nat
                        /\ p[l + 1] = g[m] /\ Agree(1..l, p, q)
      <4>1. Squeezed(N, g, m - 1, q, ws)
        BY <1>5, <3>1
      <4>2. QED
        BY <4>1, TakesNextArgument
    <3>2. QED
      BY <2>1, <3>1
  <2>3. r.arg # NoArg => s.arg[1] \in 1..Len(p) /\ p[s.arg[1]] = g[r.arg[1]]
    <3>1. r.arg # NoArg => \/ r.arg[1] = n /\ s.arg[1] = l
                           \/ r.arg[1] = n + 1 /\ s.arg[1] = l + 1
      BY <1>2, <1>4 DEF Shifted
    <3>2. l \in 1..l /\ l \in 1..Len(p) /\ l + 1 \in 1..Len(p)
      BY <1>2, <1>3, <2>2
    <3>3. p[l] = g[n]
      BY <1>3, <2>2, <3>2 DEF Agree
    <3>4. QED
      BY <2>2, <3>1, <3>2, <3>3
  <2>4. PICK su : /\ Traced(c, N, p, Len(p), su, Append(answers, answer), M + 1)
                  /\ su[M + 1] = <<s.optind, r.nextchar>>
    <3>1. l <= Len(p)
      BY <1>2, <2>2
    <3>2. QED
      BY <1>6, <2>2, <2>3, <3>1
  <2>5. su[M + 1] = <<Len(p) + 1, Null>> /\ r.optind - 1 = n + 1
    <3>1. Len(p) + 1 = l + 2
      BY <1>2, <2>2
    <3>2. r.optind - 1 = n + 1
      BY <1>9
    <3>3. QED
      BY <2>1, <2>4, <3>1, <3>2
  <2>6. CurrentBy(c, N, g, r.optind, r.nextchar, ws, Append(answers, answer), p, su)
    BY <1>3, <1>7, <2>1, <2>2, <2>4, <2>5 DEF CurrentBy, Standing
  <2>7. QED
    BY <2>6 DEF CurrentTrace, answer
<1>10. QED
  BY <1>8, <1>9

LEMMA EndTraced ==
  ASSUME NEW c, NEW N \in Nat, NEW g, Onto(N, g), NEW n \in 1..N + 1, NEW ws,
         NEW answers, IsSeq(answers),
         c[3] \in {"PERMUTE", "REQUIRE_ORDER", "RETURN_IN_ORDER"},
         n # N + 1 => c[3] = "REQUIRE_ORDER" /\ KindOf(c, g[n]) = "word",
         NEW rest \in Seq(1..N), Len(rest) = N + 1 - n,
         \A j \in 1..N + 1 - n : rest[j] = g[n + j - 1],
         CurrentTrace(c, N, g, n, Null, ws, answers)
  PROVE  DoneTrace(c, N, g, Append(answers, Answer("end", NoArg, ws \o rest)))
<1> DEFINE M == Len(answers)
           all == ws \o rest
           others == Append(answers, Answer("end", NoArg, all))
<1>1. PICK q, st : CurrentBy(c, N, g, n, Null, ws, answers, q, st)
  BY DEF CurrentTrace
<1>2. /\ Len(q) \in Nat /\ q \in Seq(1..N)
      /\ ws \in Seq(1..N) /\ Len(ws) \in Nat /\ DOMAIN ws = 1..Len(ws)
  BY <1>1, CurrentFacts
<1>3. /\ M \in Nat /\ Len(others) = M + 1 /\ others[M + 1] = Answer("end", NoArg, all)
      /\ \A m \in 1..M : others[m] = answers[m]
  BY Appended
<1>4. Squeezed(N, g, N, q, all)
  <2>1. Squeezed(N, g, n - 1, q, ws)
    BY <1>1 DEF CurrentBy
  <2>2. n - 1 \in Nat /\ n - 1 <= N /\ N <= N /\ N + 1 - n = N - (n - 1)
        /\ \A j \in 1..N - (n - 1) : n + j - 1 = n - 1 + j
    OBVIOUS
  <2>3. \A j \in 1..N - (n - 1) : rest[j] = g[n - 1 + j]
    BY <2>2
  <2>4. QED
    BY <2>1, <2>2, <2>3, SqueezedSetsAside
<1>5. rest = <<>> => all = ws
  BY <1>2
<1>6. n = N + 1 => rest = <<>>
  BY EmptySeq
<1>7. Finished(c, q, Len(q), st[M], all)
  <2>1. CASE st[M] = <<Len(q) + 1, Null>> /\ Words(c, ws)
    <3>1. CASE c[3] = "PERMUTE"
      <4>1. all = ws
        BY <1>5, <1>6, <3>1
      <4>2. QED
        BY <2>1, <3>1, <4>1 DEF Finished, Stops, Words
    <3>2. CASE c[3] # "PERMUTE"
      <4>1. ws = <<>> /\ all = rest
        BY <2>1, <3>2 DEF Words
      <4>2. CASE n = N + 1
        BY <1>6, <2>1, <3>2, <4>1, <4>2 DEF Finished, Stops
      <4>3. CASE n # N + 1
        <5>1. 1 \in 1..N + 1 - n /\ n + 1 - 1 = n
          BY <4>3
        <5>2. rest[1] = g[n]
          BY <5>1
        <5>3. QED
          BY <2>1, <4>1, <4>3, <5>2 DEF Finished, Stops
      <4>4. QED
        BY <4>2, <4>3
    <3>3. QED
      BY <3>1, <3>2
  <2>2. CASE n = N + 1 /\ Len(q) # 0 /\ KindOf(c, q[Len(q)]) = "dashes" /\ st[M] = <<Len(q), Null>>
    BY <2>2 DEF Finished
  <2>3. QED
    BY <1>1, <2>1, <2>2 DEF CurrentBy, Standing
<1> HIDE DEF others, all
<1>8. Traced(c, N, q, Len(q), st, others, M)
  <2>1. Traced(c, N, q, Len(q), st, answers, M) /\ Len(q) <= Len(q) /\ Agree(1..Len(q), q, q)
    BY <1>1, <1>2 DEF CurrentBy, Agree
  <2>3. Agree(0..M, st, st) /\ Agree(1..M, others, answers)
    BY <1>3 DEF Agree
  <2>2. QED
    BY <1>2, <1>3, <2>1, <2>3, TracedCarries
<1>9. M + 1 - 1 = M /\ M + 1 # 0
  BY <1>3
<1>10. DoneBy(c, N, g, others, q, st, all)
  BY <1>3, <1>4, <1>7, <1>8, <1>9 DEF DoneBy, EndsWith
<1>11. QED
  BY <1>10 DEF DoneTrace, others, all

-----------------------------------------------------------------------------
(* The trace of the scan that repeats one: bef is what that returned, g its *)
(* argv. Its first l arguments were read, of the others it told the rest.   *)
Repeatable(c, N, g, bef, l, st, rest) ==
  /\ l \in Nat /\ l <= N
  /\ rest \in Seq(1..N) /\ Len(rest) = N - l /\ \A i \in 1..N - l : rest[i] = g[l + i]
  /\ IsSeq(bef) /\ Len(bef) # 0 /\ EndsWith(bef, rest)
  /\ Traced(c, N, g, l, st, bef, Len(bef) - 1)
  /\ Finished(c, g, l, st[Len(bef) - 1], rest)

(* ws is the first k of rest.                                               *)
PartOf(ws, rest, k) == Len(ws) = k /\ \A i \in 1..k : ws[i] = rest[i]

(* The reader is in the trace, or behind its last reading among the words.  *)
IsAt(c, N, n, nc, ws, st, m, M, l, rest) ==
  \/ ws = <<>> /\ n = st[m][1] /\ (nc = st[m][2] \/ (m < M /\ nc = Letter(st[m][2])))
  \/ /\ m = M /\ nc = Null /\ c[3] = "PERMUTE" /\ st[M] = <<l + 1, Null>>
     /\ n \in l + 1..N + 1 /\ PartOf(ws, rest, n - 1 - l)
  \/ m = M /\ nc = Null /\ n = N + 1 /\ ws = rest
FollowsBy(c, N, g, n, nc, ws, answers, bef, l, st, rest) ==
  /\ Repeatable(c, N, g, bef, l, st, rest)
  /\ Len(answers) <= Len(bef) - 1 /\ Agree(1..Len(answers), answers, bef)
  /\ IsAt(c, N, n, nc, ws, st, Len(answers), Len(bef) - 1, l, rest)
FollowsTrace(c, N, g, n, nc, ws, answers, bef) ==
  \E l, st, rest : FollowsBy(c, N, g, n, nc, ws, answers, bef, l, st, rest)

LEMMA SeqsEqual ==
  ASSUME NEW s, IsSeq(s), NEW t, IsSeq(t), Len(s) = Len(t), Agree(1..Len(s), s, t)
  PROVE  s = t
<1>1. PICK S : s \in Seq(S)
  BY DEF IsSeq
<1>2. PICK T : t \in Seq(T)
  BY DEF IsSeq
<1>3. s \in Seq(S \cup T) /\ t \in Seq(S \cup T)
  BY <1>1, <1>2
<1>4. QED
  BY <1>3, SeqEqual DEF Agree

LEMMA WordsOfRest ==
  ASSUME NEW c, NEW N \in Nat, NEW g, NEW bef, NEW l, NEW st, NEW rest,
         Repeatable(c, N, g, bef, l, st, rest), Stops(c, rest), NEW n \in l + 1..N,
         n # l + 1 => c[3] = "PERMUTE"
  PROVE  KindOf(c, g[n]) = "word" /\ c[3] # "RETURN_IN_ORDER"
<1>1. /\ l \in Nat /\ Len(rest) = N - l /\ rest \in Seq(1..N)
      /\ \A i \in 1..N - l : rest[i] = g[l + i]
  BY DEF Repeatable
<1> DEFINE k == n - l
<1>2. k \in 1..N - l /\ l + k = n /\ (k = 1 <=> n = l + 1)
  BY <1>1
<1>3. DOMAIN rest = 1..N - l
  BY <1>1
<1>4. rest # <<>>
  <2>1. Len(rest) # 0
    BY <1>1, <1>2
  <2>2. QED
    BY <2>1
<1>5. rest[k] = g[n]
  BY <1>1, <1>2
<1> HIDE DEF k
<1>6. CASE c[3] = "PERMUTE"
  BY <1>2, <1>3, <1>5, <1>6 DEF Stops, AllWords
<1>7. CASE c[3] # "PERMUTE"
  <2>1. k = 1
    BY <1>2, <1>7
  <2>2. QED
    BY <1>4, <1>5, <1>7, <2>1 DEF Stops
<1>8. QED
  BY <1>6, <1>7

(* Between two readings there are four places for the reader.               *)
InTrace(c, g, n, ws, st, m, M, l) ==
  /\ m < M /\ ws = <<>> /\ n \in 1..l /\ n = st[m][1] /\ st[m][2] = Null
  /\ KindOf(c, g[n]) # "dashes" /\ (KindOf(c, g[n]) = "word" => c[3] = "RETURN_IN_ORDER")
AtItsDashes(c, g, n, ws, m, M, l) ==
  m = M /\ ws = <<>> /\ n = l /\ KindOf(c, g[n]) = "dashes"
AmongWords(c, N, g, n, ws, st, m, M, l, rest) ==
  /\ m = M /\ st[M] = <<l + 1, Null>>
  /\ n \in l + 1..N + 1 /\ PartOf(ws, rest, n - 1 - l)
  /\ n <= N => KindOf(c, g[n]) = "word" /\ c[3] # "RETURN_IN_ORDER"
  /\ n # l + 1 => c[3] = "PERMUTE"
BehindAll(N, n, ws, m, M, rest) == m = M /\ n = N + 1 /\ ws = rest

LEMMA FollowsWhere ==
  ASSUME NEW c, NEW N \in Nat, NEW g, NEW n, NEW ws, NEW answers, IsSeq(answers), NEW bef,
         NEW l, NEW st, NEW rest,
         FollowsBy(c, N, g, n, Null, ws, answers, bef, l, st, rest)
  PROVE  LET m == Len(answers)
             M == Len(bef) - 1
         IN  \/ InTrace(c, g, n, ws, st, m, M, l)
             \/ AtItsDashes(c, g, n, ws, m, M, l)
             \/ AmongWords(c, N, g, n, ws, st, m, M, l, rest)
             \/ BehindAll(N, n, ws, m, M, rest)
<1> DEFINE m == Len(answers)
           M == Len(bef) - 1
<1>1. /\ Repeatable(c, N, g, bef, l, st, rest) /\ m <= M
      /\ IsAt(c, N, n, Null, ws, st, m, M, l, rest)
  BY DEF FollowsBy
<1>2. /\ l \in Nat /\ l <= N /\ Traced(c, N, g, l, st, bef, M) /\ Finished(c, g, l, st[M], rest)
      /\ IsSeq(bef)
  BY <1>1 DEF Repeatable
<1>3. m \in Nat /\ M \in Int
  <2>1. Len(bef) \in Nat /\ m \in Nat
    BY <1>2, Appended
  <2>2. QED
    BY <2>1
<1>4. \A x : Letter(x) # Null
  BY DEF Letter, Null
<1> HIDE DEF m, M
<1>5. CASE ws = <<>> /\ n = st[m][1] /\ Null = st[m][2] /\ m < M
  <2>1. OneRead(c, N, g, l, st[m], st[m + 1], bef[m + 1])
    BY <1>2, <1>3, <1>5, TracedRead
  <2>2. InTrace(c, g, n, ws, st, m, M, l)
    BY <1>5, <2>1 DEF OneRead, InTrace
  <2>3. QED
    BY <2>2 DEF m, M
<1>6. CASE ws = <<>> /\ n = st[m][1] /\ m = M
  <2>1. CASE l # 0 /\ KindOf(c, g[l]) = "dashes" /\ st[M] = <<l, Null>>
    <3>1. AtItsDashes(c, g, n, ws, m, M, l)
      BY <1>6, <2>1 DEF AtItsDashes
    <3>2. QED
      BY <3>1 DEF m, M
  <2>2. CASE st[M] = <<l + 1, Null>> /\ Stops(c, rest)
    <3>1. n = l + 1 /\ n \in l + 1..N + 1 /\ n - 1 - l = 0
      BY <1>2, <1>6, <2>2
    <3>2. PartOf(ws, rest, n - 1 - l)
      BY <1>6, <3>1 DEF PartOf
    <3>3. n <= N => KindOf(c, g[n]) = "word" /\ c[3] # "RETURN_IN_ORDER"
      <4>1. n <= N => n \in l + 1..N
        BY <3>1, <1>2
      <4>2. QED
        BY <1>1, <2>2, <3>1, <4>1, WordsOfRest
    <3>4. AmongWords(c, N, g, n, ws, st, m, M, l, rest)
      BY <1>6, <2>2, <3>1, <3>2, <3>3 DEF AmongWords
    <3>5. QED
      BY <3>4 DEF m, M
  <2>3. QED
    BY <1>2, <2>1, <2>2 DEF Finished
<1>7. CASE /\ m = M /\ c[3] = "PERMUTE" /\ st[M] = <<l + 1, Null>>
           /\ n \in l + 1..N + 1 /\ PartOf(ws, rest, n - 1 - l)
  <2>1. Stops(c, rest)
    <3>1. <<l, Null>> # <<l + 1, Null>>
      BY <1>2
    <3>2. QED
      BY <1>2, <1>7, <3>1 DEF Finished
  <2>2. n <= N => KindOf(c, g[n]) = "word" /\ c[3] # "RETURN_IN_ORDER"
    <3>1. n <= N => n \in l + 1..N
      BY <1>2, <1>7
    <3>2. QED
      BY <1>1, <1>7, <2>1, <3>1, WordsOfRest
  <2>3. AmongWords(c, N, g, n, ws, st, m, M, l, rest)
    BY <1>7, <2>2 DEF AmongWords
  <2>4. QED
    BY <2>3 DEF m, M
<1>8. CASE m = M /\ n = N + 1 /\ ws = rest
  <2>1. BehindAll(N, n, ws, m, M, rest)
    BY <1>8 DEF BehindAll
  <2>2. QED
    BY <2>1 DEF m, M
<1>9. m < M \/ m = M
  BY <1>1, <1>3
<1>10. QED
  BY <1>1, <1>4, <1>5, <1>6, <1>7, <1>8, <1>9 DEF IsAt

(* In the trace the reader reads what was read before.                      *)
LEMMA FollowsReading ==
  ASSUME NEW c, NEW N \in Nat, NEW g, NEW n, NEW nc, NEW ws, NEW answers, IsSeq(answers), NEW bef,
         NEW l, NEW st, NEW rest, Repeatable(c, N, g, bef, l, st, rest),
         Len(answers) < Len(bef) - 1, Agree(1..Len(answers), answers, bef),
         ws = <<>>, n = st[Len(answers)][1], nc = Letter(st[Len(answers)][2]),
         NEW r, r = ReadAt(c, N, g, n, nc)
  PROVE  FollowsTrace(c, N, g, r.optind, r.nextchar, ws, Append(answers, ToldAs(g, r)), bef)
<1> DEFINE m == Len(answers)
           M == Len(bef) - 1
           others == Append(answers, ToldAs(g, r))
<1>1. Traced(c, N, g, l, st, bef, M) /\ IsSeq(bef)
  BY DEF Repeatable
<1>2. m \in Nat /\ M \in Int
  <2>1. Len(bef) \in Nat /\ m \in Nat
    BY <1>1, Appended
  <2>2. QED
    BY <2>1
<1>3. Len(others) = m + 1 /\ others[m + 1] = ToldAs(g, r) /\ \A i \in 1..m : others[i] = answers[i]
  BY Appended
<1> HIDE DEF others, m, M
<1>4. OneRead(c, N, g, l, st[m], st[m + 1], bef[m + 1])
  <2>1. m < M
    BY DEF m, M
  <2>2. QED
    BY <1>1, <1>2, <2>1, TracedRead
<1>5. bef[m + 1] = ToldAs(g, r) /\ st[m + 1] = <<r.optind, r.nextchar>>
  <2>1. r = ReadAt(c, N, g, st[m][1], Letter(st[m][2]))
    BY DEF m
  <2>2. QED
    BY <1>4, <2>1 DEF OneRead
<1>6. Agree(1..m + 1, others, bef)
  <2>1. ASSUME NEW i \in 1..m + 1 PROVE others[i] = bef[i]
    <3>1. CASE i = m + 1
      BY <1>3, <1>5, <3>1
    <3>2. CASE i # m + 1
      <4>1. i \in 1..m
        BY <1>2, <3>2
      <4>2. answers[i] = bef[i]
        BY <4>1 DEF Agree, m
      <4>3. QED
        BY <1>3, <4>1, <4>2
    <3>3. QED
      BY <3>1, <3>2
  <2>2. QED
    BY <2>1 DEF Agree
<1>7. IsAt(c, N, r.optind, r.nextchar, ws, st, m + 1, M, l, rest)
  <2>1. r.optind = st[m + 1][1] /\ r.nextchar = st[m + 1][2]
    BY <1>5
  <2>2. QED
    BY <2>1 DEF IsAt
<1>8. m + 1 <= M
  BY <1>2 DEF m, M
<1>9. FollowsBy(c, N, g, r.optind, r.nextchar, ws, others, bef, l, st, rest)
  BY <1>3, <1>6, <1>7, <1>8 DEF FollowsBy, M
<1>10. QED
  BY <1>9 DEF FollowsTrace, others

LEMMA FollowsFacts ==
  ASSUME NEW c, NEW N, NEW g, NEW n, NEW nc, NEW ws, NEW answers, NEW bef,
         NEW l, NEW st, NEW rest, FollowsBy(c, N, g, n, nc, ws, answers, bef, l, st, rest)
  PROVE  /\ Repeatable(c, N, g, bef, l, st, rest) /\ l \in Nat /\ l <= N
         /\ rest \in Seq(1..N) /\ Len(rest) = N - l /\ \A i \in 1..N - l : rest[i] = g[l + i]
         /\ IsSeq(bef) /\ Len(bef) \in Nat /\ Len(bef) # 0
         /\ Agree(1..Len(answers), answers, bef)
<1>1. Repeatable(c, N, g, bef, l, st, rest) /\ Agree(1..Len(answers), answers, bef)
  BY DEF FollowsBy
<1>2. IsSeq(bef)
  BY <1>1 DEF Repeatable
<1>3. Len(bef) \in Nat
  BY <1>2, Appended
<1>4. QED
  BY <1>1, <1>2, <1>3 DEF Repeatable

LEMMA SetAsideFollows ==
  ASSUME NEW c, NEW N \in Nat, NEW g, Onto(N, g), NEW n \in 1..N, NEW ws,
         NEW answers, IsSeq(answers), NEW bef, NEW S, ws \in Seq(S), g[n] \in S,
         c[3] = "PERMUTE", KindOf(c, g[n]) = "word",
         FollowsTrace(c, N, g, n, Null, ws, answers, bef)
  PROVE  FollowsTrace(c, N, g, n + 1, Null, Append(ws, g[n]), answers, bef)
<1> DEFINE m == Len(answers)
           M == Len(bef) - 1
           u == Append(ws, g[n])
<1>1. PICK l, st, rest : FollowsBy(c, N, g, n, Null, ws, answers, bef, l, st, rest)
  BY DEF FollowsTrace
<1>2. \/ InTrace(c, g, n, ws, st, m, M, l)
      \/ AtItsDashes(c, g, n, ws, m, M, l)
      \/ AmongWords(c, N, g, n, ws, st, m, M, l, rest)
      \/ BehindAll(N, n, ws, m, M, rest)
  BY <1>1, FollowsWhere
<1>3. AmongWords(c, N, g, n, ws, st, m, M, l, rest)
  <2>1. n # N + 1
    OBVIOUS
  <2> HIDE DEF m, M
  <2>2. QED
    BY <1>2, <2>1 DEF InTrace, AtItsDashes, BehindAll
<1>4. l \in Nat /\ \A i \in 1..N - l : rest[i] = g[l + i]
  BY <1>1, FollowsFacts
<1>5. Len(u) = Len(ws) + 1 /\ u[Len(ws) + 1] = g[n] /\ \A i \in 1..Len(ws) : u[i] = ws[i]
  BY Longer
<1> HIDE DEF u, m, M
<1>6. PartOf(u, rest, (n + 1) - 1 - l)
  <2> DEFINE k == n - 1 - l
  <2>1. n \in l + 1..N + 1 /\ PartOf(ws, rest, k)
    BY <1>3 DEF AmongWords
  <2>2. k \in Nat /\ k + 1 \in 1..N - l /\ l + (k + 1) = n /\ (n + 1) - 1 - l = k + 1
    BY <1>4, <2>1
  <2> HIDE DEF k
  <2>3. rest[k + 1] = g[n]
    BY <1>4, <2>2
  <2>4. Len(u) = k + 1 /\ u[k + 1] = rest[k + 1] /\ \A i \in 1..k : u[i] = rest[i]
    BY <1>5, <2>1, <2>3 DEF PartOf
  <2>5. \A i \in 1..k + 1 : i = k + 1 \/ i \in 1..k
    BY <2>2
  <2>6. PartOf(u, rest, k + 1)
    BY <2>4, <2>5 DEF PartOf
  <2>7. QED
    BY <2>2, <2>6
<1>7. n + 1 \in l + 1..N + 1
  BY <1>3, <1>4 DEF AmongWords
<1>8. IsAt(c, N, n + 1, Null, u, st, m, M, l, rest)
  <2>1. m = M /\ st[M] = <<l + 1, Null>>
    BY <1>3 DEF AmongWords
  <2>2. ASSUME NEW k, k \in l + 1..N + 1, PartOf(u, rest, k - 1 - l)
        PROVE  IsAt(c, N, k, Null, u, st, m, M, l, rest)
    BY <2>1, <2>2 DEF IsAt
  <2>3. QED
    BY <1>6, <1>7, <2>2
<1>9. FollowsBy(c, N, g, n + 1, Null, u, answers, bef, l, st, rest)
  BY <1>1, <1>8 DEF FollowsBy, m, M
<1>10. QED
  BY <1>9 DEF FollowsTrace, u

LEMMA ReturnWordFollows ==
  ASSUME NEW c, NEW N \in Nat, NEW g, NEW n \in 1..N, NEW ws,
         NEW answers, IsSeq(answers), NEW bef,
         c[3] = "RETURN_IN_ORDER", KindOf(c, g[n]) = "word",
         FollowsTrace(c, N, g, n, Null, ws, answers, bef)
  PROVE  FollowsTrace(c, N, g, n + 1, Null, ws,
                      Append(answers, Answer("word", <<g[n], 0>>, <<>>)), bef)
<1> DEFINE m == Len(answers)
           M == Len(bef) - 1
           r == Result("word", <<n, 0>>, n + 1, Null)
<1>1. PICK l, st, rest : FollowsBy(c, N, g, n, Null, ws, answers, bef, l, st, rest)
  BY DEF FollowsTrace
<1>2. \/ InTrace(c, g, n, ws, st, m, M, l)
      \/ AtItsDashes(c, g, n, ws, m, M, l)
      \/ AmongWords(c, N, g, n, ws, st, m, M, l, rest)
      \/ BehindAll(N, n, ws, m, M, rest)
  BY <1>1, FollowsWhere
<1>3. InTrace(c, g, n, ws, st, m, M, l)
  <2>1. n # N + 1 /\ n <= N
    OBVIOUS
  <2> HIDE DEF m, M
  <2>2. QED
    BY <1>2, <2>1 DEF AmongWords, AtItsDashes, BehindAll
<1>4. Repeatable(c, N, g, bef, l, st, rest) /\ Agree(1..m, answers, bef)
  BY <1>1, FollowsFacts
<1>5. r.option = "word" /\ r.arg = <<n, 0>> /\ r.arg # NoArg /\ r.optind = n + 1 /\ r.nextchar = Null
  BY DEF Result, NoArg
<1>6. r = ReadAt(c, N, g, n, 1)
  BY DEF ReadAt
<1> HIDE DEF r
<1>7. ToldAs(g, r) = Answer("word", <<g[n], 0>>, <<>>)
  <2>1. r.arg[1] = n /\ r.arg[2] = 0
    BY <1>5
  <2>2. ToldAs(g, r) = Answer(r.option, <<g[r.arg[1]], r.arg[2]>>, <<>>)
    BY <1>5 DEF ToldAs
  <2>3. QED
    BY <1>5, <2>1, <2>2
<1>8. m < M /\ ws = <<>> /\ n = st[m][1] /\ 1 = Letter(st[m][2])
  BY <1>3 DEF InTrace, Letter
<1>9. FollowsTrace(c, N, g, r.optind, r.nextchar, ws, Append(answers, ToldAs(g, r)), bef)
  BY <1>4, <1>6, <1>8, FollowsReading
<1>10. QED
  BY <1>5, <1>7, <1>9

LEMMA BeginOptionFollows ==
  ASSUME NEW c, NEW N \in Nat, NEW g, NEW n \in 1..N, NEW ws,
         NEW answers, IsSeq(answers), NEW bef, KindOf(c, g[n]) \notin {"word", "dashes"},
         FollowsTrace(c, N, g, n, Null, ws, answers, bef)
  PROVE  FollowsTrace(c, N, g, n, 1, ws, answers, bef)
<1> DEFINE m == Len(answers)
           M == Len(bef) - 1
<1>1. PICK l, st, rest : FollowsBy(c, N, g, n, Null, ws, answers, bef, l, st, rest)
  BY DEF FollowsTrace
<1>2. \/ InTrace(c, g, n, ws, st, m, M, l)
      \/ AtItsDashes(c, g, n, ws, m, M, l)
      \/ AmongWords(c, N, g, n, ws, st, m, M, l, rest)
      \/ BehindAll(N, n, ws, m, M, rest)
  BY <1>1, FollowsWhere
<1>3. InTrace(c, g, n, ws, st, m, M, l)
  <2>1. n # N + 1 /\ n <= N
    OBVIOUS
  <2> HIDE DEF m, M
  <2>2. QED
    BY <1>2, <2>1 DEF AmongWords, AtItsDashes, BehindAll
<1> HIDE DEF m, M
<1>4. IsAt(c, N, n, 1, ws, st, m, M, l, rest)
  BY <1>3 DEF IsAt, InTrace, Letter
<1>5. FollowsBy(c, N, g, n, 1, ws, answers, bef, l, st, rest)
  BY <1>1, <1>4 DEF FollowsBy, m, M
<1>6. QED
  BY <1>5 DEF FollowsTrace

LEMMA ReadOptionFollows ==
  ASSUME NEW c, NEW N \in Nat, NEW g, NEW n, NEW nc, nc # Null, NEW ws,
         NEW answers, IsSeq(answers), NEW bef, KindOf(c, g[n]) # "word",
         NEW r, r = OptionAt(c[2], c[1][g[n]], n, nc, N + 1),
         FollowsTrace(c, N, g, n, nc, ws, answers, bef)
  PROVE  FollowsTrace(c, N, g, r.optind, r.nextchar, ws, Append(answers, ToldAs(g, r)), bef)
<1> DEFINE m == Len(answers)
           M == Len(bef) - 1
<1>1. PICK l, st, rest : FollowsBy(c, N, g, n, nc, ws, answers, bef, l, st, rest)
  BY DEF FollowsTrace
<1>2. /\ Repeatable(c, N, g, bef, l, st, rest) /\ Agree(1..m, answers, bef)
      /\ m \in Nat /\ Len(bef) \in Nat
  BY <1>1, FollowsFacts, Appended
<1>3. m <= M /\ IsAt(c, N, n, nc, ws, st, m, M, l, rest)
  BY <1>1 DEF FollowsBy
<1>4. st[M][2] = Null
  BY <1>2 DEF Repeatable, Finished
<1>5. M \in Int
  BY <1>2
<1> HIDE DEF m, M
<1>6. ws = <<>> /\ n = st[m][1] /\ (nc = st[m][2] \/ nc = Letter(st[m][2]))
      /\ (m = M => nc = Null)
  BY <1>2, <1>3, <1>4, <1>5 DEF IsAt
<1>7. m < M
  BY <1>2, <1>3, <1>5, <1>6
<1>8. nc = Letter(st[m][2])
  BY <1>6 DEF Letter
<1>9. r = ReadAt(c, N, g, n, nc)
  BY DEF ReadAt
<1>10. QED
  BY <1>2, <1>6, <1>7, <1>8, <1>9, FollowsReading DEF m, M

LEMMA PassDashesFollows ==
  ASSUME NEW c, NEW N \in Nat, NEW g, NEW n \in 1..N, NEW ws,
         NEW answers, IsSeq(answers), NEW bef, KindOf(c, g[n]) = "dashes",
         NEW suffix \in Seq(1..N), Len(suffix) = N - n, \A j \in 1..N - n : suffix[j] = g[n + j],
         FollowsTrace(c, N, g, n, Null, ws, answers, bef)
  PROVE  FollowsTrace(c, N, g, N + 1, Null, ws \o suffix, answers, bef)
<1> DEFINE m == Len(answers)
           M == Len(bef) - 1
<1>1. PICK l, st, rest : FollowsBy(c, N, g, n, Null, ws, answers, bef, l, st, rest)
  BY DEF FollowsTrace
<1>2. \/ InTrace(c, g, n, ws, st, m, M, l)
      \/ AtItsDashes(c, g, n, ws, m, M, l)
      \/ AmongWords(c, N, g, n, ws, st, m, M, l, rest)
      \/ BehindAll(N, n, ws, m, M, rest)
  BY <1>1, FollowsWhere
<1>3. AtItsDashes(c, g, n, ws, m, M, l)
  <2>1. n # N + 1 /\ n <= N
    OBVIOUS
  <2> HIDE DEF m, M
  <2>2. QED
    BY <1>2, <2>1 DEF AmongWords, InTrace, BehindAll
<1>4. /\ rest \in Seq(1..N) /\ Len(rest) = N - l /\ \A i \in 1..N - l : rest[i] = g[l + i]
  BY <1>1, FollowsFacts
<1>5. ws = <<>> /\ m = M /\ n = l
  BY <1>3 DEF AtItsDashes
<1>6. suffix = rest
  <2>1. \A i \in 1..N - n : suffix[i] = rest[i]
    BY <1>4, <1>5
  <2>2. Len(suffix) = Len(rest) /\ \A i \in 1..Len(suffix) : suffix[i] = rest[i]
    BY <1>4, <1>5, <2>1
  <2>3. QED
    BY <1>4, <2>2, SeqEqual
<1>7. ws \o suffix = rest
  BY <1>5, <1>6, ConcatEmptySeq
<1> HIDE DEF m, M
<1>8. IsAt(c, N, N + 1, Null, ws \o suffix, st, m, M, l, rest)
  BY <1>5, <1>7 DEF IsAt
<1>9. FollowsBy(c, N, g, N + 1, Null, ws \o suffix, answers, bef, l, st, rest)
  BY <1>1, <1>8 DEF FollowsBy, m, M
<1>10. QED
  BY <1>9 DEF FollowsTrace

IsRest(N, g, n, suffix) ==
  /\ suffix \in Seq(1..N) /\ Len(suffix) = N + 1 - n
  /\ \A j \in 1..N + 1 - n : suffix[j] = g[n + j - 1]

EndRepeats(answers, operands, bef) == Append(answers, Answer("end", NoArg, operands)) = bef

LEMMA EndFollows ==
  ASSUME NEW c, NEW N \in Nat, NEW g, NEW n \in 1..N + 1, NEW ws \in Seq(1..N),
         NEW answers, IsSeq(answers), NEW bef,
         n # N + 1 => c[3] = "REQUIRE_ORDER" /\ KindOf(c, g[n]) = "word",
         NEW suffix, IsRest(N, g, n, suffix), FollowsTrace(c, N, g, n, Null, ws, answers, bef)
  PROVE  EndRepeats(answers, ws \o suffix, bef)
<1> DEFINE m == Len(answers)
           M == Len(bef) - 1
           others == Append(answers, Answer("end", NoArg, ws \o suffix))
<1>0. /\ suffix \in Seq(1..N) /\ Len(suffix) = N + 1 - n
      /\ \A j \in 1..N + 1 - n : suffix[j] = g[n + j - 1]
  BY DEF IsRest
<1>1. PICK l, st, rest : FollowsBy(c, N, g, n, Null, ws, answers, bef, l, st, rest)
  BY DEF FollowsTrace
<1>2. \/ InTrace(c, g, n, ws, st, m, M, l)
      \/ AtItsDashes(c, g, n, ws, m, M, l)
      \/ AmongWords(c, N, g, n, ws, st, m, M, l, rest)
      \/ BehindAll(N, n, ws, m, M, rest)
  BY <1>1, FollowsWhere
<1>3. /\ rest \in Seq(1..N) /\ Len(rest) = N - l /\ \A i \in 1..N - l : rest[i] = g[l + i]
      /\ l \in Nat /\ l <= N /\ IsSeq(bef) /\ Len(bef) \in Nat /\ Agree(1..m, answers, bef)
      /\ Repeatable(c, N, g, bef, l, st, rest)
  BY <1>1, FollowsFacts
<1>4. m \in Nat /\ M \in Int
  BY <1>3, Appended
<1> HIDE DEF m, M
<1>5. \/ AmongWords(c, N, g, n, ws, st, m, M, l, rest)
      \/ BehindAll(N, n, ws, m, M, rest)
  <2>1. n \in 1..l \/ n = l => n # N + 1
    BY <1>3
  <2>2. QED
    BY <1>2, <2>1 DEF InTrace, AtItsDashes
<1>6. ws \o suffix = rest
  <2>1. CASE BehindAll(N, n, ws, m, M, rest)
    <3>1. ws = rest /\ Len(suffix) = 0
      BY <1>0, <2>1 DEF BehindAll
    <3>2. suffix = <<>>
      BY <1>0, <3>1, EmptySeq
    <3>3. QED
      BY <1>3, <3>1, <3>2, ConcatEmptySeq
  <2>2. CASE AmongWords(c, N, g, n, ws, st, m, M, l, rest)
    <3> DEFINE k == n - 1 - l
               e == N + 1 - n
               all == ws \o suffix
    <3>1. n \in l + 1..N + 1 /\ PartOf(ws, rest, k)
      BY <2>2 DEF AmongWords
    <3>2. k \in Nat /\ e \in Nat /\ k + e = N - l /\ n - 1 = l + k
      BY <1>3, <3>1
    <3>3. Len(ws) = k /\ (\A i \in 1..k : ws[i] = rest[i]) /\ Len(suffix) = e
      BY <1>0, <3>1 DEF PartOf
    <3>4. ws \in Seq(1..N) /\ suffix \in Seq(1..N) /\ rest \in Seq(1..N)
      BY <1>0, <1>3
    <3>5. /\ all \in Seq(1..N) /\ Len(all) = Len(ws) + Len(suffix)
          /\ \A i \in 1..Len(ws) + Len(suffix) :
               all[i] = IF i <= Len(ws) THEN ws[i] ELSE suffix[i - Len(ws)]
      BY <3>4, ConcatProperties
    <3>6. \A j \in 1..e : suffix[j] = g[l + (k + j)] /\ k + j \in 1..N - l
      <4>1. \A j \in 1..e : n + j - 1 = l + (k + j) /\ k + j \in 1..N - l
        BY <1>3, <3>2
      <4>2. \A j \in 1..e : suffix[j] = g[n + j - 1]
        BY <1>0
      <4>3. QED
        BY <4>1, <4>2
    <3> HIDE DEF k, e, all
    <3>7. \A j \in 1..e : suffix[j] = rest[k + j]
      BY <1>3, <3>6
    <3>8. Len(all) = k + e /\ \A i \in 1..k + e : all[i] = IF i <= k THEN ws[i] ELSE suffix[i - k]
      BY <3>3, <3>5
    <3>9. ASSUME NEW i \in 1..k + e PROVE all[i] = rest[i]
      <4>1. CASE i <= k
        <5>1. i \in 1..k
          BY <3>2, <4>1
        <5>2. QED
          BY <3>3, <3>8, <4>1, <5>1
      <4>2. CASE ~(i <= k)
        <5>1. i - k \in 1..e /\ k + (i - k) = i
          BY <3>2, <4>2
        <5>2. suffix[i - k] = rest[k + (i - k)]
          BY <3>7, <5>1
        <5>3. QED
          BY <3>8, <4>2, <5>1, <5>2
      <4>3. QED
        BY <4>1, <4>2
    <3>10. Len(all) = Len(rest) /\ \A i \in 1..Len(all) : all[i] = rest[i]
      BY <1>3, <3>2, <3>8, <3>9
    <3>11. all = rest
      BY <3>4, <3>5, <3>10, SeqEqual
    <3>12. QED
      BY <3>11 DEF all
  <2>3. QED
    BY <1>5, <2>1, <2>2
<1>7. m = M
  BY <1>5 DEF AmongWords, BehindAll
<1>8. /\ IsSeq(others) /\ Len(others) = m + 1 /\ others[m + 1] = Answer("end", NoArg, ws \o suffix)
      /\ \A i \in 1..m : others[i] = answers[i]
  BY Appended DEF m
<1> HIDE DEF others
<1>9. Len(bef) = m + 1 /\ bef[m + 1] = others[m + 1]
  <2>1. Len(bef) = m + 1
    BY <1>3, <1>7 DEF M
  <2>2. bef[Len(bef)] = Answer("end", NoArg, rest)
    BY <1>3 DEF Repeatable, EndsWith
  <2>3. QED
    BY <1>6, <1>8, <2>1, <2>2
<1>10. Agree(1..m + 1, others, bef)
  <2>1. ASSUME NEW i \in 1..m + 1 PROVE others[i] = bef[i]
    <3>1. CASE i = m + 1
      BY <1>9, <3>1
    <3>2. CASE i # m + 1
      <4>1. i \in 1..m
        BY <1>4, <3>2
      <4>2. answers[i] = bef[i]
        BY <1>3, <4>1 DEF Agree
      <4>3. QED
        BY <1>8, <4>1, <4>2
    <3>3. QED
      BY <3>1, <3>2
  <2>2. QED
    BY <2>1 DEF Agree
<1>11. others = bef
  BY <1>3, <1>8, <1>9, <1>10, SeqsEqual
<1>12. QED
  BY <1>11 DEF others, EndRepeats

(* The host scans again what the scan has left.                             *)
LEMMA ScanAgainFollows ==
  ASSUME NEW c, NEW N \in Nat, NEW g, Onto(N, g), NEW h, Onto(N, h), NEW bef, IsSeq(bef),
         DoneTrace(c, N, g, bef), NEW operands, operands = Latest(bef).operands,
         FrontInOrder(N, g, h, N - Len(operands)),
         \A i \in DOMAIN operands : h[N - Len(operands) + i] = operands[i]
  PROVE  FollowsTrace(c, N, h, 1, Null, <<>>, <<>>, bef)
<1> DEFINE M == Len(bef) - 1
<1>1. PICK q, st, ws : DoneBy(c, N, g, bef, q, st, ws)
  BY DEF DoneTrace
<1> DEFINE l == Len(q)
<1>2. /\ Squeezed(N, g, N, q, ws) /\ Len(bef) # 0 /\ EndsWith(bef, ws)
      /\ Traced(c, N, q, l, st, bef, M) /\ Finished(c, q, l, st[M], ws)
  BY <1>1 DEF DoneBy
<1>3. /\ q \in Seq(1..N) /\ l \in Nat /\ DOMAIN q = 1..l
      /\ ws \in Seq(1..N) /\ Len(ws) \in Nat /\ DOMAIN ws = 1..Len(ws) /\ l + Len(ws) = N
  BY <1>2, SqueezedFacts
<1>4. operands = ws
  BY <1>2 DEF EndsWith, Answer, Latest
<1>5. N - Len(operands) = l /\ Len(ws) = N - l /\ l <= N
  BY <1>3, <1>4
<1>6. Len(bef) \in Nat
  BY Appended
<1>7. M \in Nat
  BY <1>2, <1>6
<1> HIDE DEF M, l
<1>8. \A i \in 1..Len(ws) : h[l + i] = ws[i]
  <2>1. DOMAIN operands = 1..Len(ws)
    BY <1>3, <1>4
  <2>2. QED
    BY <1>4, <1>5, <2>1
<1>9. Agree(1..l, h, q)
  <2>1. FrontInOrder(N, g, h, Len(q))
    BY <1>5 DEF l
  <2>4. \A i \in 1..Len(ws) : h[Len(q) + i] = ws[i]
    BY <1>8 DEF l
  <2>5. \A i \in 1..Len(q) : h[i] = q[i]
    BY <1>2, <2>1, <2>4, SqueezedIsUnique
  <2>2. \A i \in 1..l : h[i] = q[i]
    BY <2>5 DEF l
  <2>3. QED
    BY <2>2 DEF Agree
<1>10. Traced(c, N, h, l, st, bef, M)
  <2>1. Agree(0..M, st, st) /\ Agree(1..M, bef, bef) /\ l <= l
    BY <1>3 DEF Agree
  <2>2. QED
    BY <1>2, <1>3, <1>7, <1>9, <2>1, TracedCarries
<1>11. Finished(c, h, l, st[M], ws)
  <2>1. l # 0 => h[l] = q[l]
    <3>1. l # 0 => l \in 1..l
      BY <1>3
    <3>2. QED
      BY <1>9, <3>1 DEF Agree
  <2>2. QED
    BY <1>2, <2>1 DEF Finished
<1>12. Repeatable(c, N, h, bef, l, st, ws)
  BY <1>2, <1>3, <1>5, <1>8, <1>10, <1>11 DEF Repeatable, M
<1>13. Len(<<>>) = 0 /\ 0 <= M /\ Agree(1..0, <<>>, bef)
  <2>1. 1..0 = {}
    OBVIOUS
  <2>2. QED
    BY <1>7, <2>1 DEF Agree
<1>14. st[0] = <<1, Null>>
  BY <1>10 DEF Traced
<1>15. IsAt(c, N, 1, Null, <<>>, st, 0, M, l, ws)
  BY <1>14 DEF IsAt
<1>16. FollowsBy(c, N, h, 1, Null, <<>>, <<>>, bef, l, st, ws)
  BY <1>12, <1>13, <1>15 DEF FollowsBy, M
<1>17. QED
  BY <1>16 DEF FollowsTrace

-----------------------------------------------------------------------------
(* The invariant: what this scan has returned is traced and, when the scan  *)
(* that it repeats made no mistake, it goes along the trace of that one.    *)
Current == CurrentTrace(setting, Size, given, Place, nextchar, aside, returned)
Done == DoneTrace(setting, Size, given, returned)
Following == FollowsTrace(setting, Size, given, Place, nextchar, aside, returned, before)
RescanInv ==
  /\ IsSeq(before)
  /\ AllKnown(returned) => IF Reading!Scanning THEN Current ELSE Done
  /\ scans > 1 /\ AllKnown(before) =>
       IF Reading!Scanning THEN Following ELSE returned = before

(* What each action of the reader says, with its place by name.             *)
Keeps == /\ setting' = setting /\ given' = given /\ scans' = scans /\ before' = before
         /\ Size' = Size
KindAt(i) == KindOf(setting, given[i])

LEMMA SetAsideSays ==
  Reading!SetAside =>
    /\ ordering = "PERMUTE" /\ Reading!Scanning /\ nextchar = Null /\ Place < argc
    /\ KindAt(Place) = "word" /\ Place' = Place + 1 /\ aside' = Append(aside, given[Place])
    /\ nextchar' = nextchar /\ returned' = returned /\ Keeps
BY SameText DEF Reading!SetAside, Reading!Kind, Reading!At, Reading!argc, argc, Reading!setting,
   setting, Place, KindAt, KindOf, Keeps, Size

LEMMA ReturnWordSays ==
  Reading!ReturnWord =>
    /\ ordering = "RETURN_IN_ORDER" /\ Reading!Scanning /\ nextchar = Null /\ Place < argc
    /\ KindAt(Place) = "word" /\ Place' = Place + 1 /\ aside' = aside
    /\ returned' = Append(returned, Answer("word", <<given[Place], 0>>, <<>>))
    /\ nextchar' = nextchar /\ Keeps
BY SameText DEF Reading!ReturnWord, Reading!Kind, Reading!At, Reading!argc, argc, Reading!setting,
   setting, Place, KindAt, KindOf, Keeps, Size, Reading!Returns, Reading!Answer, Answer

LEMMA BeginOptionSays ==
  Reading!BeginOption =>
    /\ Reading!Scanning /\ nextchar = Null /\ Place < argc
    /\ KindAt(Place) \notin {"word", "dashes"} /\ Place' = Place /\ aside' = aside
    /\ returned' = returned /\ nextchar' = 1 /\ Keeps
BY SameText DEF Reading!BeginOption, Reading!Kind, Reading!At, Reading!argc, argc, Reading!setting,
   setting, Place, KindAt, KindOf, Keeps, Size

LEMMA PassDashesSays ==
  Reading!PassDashes =>
    /\ Reading!Scanning /\ nextchar = Null /\ Place < argc
    /\ KindAt(Place) = "dashes" /\ Place' = argc /\ aside' = aside \o Reading!Rest(Place + 1)
    /\ returned' = returned /\ nextchar' = nextchar /\ Keeps
BY SameText DEF Reading!PassDashes, Reading!Kind, Reading!At, Reading!argc, argc, Reading!setting,
   setting, Place, KindAt, KindOf, Keeps, Size, Reading!Rest

LEMMA EndSays ==
  Reading!End =>
    /\ Reading!Scanning /\ nextchar = Null
    /\ Place # argc => ordering = "REQUIRE_ORDER" /\ KindAt(Place) = "word"
    /\ returned' = Append(returned, Answer("end", NoArg, aside \o Reading!Rest(Place)))
    /\ aside' = aside /\ nextchar' = nextchar /\ Keeps
BY SameText DEF Reading!End, Reading!Kind, Reading!At, Reading!argc, argc, Reading!setting,
   setting, Place, KindAt, KindOf, Keeps, Size, Reading!Rest, Reading!Returns, Reading!Answer,
   Answer

ReadNow == OptionAt(function, line[given[Place]], Place, nextchar, argc)

LEMMA ReadOptionSays ==
  Reading!ReadOption =>
    /\ Reading!Scanning /\ nextchar # Null
    /\ returned' = Append(returned, ToldAs(given, ReadNow))
    /\ Place' = ReadNow.optind /\ nextchar' = ReadNow.nextchar /\ aside' = aside /\ Keeps
<1> SUFFICES ASSUME Reading!ReadOption
             PROVE  /\ Reading!Scanning /\ nextchar # Null
                    /\ returned' = Append(returned, ToldAs(given, ReadNow))
                    /\ Place' = ReadNow.optind /\ nextchar' = ReadNow.nextchar /\ aside' = aside
                    /\ Keeps
  OBVIOUS
<1>1. Reading!OptionAt(function, Reading!At(Place), Place, nextchar, Reading!argc) = ReadNow
  BY SameText DEF ReadNow, Reading!At, Reading!argc, argc
<1>2. /\ Reading!Scanning /\ nextchar # Null /\ aside' = aside /\ Keeps
      /\ Place' = ReadNow.optind /\ nextchar' = ReadNow.nextchar
  BY <1>1, SameText DEF Reading!ReadOption, Reading!setting, setting, Keeps, Size, Place
<1>3. returned' = Append(returned, ToldAs(given, ReadNow))
  BY <1>1, SameText DEF Reading!ReadOption, Reading!Returns, Reading!Answer, Answer, ToldAs, Place
<1>4. QED
  BY <1>2, <1>3

LEMMA ScanAgainSays ==
  Reading!ScanAgain =>
    /\ ~Reading!Scanning /\ Place' = 1 /\ aside' = <<>>
    /\ before' = returned /\ returned' = <<>>
    /\ setting' = setting /\ nextchar' = nextchar /\ Size' = Size
    /\ Reading!Moved(Latest(returned).operands)
BY DEF Reading!ScanAgain, Reading!setting, setting, Place, Size, Latest

LEMMA PlaceFacts ==
  ASSUME RInv
  PROVE  /\ Size \in Nat /\ argc = Size + 1 /\ Place \in 1..Size + 1
         /\ Place < argc => Place \in 1..Size
         /\ Place # argc => Place \in 1..Size
         /\ Onto(Size, given) /\ given \in [1..Size -> 1..Size]
         /\ IsSeq(returned) /\ aside \in Seq(1..Size)
         /\ setting[1] = line /\ setting[2] = function /\ setting[3] = ordering
         /\ ordering \in {"PERMUTE", "REQUIRE_ORDER", "RETURN_IN_ORDER"}
<1>1. Size \in Nat /\ argc = Size + 1 /\ optind \in 1..Size + 1
  <2>1. Size \in Nat /\ argc = Size + 1
    BY Facts
  <2>2. optind \in 1..argc
    BY DEF RInv, IInv, TypeOK
  <2>3. QED
    BY <2>1, <2>2
<1>2. Place \in 1..Size + 1
  BY <1>1 DEF Place
<1>3. (Place < argc => Place \in 1..Size) /\ (Place # argc => Place \in 1..Size)
  BY <1>1, <1>2
<1>4. aside \in Seq(1..Size)
  BY DEF RInv, IInv, Types
<1>5. setting[1] = line /\ setting[2] = function /\ setting[3] = ordering
  BY DEF setting
<1>6. QED
  BY <1>1, <1>2, <1>3, <1>4, <1>5, Facts

LEMMA RestFacts ==
  ASSUME RInv, NEW i \in 1..Size + 1
  PROVE  /\ Reading!Rest(i) \in Seq(1..Size) /\ Len(Reading!Rest(i)) = Size + 1 - i
         /\ \A j \in 1..Size + 1 - i : Reading!Rest(i)[j] = given[i + j - 1]
<1> DEFINE s == SubSeq(given, i, Size)
<1>1. Size \in Nat /\ given \in [1..Size -> 1..Size]
  BY Facts
<1>2. given \in Seq(1..Size) /\ Len(given) = Size
  BY <1>1
<1>3. s \in Seq(1..Size) /\ Len(s) = (IF i <= Size THEN Size - i + 1 ELSE 0)
      /\ \A j \in 1..Size - i + 1 : s[j] = given[i + j - 1]
  BY <1>1, <1>2, SubSeqProperties
<1>4. Reading!Rest(i) = s
  BY DEF Reading!Rest, Size
<1> HIDE DEF s
<1>5. s \in Seq(1..Size) /\ Len(s) = Size + 1 - i
  BY <1>1, <1>3
<1>6. \A j \in 1..Size + 1 - i : j \in 1..Size - i + 1
  BY <1>1
<1>7. \A j \in 1..Size + 1 - i : s[j] = given[i + j - 1]
  BY <1>3, <1>6
<1>8. QED
  BY <1>4, <1>5, <1>7

(* In the middle of a group.                                                *)
LEMMA LetterFacts ==
  ASSUME RInv, nextchar # Null
  PROVE  /\ Place \in 1..Size /\ KindAt(Place) # "word" /\ ReadNow.option # "end"
         /\ GoesOn(ReadNow, Place, Characters(function, At(optind)), argc)
<1>1. pc \in {"host", "option"} /\ Place = optind
  BY DEF RInv, IInv, Types, Place
<1>2. /\ optind < argc /\ ~IsWord(optind)
      /\ nextchar \in 1..Len(Characters(function, At(optind)))
  BY DEF RInv, IInv, TypeOK
<1>3. Place \in 1..Size /\ argc \in Nat /\ argc = Size + 1
  BY <1>1, <1>2, PlaceFacts
<1>4. given[optind] = argv[optind]
  <2>1. optind \in optind..Size
    BY <1>1, <1>3
  <2>2. QED
    BY <1>1, <2>1, ReaderSees
<1>5. line[given[Place]] = At(optind)
  BY <1>1, <1>4 DEF At
<1>6. KindAt(Place) # "word"
  BY <1>2, <1>5 DEF KindAt, KindOf, IsWord, setting
<1>7. At(optind) \in ArgumentType /\ optind \in Nat
  BY <1>1, <1>3, Ranges DEF RInv
<1>8. ReadNow = OptionAt(function, At(optind), optind, nextchar, argc)
  BY <1>1, <1>5 DEF ReadNow
<1>9. ReadNow.option # "end"
  BY <1>2, <1>3, <1>7, <1>8, OptionAtAnswers DEF IsAnswer
<1>10. GoesOn(ReadNow, Place, Characters(function, At(optind)), argc)
  BY <1>1, <1>2, <1>3, <1>7, <1>8, OptionAtGoesOn
<1>11. QED
  BY <1>3, <1>6, <1>9, <1>10

LEMMA KnownBefore ==
  ASSUME NEW s, IsSeq(s), NEW e, AllKnown(Append(s, e))
  PROVE  AllKnown(s) /\ e.option # Unknown
<1>1. /\ DOMAIN s = 1..Len(s) /\ DOMAIN Append(s, e) = 1..Len(s) + 1 /\ Len(s) \in Nat
      /\ Append(s, e)[Len(s) + 1] = e /\ \A i \in 1..Len(s) : Append(s, e)[i] = s[i]
  BY Appended
<1> DEFINE t == Append(s, e)
<1>2. \A i \in 1..Len(s) + 1 : t[i].option # Unknown
  BY <1>1 DEF AllKnown
<1> HIDE DEF t
<1>3. Len(s) + 1 \in 1..Len(s) + 1 /\ \A i \in 1..Len(s) : i \in 1..Len(s) + 1
  BY <1>1
<1>4. t[Len(s) + 1] = e /\ \A i \in 1..Len(s) : t[i] = s[i]
  BY <1>1 DEF t
<1>5. \A i \in 1..Len(s) : s[i].option # Unknown
  BY <1>2, <1>3, <1>4
<1>6. e.option # Unknown
  BY <1>2, <1>3, <1>4
<1>7. QED
  BY <1>1, <1>5, <1>6 DEF AllKnown

(* Whether the scan goes on after an answer.                                *)
LEMMA ScanGoesOn ==
  ASSUME IsSeq(returned), Reading!Scanning, NEW e, returned' = Append(returned, e)
  PROVE  Reading!Scanning' <=> e.option # "end"
<1> DEFINE t == Append(returned, e)
<1>1. /\ DOMAIN returned = 1..Len(returned) /\ DOMAIN t = 1..Len(returned) + 1
      /\ Len(returned) \in Nat
      /\ t[Len(returned) + 1] = e /\ \A i \in 1..Len(returned) : t[i] = returned[i]
  BY Appended
<1>2. returned' = t
  OBVIOUS
<1> HIDE DEF t
<1>3. \A i \in 1..Len(returned) : returned[i].option # "end"
  BY <1>1 DEF Reading!Scanning
<1>4. \A i \in 1..Len(returned) + 1 : i \in 1..Len(returned) \/ i = Len(returned) + 1
  BY <1>1
<1>5. Len(returned) + 1 \in 1..Len(returned) + 1
  BY <1>1
<1>6. (\A i \in DOMAIN t : t[i].option # "end") <=> e.option # "end"
  BY <1>1, <1>3, <1>4, <1>5
<1>7. QED
  BY <1>2, <1>6 DEF Reading!Scanning

(* A step that returns nothing.                                             *)
LEMMA NothingReturned ==
  ASSUME RescanInv, Reading!Scanning, returned' = returned, Keeps,
         Current => Current', Following => Following'
  PROVE  RescanInv'
<1>1. Reading!Scanning'
  BY DEF Reading!Scanning
<1>2. IsSeq(before)'
  BY DEF RescanInv, Keeps
<1>3. AllKnown(returned') => Current'
  BY DEF RescanInv
<1>4. scans' > 1 /\ AllKnown(before') => Following'
  BY DEF RescanInv, Keeps
<1>5. QED
  BY <1>1, <1>2, <1>3, <1>4 DEF RescanInv

(* A step that returns an option or a word.                                 *)
LEMMA AnswerReturned ==
  ASSUME RescanInv, IsSeq(returned), Reading!Scanning, Keeps,
         NEW e, e.option # "end", returned' = Append(returned, e),
         Current /\ e.option # Unknown => Current', Following => Following'
  PROVE  RescanInv'
<1>1. Reading!Scanning'
  BY ScanGoesOn
<1>2. IsSeq(before)'
  BY DEF RescanInv, Keeps
<1>3. AllKnown(returned') => Current'
  <2>1. AllKnown(returned') => AllKnown(returned) /\ e.option # Unknown
    BY KnownBefore
  <2>2. QED
    BY <2>1 DEF RescanInv
<1>4. scans' > 1 /\ AllKnown(before') => Following'
  BY DEF RescanInv, Keeps
<1>5. QED
  BY <1>1, <1>2, <1>3, <1>4 DEF RescanInv

LEMMA SetAsideAgain == RInv /\ RescanInv /\ Reading!SetAside => RescanInv'
<1> SUFFICES ASSUME RInv, RescanInv, Reading!SetAside PROVE RescanInv'
  OBVIOUS
<1>1. /\ setting[3] = "PERMUTE" /\ Reading!Scanning /\ nextchar = Null /\ nextchar' = Null
      /\ KindOf(setting, given[Place]) = "word" /\ Place' = Place + 1
      /\ aside' = Append(aside, given[Place]) /\ returned' = returned /\ Keeps
      /\ Place \in 1..Size
  BY SetAsideSays, PlaceFacts DEF KindAt
<1>2. /\ Size \in Nat /\ Onto(Size, given) /\ aside \in Seq(1..Size) /\ IsSeq(returned)
      /\ given[Place] \in 1..Size
  BY <1>1, PlaceFacts DEF Onto
<1>3. Current => CurrentTrace(setting, Size, given, Place + 1, Null, Append(aside, given[Place]),
                              returned)
  BY <1>1, <1>2, SetAsideTraced DEF Current
<1>4. Following => FollowsTrace(setting, Size, given, Place + 1, Null,
                                Append(aside, given[Place]), returned, before)
  BY <1>1, <1>2, SetAsideFollows DEF Following
<1>5. (Current => Current') /\ (Following => Following')
  BY <1>1, <1>3, <1>4 DEF Current, Following, Keeps
<1>6. QED
  BY <1>1, <1>5, NothingReturned

LEMMA ReturnWordAgain == RInv /\ RescanInv /\ Reading!ReturnWord => RescanInv'
<1> SUFFICES ASSUME RInv, RescanInv, Reading!ReturnWord PROVE RescanInv'
  OBVIOUS
<1> DEFINE e == Answer("word", <<given[Place], 0>>, <<>>)
<1>1. /\ setting[3] = "RETURN_IN_ORDER" /\ Reading!Scanning /\ nextchar = Null /\ nextchar' = Null
      /\ KindOf(setting, given[Place]) = "word" /\ Place' = Place + 1
      /\ aside' = aside /\ returned' = Append(returned, e) /\ Keeps /\ Place \in 1..Size
  BY ReturnWordSays, PlaceFacts DEF KindAt
<1>2. Size \in Nat /\ Onto(Size, given) /\ IsSeq(returned)
  BY PlaceFacts
<1>3. Current => CurrentTrace(setting, Size, given, Place + 1, Null, aside, Append(returned, e))
  BY <1>1, <1>2, ReturnWordTraced DEF Current
<1>4. Following => FollowsTrace(setting, Size, given, Place + 1, Null, aside, Append(returned, e),
                                before)
  BY <1>1, <1>2, ReturnWordFollows DEF Following
<1>5. e.option # "end"
  BY DEF Answer
<1> HIDE DEF e
<1>6. (Current => Current') /\ (Following => Following')
  BY <1>1, <1>3, <1>4 DEF Current, Following, Keeps
<1>7. QED
  BY <1>1, <1>2, <1>5, <1>6, AnswerReturned

LEMMA BeginOptionAgain == RInv /\ RescanInv /\ Reading!BeginOption => RescanInv'
<1> SUFFICES ASSUME RInv, RescanInv, Reading!BeginOption PROVE RescanInv'
  OBVIOUS
<1>1. /\ Reading!Scanning /\ nextchar = Null /\ nextchar' = 1
      /\ KindOf(setting, given[Place]) \notin {"word", "dashes"} /\ Place' = Place
      /\ aside' = aside /\ returned' = returned /\ Keeps /\ Place \in 1..Size
  BY BeginOptionSays, PlaceFacts DEF KindAt
<1>2. Size \in Nat /\ Onto(Size, given) /\ IsSeq(returned)
  BY PlaceFacts
<1>3. Current => CurrentTrace(setting, Size, given, Place, 1, aside, returned)
  BY <1>1, <1>2, BeginOptionTraced DEF Current
<1>4. Following => FollowsTrace(setting, Size, given, Place, 1, aside, returned, before)
  BY <1>1, <1>2, BeginOptionFollows DEF Following
<1>5. (Current => Current') /\ (Following => Following')
  BY <1>1, <1>3, <1>4 DEF Current, Following, Keeps
<1>6. QED
  BY <1>1, <1>5, NothingReturned

LEMMA ReadOptionAgain == RInv /\ RescanInv /\ Reading!ReadOption => RescanInv'
<1> SUFFICES ASSUME RInv, RescanInv, Reading!ReadOption PROVE RescanInv'
  OBVIOUS
<1> DEFINE r == ReadNow
           e == ToldAs(given, r)
<1>1. /\ Reading!Scanning /\ nextchar # Null /\ returned' = Append(returned, e)
      /\ Place' = r.optind /\ nextchar' = r.nextchar /\ aside' = aside /\ Keeps
  BY ReadOptionSays
<1>2. /\ Place \in 1..Size /\ KindOf(setting, given[Place]) # "word" /\ r.option # "end"
      /\ GoesOn(r, Place, Characters(function, At(optind)), Size + 1)
  BY <1>1, LetterFacts, PlaceFacts DEF KindAt
<1>3. Size \in Nat /\ Onto(Size, given) /\ IsSeq(returned)
  BY PlaceFacts
<1>4. r = OptionAt(setting[2], setting[1][given[Place]], Place, nextchar, Size + 1)
  BY PlaceFacts DEF ReadNow
<1>5. e.option = r.option
  BY DEF ToldAs, Answer
<1> HIDE DEF r, e
<1>6. ASSUME Current, e.option # Unknown
      PROVE  CurrentTrace(setting, Size, given, r.optind, r.nextchar, aside, Append(returned, e))
  BY <1>1, <1>2, <1>3, <1>4, <1>5, <1>6, ReadOptionTraced DEF Current, e
<1>7. Following => FollowsTrace(setting, Size, given, r.optind, r.nextchar, aside,
                                Append(returned, e), before)
  BY <1>1, <1>2, <1>3, <1>4, ReadOptionFollows DEF Following, e
<1>8. (Current /\ e.option # Unknown => Current') /\ (Following => Following')
  BY <1>1, <1>6, <1>7 DEF Current, Following, Keeps
<1>9. QED
  BY <1>1, <1>2, <1>3, <1>5, <1>8, AnswerReturned

LEMMA PassDashesAgain == RInv /\ RescanInv /\ Reading!PassDashes => RescanInv'
<1> SUFFICES ASSUME RInv, RescanInv, Reading!PassDashes PROVE RescanInv'
  OBVIOUS
<1> DEFINE rest == Reading!Rest(Place + 1)
<1>1. /\ Reading!Scanning /\ nextchar = Null /\ nextchar' = Null
      /\ KindOf(setting, given[Place]) = "dashes" /\ Place' = Size + 1
      /\ aside' = aside \o rest /\ returned' = returned /\ Keeps /\ Place \in 1..Size
  BY PassDashesSays, PlaceFacts DEF KindAt
<1>2. Size \in Nat /\ Onto(Size, given) /\ IsSeq(returned)
  BY PlaceFacts
<1>3. Place + 1 \in 1..Size + 1 /\ Size + 1 - (Place + 1) = Size - Place
      /\ \A j \in 1..Size - Place : (Place + 1) + j - 1 = Place + j
  BY <1>1, <1>2
<1>4. /\ rest \in Seq(1..Size) /\ Len(rest) = Size - Place
      /\ \A j \in 1..Size - Place : rest[j] = given[Place + j]
  <2>1. /\ rest \in Seq(1..Size) /\ Len(rest) = Size + 1 - (Place + 1)
        /\ \A j \in 1..Size + 1 - (Place + 1) : rest[j] = given[(Place + 1) + j - 1]
    BY <1>3, RestFacts
  <2> HIDE DEF rest
  <2>2. QED
    BY <1>3, <2>1
<1> HIDE DEF rest
<1>5. Current => CurrentTrace(setting, Size, given, Size + 1, Null, aside \o rest, returned)
  BY <1>1, <1>2, <1>4, PassDashesTraced DEF Current
<1>6. Following => FollowsTrace(setting, Size, given, Size + 1, Null, aside \o rest, returned,
                                before)
  BY <1>1, <1>2, <1>4, PassDashesFollows DEF Following
<1>7. (Current => Current') /\ (Following => Following')
  BY <1>1, <1>5, <1>6 DEF Current, Following, Keeps
<1>8. QED
  BY <1>1, <1>7, NothingReturned

LEMMA EndAgain == RInv /\ RescanInv /\ Reading!End => RescanInv'
<1> SUFFICES ASSUME RInv, RescanInv, Reading!End PROVE RescanInv'
  OBVIOUS
<1> DEFINE rest == Reading!Rest(Place)
           e == Answer("end", NoArg, aside \o rest)
<1>1. /\ Reading!Scanning /\ nextchar = Null /\ returned' = Append(returned, e) /\ Keeps
      /\ Place # Size + 1 => setting[3] = "REQUIRE_ORDER" /\ KindOf(setting, given[Place]) = "word"
  BY EndSays, PlaceFacts DEF KindAt
<1>2. /\ Size \in Nat /\ Onto(Size, given) /\ IsSeq(returned) /\ aside \in Seq(1..Size)
      /\ Place \in 1..Size + 1 /\ setting[3] \in {"PERMUTE", "REQUIRE_ORDER", "RETURN_IN_ORDER"}
  BY PlaceFacts
<1>3. /\ rest \in Seq(1..Size) /\ Len(rest) = Size + 1 - Place
      /\ \A j \in 1..Size + 1 - Place : rest[j] = given[Place + j - 1]
  BY <1>2, RestFacts
<1> HIDE DEF rest
<1>4. Current => DoneTrace(setting, Size, given, Append(returned, e))
  BY <1>1, <1>2, <1>3, EndTraced DEF Current
<1>5. ASSUME Following PROVE Append(returned, e) = before
  <2>1. FollowsTrace(setting, Size, given, Place, Null, aside, returned, before)
    BY <1>1, <1>5 DEF Following
  <2>2. IsRest(Size, given, Place, rest)
    BY <1>3 DEF IsRest
  <2>3. Place # Size + 1 => setting[3] = "REQUIRE_ORDER" /\ KindOf(setting, given[Place]) = "word"
    BY <1>1
  <2>4. Size \in Nat /\ Place \in 1..Size + 1 /\ aside \in Seq(1..Size) /\ IsSeq(returned)
    BY <1>2
  <2>5. EndRepeats(returned, aside \o rest, before)
    BY <2>1, <2>2, <2>3, <2>4, EndFollows
  <2>6. QED
    BY <2>5 DEF EndRepeats
<1>6. e.option = "end"
  BY DEF Answer
<1> HIDE DEF e
<1>7. ~Reading!Scanning'
  BY <1>1, <1>2, <1>6, ScanGoesOn
<1>8. IsSeq(before)'
  BY <1>1 DEF RescanInv, Keeps
<1>9. AllKnown(returned') => Done'
  <2>1. AllKnown(returned') => AllKnown(returned)
    BY <1>1, <1>2, KnownBefore
  <2>2. AllKnown(returned') => DoneTrace(setting, Size, given, Append(returned, e))
    BY <1>1, <1>4, <2>1 DEF RescanInv
  <2>3. QED
    BY <1>1, <2>2 DEF Done, Keeps
<1>10. scans' > 1 /\ AllKnown(before') => returned' = before'
  BY <1>1, <1>5 DEF RescanInv, Keeps
<1>11. QED
  BY <1>7, <1>8, <1>9, <1>10 DEF RescanInv

LEMMA ScanAgainAgain == RInv /\ RInv' /\ RescanInv /\ Reading!ScanAgain => RescanInv'
<1> SUFFICES ASSUME RInv, RInv', RescanInv, Reading!ScanAgain PROVE RescanInv'
  OBVIOUS
<1> DEFINE operands == Latest(returned).operands
<1>1. /\ ~Reading!Scanning /\ Place' = 1 /\ aside' = <<>> /\ before' = returned /\ returned' = <<>>
      /\ setting' = setting /\ nextchar' = nextchar /\ Size' = Size /\ Reading!Moved(operands)
  BY ScanAgainSays
<1>2. Size \in Nat /\ Onto(Size, given) /\ given \in [1..Size -> 1..Size] /\ IsSeq(returned)
  BY PlaceFacts
<1>3. Onto(Size, given')
  <2>1. Onto(Size', given')
    BY DEF RInv, OrderInv
  <2>2. QED
    BY <1>1, <2>1
<1>4. nextchar = Null
  <2>1. pc = "done"
    BY <1>1 DEF RInv, ToldInv, Reading!Scanning
  <2>2. QED
    BY <2>1 DEF RInv, IInv, Types
<1>5. DOMAIN returned' = {}
  BY <1>1
<1>6. Reading!Scanning'
  BY <1>5 DEF Reading!Scanning
<1>7. Current'
  <2>1. CurrentTrace(setting, Size, given', 1, Null, <<>>, <<>>)
    BY <1>2, BeginsTraced
  <2>2. QED
    BY <1>1, <1>4, <2>1 DEF Current
<1>8. ASSUME AllKnown(before') PROVE Following'
  <2>1. DoneTrace(setting, Size, given, returned)
    BY <1>1, <1>8 DEF RescanInv, Done
  <2>2. FrontInOrder(Size, given, given', Size - Len(operands))
    <3>1. DOMAIN given = 1..Size
      BY <1>2
    <3> HIDE DEF operands
    <3>2. ASSUME NEW i \in 1..Size - Len(operands), NEW j \in 1..Size - Len(operands), i < j
          PROVE  \E k, l \in 1..Size : k < l /\ given[k] = given'[i] /\ given[l] = given'[j]
      <4>1. Reading!Earlier(given'[i], given'[j])
        BY <1>1, <3>2 DEF Reading!Moved, Size
      <4>2. QED
        BY <3>1, <4>1 DEF Reading!Earlier
    <3>3. QED
      BY <3>2 DEF FrontInOrder
  <2>3. \A i \in DOMAIN operands : given'[Size - Len(operands) + i] = operands[i]
    BY <1>1 DEF Reading!Moved, Size
  <2>4. FollowsTrace(setting, Size, given', 1, Null, <<>>, <<>>, returned)
    BY <1>2, <1>3, <2>1, <2>2, <2>3, ScanAgainFollows
  <2>5. QED
    BY <1>1, <1>4, <2>4 DEF Following
<1>9. IsSeq(before)'
  BY <1>1, <1>2 DEF IsSeq
<1>10. QED
  BY <1>6, <1>7, <1>8, <1>9 DEF RescanInv

LEMMA NextRescanInv == RInv /\ RInv' /\ RescanInv /\ [Reading!Next]_Reading!vars => RescanInv'
<1> SUFFICES ASSUME RInv, RInv', RescanInv, [Reading!Next]_Reading!vars PROVE RescanInv'
  OBVIOUS
<1>1. CASE Reading!Next
  BY <1>1, SetAsideAgain, ReturnWordAgain, BeginOptionAgain, ReadOptionAgain, PassDashesAgain,
     EndAgain, ScanAgainAgain DEF Reading!Next
<1>2. CASE UNCHANGED Reading!vars
  <2>1. /\ setting' = setting /\ given' = given /\ Place' = Place /\ nextchar' = nextchar
        /\ aside' = aside /\ returned' = returned /\ scans' = scans /\ before' = before
        /\ Size' = Size
    BY <1>2 DEF Reading!vars, Reading!setting, setting, Place, Size
  <2>2. QED
    BY <2>1 DEF RescanInv, Current, Done, Following, Reading!Scanning
<1>3. QED
  BY <1>1, <1>2

LEMMA InitRescanInv == Init => RescanInv
<1> SUFFICES ASSUME Init PROVE RescanInv
  OBVIOUS
<1>1. /\ returned = <<>> /\ before = <<>> /\ scans = 1 /\ aside = <<>> /\ nextchar = Null
      /\ Place = 1
  BY DEF Init, Place
<1>2. Size \in Nat
  BY LineType DEF Init, Size
<1>3. Reading!Scanning
  <2>1. DOMAIN returned = {}
    BY <1>1
  <2>2. QED
    BY <2>1 DEF Reading!Scanning
<1>4. Current
  BY <1>1, <1>2, BeginsTraced DEF Current
<1>5. IsSeq(before)
  <2>1. <<>> \in Seq({})
    OBVIOUS
  <2>2. QED
    BY <1>1, <2>1 DEF IsSeq
<1>6. ~(scans > 1)
  BY <1>1
<1>7. QED
  BY <1>3, <1>4, <1>5, <1>6 DEF RescanInv

(***************************************************************************)
(* A scan of a line without a mistake can be repeated on the argv that it  *)
(* has left: the next one, from optind 0 or 1, returns the same options    *)
(* with the same arguments and the same operands.                          *)
(***************************************************************************)
THEOREM ScanCanBeRepeated == Spec => []RescanAgrees
<1>1. Init => RInv /\ RescanInv
  BY InitRInv, InitRescanInv
<1>2. RInv /\ RescanInv /\ [Next]_vars => (RInv /\ RescanInv)'
  <2>1. RInv /\ [Next]_vars => RInv' /\ [Reading!Next]_Reading!vars
    BY NextRInv, NextReads
  <2>2. QED
    BY <2>1, NextRescanInv
<1>3. RInv /\ RescanInv => RescanAgrees
  <2> SUFFICES ASSUME RInv, RescanInv, pc = "done", scans > 1,
                      \A i \in DOMAIN before : before[i].option # Unknown
               PROVE  returned = before
    BY DEF RescanAgrees
  <2>1. AllKnown(before)
    BY DEF AllKnown
  <2>2. ~Reading!Scanning
    <3>1. returned # <<>> /\ returned[Len(returned)].option = "end" /\ IsSeq(returned)
      BY DEF RInv, ToldInv, Latest
    <3>2. PICK S : returned \in Seq(S)
      BY <3>1 DEF IsSeq
    <3>3. Len(returned) \in DOMAIN returned
      BY <3>1, <3>2, EmptySeq
    <3>4. QED
      BY <3>1, <3>3 DEF Reading!Scanning
  <2>3. QED
    BY <2>1, <2>2 DEF RescanInv
<1>4. QED
  BY <1>1, <1>2, <1>3, PTL DEF Spec
=============================================================================
