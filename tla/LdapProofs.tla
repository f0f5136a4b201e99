------------------------------- MODULE LdapProofs -------------------------------
(***************************************************************************)
(* Proofs about LdapLib: its type invariant, that a careful host never     *)
(* makes it die, that it implements the cursor of LdapResults, and that    *)
(* the entries it returns have all values of their attributes.             *)
(***************************************************************************)
EXTENDS LdapLib, TLAPS, FiniteSetTheorems, NaturalsInduction, SequenceTheorems

-----------------------------------------------------------------------------
(* Types of what an extraction works on.                                    *)

MessageAttribute ==
  [type : {"name", "member"}, range : {NoRange} \cup (Nat \X Int), values : Seq(Nat)]
Slot == [name : Names, values : Seq(Nat)]
Entry == [dn : DNs, attributes : Seq(Slot)]
Extraction ==
  [request : Requests, entry : Entry, todo : Seq(MessageAttribute),
   slot : Nat, asked : Nat, seen : SUBSET Int]

(* An extraction is none of the records that stand for no call.             *)
LEMMA ExtractionIsNotIdle ==
  ASSUME NEW c \in Extraction
  PROVE  c # Idle
BY MarksAssumption DEF Extraction, Idle

-----------------------------------------------------------------------------
(* Values and entries.                                                      *)

(* A range of values is a sequence of them.                                 *)
LEMMA FromIsASequence ==
  ASSUME NEW first \in Nat, NEW last \in Int, last >= first - 1
  PROVE  /\ From(first, last) \in Seq(Nat)
         /\ Len(From(first, last)) = last - first + 1
         /\ \A i \in 1..last - first + 1 : From(first, last)[i] = first + i - 1
         /\ From(first, last) = <<>> <=> last = first - 1
<1> DEFINE n == last - first + 1
           s == From(first, last)
<1>1. n \in Nat /\ s \in [1..n -> Nat] BY DEF From
<1>2. s \in Seq(Nat) BY <1>1, SeqDef
<1>3. Len(s) = n BY <1>1, <1>2, LenProperties
<1>4. \A i \in 1..n : s[i] = first + i - 1 BY DEF From
<1>5. s = <<>> <=> n = 0 BY <1>2, <1>3, EmptySeq
<1> QED BY <1>2, <1>3, <1>4, <1>5

(* Two ranges that meet make one.                                           *)
LEMMA FromContinues ==
  ASSUME NEW k \in Nat, NEW m \in Nat, k <= m
  PROVE  From(1, k) \o From(k + 1, m) = From(1, m)
<1> DEFINE a == From(1, k)  b == From(k + 1, m)  c == From(1, m)
<1>0. k >= 1 - 1 /\ m >= 1 - 1 /\ m >= (k + 1) - 1 /\ k \in Int /\ m \in Int OBVIOUS
<1>1. a \in Seq(Nat) /\ Len(a) = k /\ \A i \in 1..k : a[i] = i
  <2>1. /\ a \in Seq(Nat) /\ Len(a) = k - 1 + 1
        /\ \A i \in 1..k - 1 + 1 : a[i] = 1 + i - 1
    BY <1>0, FromIsASequence
  <2> QED BY <2>1
<1>2. b \in Seq(Nat) /\ Len(b) = m - k /\ \A i \in 1..m - k : b[i] = k + i
  <2>1. /\ b \in Seq(Nat) /\ Len(b) = m - (k + 1) + 1
        /\ \A i \in 1..m - (k + 1) + 1 : b[i] = k + 1 + i - 1
    <3>1. k + 1 \in Nat OBVIOUS
    <3> HIDE DEF b
    <3> QED BY <1>0, <3>1, FromIsASequence DEF b
  <2> QED BY <2>1
<1>3. c \in Seq(Nat) /\ Len(c) = m /\ \A i \in 1..m : c[i] = i
  <2>1. /\ c \in Seq(Nat) /\ Len(c) = m - 1 + 1
        /\ \A i \in 1..m - 1 + 1 : c[i] = 1 + i - 1
    BY <1>0, FromIsASequence
  <2> QED BY <2>1
<1> HIDE DEF a, b, c
<1>4. /\ a \o b \in Seq(Nat) /\ Len(a \o b) = m
      /\ \A i \in 1..m : (a \o b)[i] = IF i <= k THEN a[i] ELSE b[i - k]
  <2>1. /\ a \o b \in Seq(Nat) /\ Len(a \o b) = Len(a) + Len(b)
        /\ \A i \in 1..Len(a) + Len(b) :
             (a \o b)[i] = IF i <= Len(a) THEN a[i] ELSE b[i - Len(a)]
    BY <1>1, <1>2, ConcatProperties
  <2>2. Len(a) + Len(b) = m BY <1>1, <1>2
  <2> QED BY <1>1, <2>1, <2>2
<1>5. \A i \in 1..m : (a \o b)[i] = c[i]
  <2> TAKE i \in 1..m
  <2>0. i \in Int /\ k \in Int /\ (i <= k \/ i > k) OBVIOUS
  <2>1. CASE i <= k BY <1>1, <1>3, <1>4, <2>1
  <2>2. CASE i > k
    <3> DEFINE h == i - k
    <3>1. h \in 1..m - k /\ k + h = i BY <2>2
    <3>2. (a \o b)[i] = b[h] BY <1>4, <2>2
    <3> HIDE DEF h
    <3>3. b[h] = i BY <1>2, <3>1
    <3> QED BY <1>3, <3>2, <3>3
  <2> QED BY <2>0, <2>1, <2>2
<1>6. a \o b = c BY <1>3, <1>4, <1>5, SeqEqual
<1> QED BY <1>6 DEF a, b, c

(* Sequences of one domain have one length.                                 *)
LEMMA SameInterval ==
  ASSUME NEW m \in Nat, NEW n \in Nat, 1..m = 1..n
  PROVE  m = n
<1>1. m = 0 \/ m \in 1..n OBVIOUS
<1>2. n = 0 \/ n \in 1..m OBVIOUS
<1> QED BY <1>1, <1>2

(* What WithValues changes of an entry, and what it leaves.                 *)
LEMMA WithValuesFacts ==
  ASSUME NEW e \in Entry, NEW i \in DOMAIN e.attributes, NEW values \in Seq(Nat),
         NEW f, f = WithValues(e, i, values)
  PROVE  /\ f \in Entry /\ f.dn = e.dn
         /\ DOMAIN f.attributes = DOMAIN e.attributes
         /\ \A j \in DOMAIN e.attributes :
              /\ f.attributes[j].name = e.attributes[j].name
              /\ f.attributes[j].values =
                   IF j = i THEN e.attributes[i].values \o values
                   ELSE e.attributes[j].values
<1> DEFINE a == e.attributes
           new == [a[i] EXCEPT !.values = @ \o values]
           b == [a EXCEPT ![i] = new]
<1>1. a \in Seq(Slot) /\ i \in 1..Len(a) BY LenProperties DEF Entry
<1>2. a[i] \in Slot BY <1>1, ElementOfSeq
<1>3. a[i].values \o values \in Seq(Nat) BY <1>2, ConcatProperties DEF Slot
<1>4. /\ new \in Slot /\ new.name = a[i].name /\ new.values = a[i].values \o values
  BY <1>2, <1>3 DEF Slot
<1>5. /\ b \in Seq(Slot) /\ Len(b) = Len(a)
      /\ \A j \in 1..Len(a) : b[j] = IF j = i THEN new ELSE a[j]
  <2> HIDE DEF new
  <2> QED BY <1>1, <1>4, ExceptSeq
<1>6. f = [e EXCEPT !.attributes = b] BY DEF WithValues
<1>7. f \in Entry /\ f.dn = e.dn /\ f.attributes = b BY <1>5, <1>6 DEF Entry
<1>8. DOMAIN b = 1..Len(a) /\ DOMAIN a = 1..Len(a) BY <1>1, <1>5, LenProperties
<1> HIDE DEF a, b, new
<1>9. /\ DOMAIN b = DOMAIN a
      /\ \A j \in DOMAIN a : /\ b[j].name = a[j].name
                             /\ b[j].values = IF j = i THEN a[i].values \o values
                                              ELSE a[j].values
  BY <1>4, <1>5, <1>8
<1> QED BY <1>7, <1>9 DEF a, b

(* What WithSlot changes of an entry, and what it leaves.                   *)
LEMMA WithSlotFacts ==
  ASSUME NEW e \in Entry, NEW type \in {"name", "member"},
         NEW f, f = WithSlot(e, type)
  PROVE  /\ f \in Entry /\ f.dn = e.dn
         /\ DOMAIN e.attributes = 1..Len(e.attributes) /\ Len(e.attributes) \in Nat
         /\ DOMAIN f.attributes = 1..Len(e.attributes) + 1
         /\ \A j \in DOMAIN e.attributes : f.attributes[j] = e.attributes[j]
         /\ f.attributes[Len(e.attributes) + 1] = [name |-> Requested(type), values |-> <<>>]
<1> DEFINE a == e.attributes
           new == [name |-> Requested(type), values |-> <<>>]
           b == Append(a, new)
<1>1. a \in Seq(Slot) BY DEF Entry
<1>2. new \in Slot BY EmptySeq DEF Slot, Names, Requested
<1>3. f = [e EXCEPT !.attributes = b] BY DEF WithSlot
<1> HIDE DEF new
<1>4. /\ b \in Seq(Slot) /\ Len(b) = Len(a) + 1
      /\ \A j \in 1..Len(a) : b[j] = a[j]
      /\ b[Len(a) + 1] = new
  BY <1>1, <1>2, AppendProperties
<1>5. Len(a) \in Nat /\ DOMAIN a = 1..Len(a) /\ DOMAIN b = 1..Len(a) + 1
  BY <1>1, <1>4, LenProperties
<1> HIDE DEF b
<1>6. f \in Entry /\ f.dn = e.dn /\ f.attributes = b BY <1>3, <1>4 DEF Entry
<1> QED BY <1>4, <1>5, <1>6 DEF new

-----------------------------------------------------------------------------
(* What the server still has.                                               *)

(* A set of numbers has a least one.                                        *)
LEMMA LeastNumber ==
  ASSUME NEW T, T \subseteq Nat, T # {}
  PROVE  \E x \in T : \A y \in T : x <= y
<1> DEFINE R == OpToRel(<, Nat)
<1>1. R = {ss \in Nat \X Nat : ss[1] < ss[2]} BY DEF OpToRel
<1>2. IsWellFoundedOn(R, Nat) BY NatLessThanWellFounded
<1> HIDE DEF R
<1>3. PICK x \in T : \A y \in T : ~(<<y, x>> \in R) BY <1>2, WFMin
<1>4. \A y \in T : ~(y < x) BY <1>1, <1>3
<1>5. \A y \in T : x <= y BY <1>3, <1>4
<1> QED BY <1>3, <1>5

(* The entries that are left are results behind the position.               *)
LEMMA LeftFacts ==
  ASSUME NEW position \in Nat
  PROVE  /\ Left(position) \subseteq DOMAIN Results
         /\ IsFiniteSet(Left(position)) /\ Cardinality(Left(position)) \in Nat
         /\ \A i \in Left(position) :
              i \in 1..Len(Results) /\ i > position /\ Results[i] \in DNs /\ Exists(Results[i])
<1> DEFINE left == Left(position)
<1>1. Len(Results) \in Nat /\ DOMAIN Results = 1..Len(Results)
  BY ResultsAssumption, LenProperties
<1>2. left \in SUBSET (1..Len(Results)) BY <1>1 DEF Left
<1>3. IsFiniteSet(1..Len(Results)) BY <1>1, FS_Interval
<1>4. IsFiniteSet(left) /\ Cardinality(left) \in Nat
  <2> HIDE DEF left
  <2> QED BY <1>2, <1>3, FS_Subset, FS_CardinalityType
<1>5. \A i \in left : /\ i \in 1..Len(Results) /\ i > position /\ Results[i] \in DNs
                      /\ Exists(Results[i])
  BY <1>1, <1>2 DEF Left, DNs
<1> QED BY <1>1, <1>2, <1>4, <1>5

(* The first entry that is left is one that no other precedes.              *)
LEMMA FirstOfRemaining ==
  ASSUME NEW position \in Nat, Left(position) # {}
  PROVE  \E i \in Left(position) :
           (\A j \in Left(position) : i <= j) /\ Remaining(position)[1] = Results[i]
<1> DEFINE left == Left(position)
           UpTo(i) == {j \in left : j <= i}
           first == CHOOSE i \in left : Cardinality(UpTo(i)) = 1
<1>1. /\ left \in SUBSET Nat /\ left # {} /\ IsFiniteSet(left) /\ Cardinality(left) \in Nat
  <2>1. \A i \in left : i \in 1..Len(Results) BY LeftFacts
  <2>2. \A i \in left : i \in Nat
    <3> HIDE DEF left
    <3> QED BY <2>1
  <2>3. IsFiniteSet(left) /\ Cardinality(left) \in Nat BY LeftFacts
  <2> QED BY <2>2, <2>3
<1>2. PICK i \in left : \A j \in left : i <= j
  <2> HIDE DEF left
  <2> QED BY <1>1, LeastNumber
<1>3. Cardinality(UpTo(i)) = 1
  <2>1. UpTo(i) = {i} BY <1>1, <1>2
  <2> QED BY <2>1, FS_Singleton
<1>4. first \in left /\ Cardinality(UpTo(first)) = 1 BY <1>2, <1>3
<1>5. first = i
  <2>1. IsFiniteSet(UpTo(first)) BY <1>1, FS_Subset
  <2>2. PICK x : UpTo(first) = {x} BY <1>4, <2>1, FS_Singleton
  <2>3. first \in UpTo(first) /\ i \in UpTo(first) BY <1>1, <1>2, <1>4
  <2> QED BY <2>2, <2>3
<1>6. Cardinality(left) \in Nat \ {0} BY <1>1, FS_EmptySet
<1>7. Remaining(position)[1] = Results[first]
  <2>1. 1 \in 1..Cardinality(left) BY <1>6
  <2> QED BY <2>1 DEF Remaining
<1> QED BY <1>2, <1>5, <1>7

(* The page that PageAnswers hands on has that entry and no other.          *)
LEMMA PageOfRemaining ==
  ASSUME NEW position \in Nat, NEW rest, rest = Remaining(position),
         NEW count, count = IF Len(rest) < PageSize THEN Len(rest) ELSE PageSize
  PROVE  /\ rest = <<>> <=> Left(position) = {}
         /\ rest # <<>> => \E i \in Left(position) :
              /\ \A j \in Left(position) : i <= j
              /\ count = 1 /\ rest[count] = Results[i]
              /\ SubSeq(rest, 1, count) = <<Results[i]>>
<1> DEFINE n == Cardinality(Left(position))
           S == {rest[k] : k \in 1..n}
<1>1. n \in Nat /\ (n = 0 <=> Left(position) = {}) BY LeftFacts, FS_EmptySet
<1>2. rest \in [1..n -> S] BY DEF Remaining
<1>3. rest \in Seq(S)
  <2> HIDE DEF n, S
  <2> QED BY <1>1, <1>2, SeqDef
<1>4. Len(rest) = n
  <2> HIDE DEF n, S
  <2> QED BY <1>1, <1>2, <1>3, LenProperties
<1>5. rest = <<>> <=> n = 0
  <2> HIDE DEF n, S
  <2> QED BY <1>3, <1>4, EmptySeq
<1>6. ASSUME rest # <<>>
      PROVE  \E i \in Left(position) :
              /\ \A j \in Left(position) : i <= j
              /\ count = 1 /\ rest[count] = Results[i]
              /\ SubSeq(rest, 1, count) = <<Results[i]>>
  <2>1. PICK i \in Left(position) :
          (\A j \in Left(position) : i <= j) /\ rest[1] = Results[i]
    BY <1>1, <1>5, <1>6, FirstOfRemaining
  <2>2. count = 1
    <3> HIDE DEF n
    <3> QED BY <1>1, <1>4, <1>5, <1>6 DEF PageSize
  <2> DEFINE T == {Results[i]}  page == SubSeq(rest, 1, 1)
  <2>3. /\ page \in Seq(T) /\ Len(page) = 1 /\ page[1] = rest[1]
    <3>1. \A k \in 1..1 : rest[k] \in T BY <2>1
    <3>2. /\ page \in Seq(T) /\ Len(page) = 1
          /\ \A k \in 1..1 - 1 + 1 : page[k] = rest[1 + k - 1]
      <4> HIDE DEF T
      <4> QED BY <3>1, SubSeqProperties
    <3> QED BY <3>2
  <2>4. page = <<Results[i]>>
    <3> HIDE DEF page
    <3>1. <<Results[i]>> \in Seq(T) /\ Len(<<Results[i]>>) = 1 OBVIOUS
    <3>2. \A k \in 1..Len(page) : page[k] = <<Results[i]>>[k] BY <2>1, <2>3
    <3> HIDE DEF T
    <3> QED BY <2>3, <3>1, <3>2, SeqEqual
  <2> QED BY <2>1, <2>2, <2>4
<1> QED BY <1>1, <1>5, <1>6

(* Results are told apart by their position.                                *)
LEMMA PositionOfResult ==
  ASSUME NEW i \in DOMAIN Results
  PROVE  PositionOf(Results[i]) = i
BY ResultsAssumption DEF PositionOf

-----------------------------------------------------------------------------
(* What a message has.                                                      *)

WantedOf(attributes, type) ==
  attributes = <<>> \/ \E i \in DOMAIN attributes : attributes[i].type = type
Has(message, type) == \E k \in DOMAIN message : message[k].type = type

(* An attribute as the server sends it of an entry with n values: the name  *)
(* has one value, member all of them or else its first range.               *)
SentWhole(a) == a.range = NoRange
AsSent(a, n) ==
  /\ a.type = "name" => SentWhole(a) /\ a.values = From(1, 1)
  /\ a.type = "member" =>
       (SentWhole(a) /\ a.values = From(1, n)) \/ (~SentWhole(a) /\ a.range[1] = 0)

(* What Sent gives is such an attribute.                                    *)
LEMMA SentFacts ==
  ASSUME NEW n \in Nat
  PROVE  /\ Sent("member", n, RangeSize) \in MessageAttribute
         /\ Sent("member", n, RangeSize).type = "member"
         /\ AsSent(Sent("member", n, RangeSize), n)
<1>0. RangeSize \in Nat \ {0} BY RangeSizeAssumption
<1>1. CASE n <= RangeSize
  <2>1. Sent("member", n, RangeSize)
          = [type |-> "member", range |-> NoRange, values |-> From(1, n)]
    BY <1>1 DEF Sent, Attribute
  <2>2. From(1, n) \in Seq(Nat) BY FromIsASequence
  <2> QED BY <2>1, <2>2 DEF MessageAttribute, AsSent, SentWhole
<1>2. CASE ~(n <= RangeSize)
  <2> DEFINE values == From(1, RangeSize)
             range == <<0, RangeSize - 1>>
  <2>1. Sent("member", n, RangeSize)
          = [type |-> "member", range |-> range, values |-> values]
    <3>1. ~(n - 0 <= RangeSize) /\ 0 + RangeSize - 1 = RangeSize - 1
          /\ 0 + RangeSize = RangeSize /\ 0 + 1 = 1
      BY <1>0, <1>2
    <3> QED BY <1>2, <3>1 DEF Sent, Ranged, Attribute
  <2>2. values \in Seq(Nat)
    <3>1. RangeSize \in Int /\ RangeSize >= 1 - 1 /\ 1 \in Nat BY <1>0
    <3> QED BY <3>1, FromIsASequence
  <2>3. range \in Nat \X Int /\ range[1] = 0 /\ range # NoRange BY <1>0 DEF NoRange
  <2> HIDE DEF values, range
  <2> QED BY <2>1, <2>2, <2>3 DEF MessageAttribute, AsSent, SentWhole
<1> QED BY <1>1, <1>2

(* The message about an existing entry: each attribute once and as it is,   *)
(* and none that is wanted and has values is missing.                       *)
LEMMA MessageFacts ==
  ASSUME NEW dn, NEW attributes, NEW n \in Nat, directory.members[dn] = n,
         NEW message \in Messages(dn, attributes)
  PROVE  /\ message \in Seq(MessageAttribute)
         /\ \A k \in DOMAIN message : AsSent(message[k], n)
         /\ \A k, l \in DOMAIN message : message[k].type = message[l].type => k = l
         /\ WantedOf(attributes, "name") => Has(message, "name")
         /\ WantedOf(attributes, "member") /\ n # 0 => Has(message, "member")
<1> DEFINE name == Attribute("name", NoRange, <<1>>)
           member == Sent("member", n, RangeSize)
           present == {name} \cup IF n = 0 THEN {} ELSE {member}
           wanted == {a \in present : WantedOf(attributes, a.type)}
           N == Cardinality(wanted)
<1>1. <<1>> = From(1, 1)
  <2> DEFINE one == From(1, 1)
  <2>1. one \in Seq(Nat) /\ Len(one) = 1 - 1 + 1 /\ \A i \in 1..1 - 1 + 1 : one[i] = 1 + i - 1
    <3>1. 1 \in Nat /\ 1 \in Int /\ 1 >= 1 - 1 OBVIOUS
    <3> QED BY <3>1, FromIsASequence
  <2>2. <<1>> \in Seq(Nat) /\ Len(<<1>>) = 1 OBVIOUS
  <2> HIDE DEF one
  <2>3. \A i \in 1..Len(one) : one[i] = <<1>>[i] BY <2>1
  <2>4. one = <<1>> BY <2>1, <2>2, <2>3, SeqEqual
  <2> QED BY <2>4 DEF one
<1>2. /\ name \in MessageAttribute /\ name.type = "name" /\ AsSent(name, n)
  <2>1. name = [type |-> "name", range |-> NoRange, values |-> <<1>>] BY DEF Attribute
  <2>2. <<1>> \in Seq(Nat) OBVIOUS
  <2> QED BY <1>1, <2>1, <2>2 DEF MessageAttribute, AsSent, SentWhole
<1>3. member \in MessageAttribute /\ member.type = "member" /\ AsSent(member, n)
  BY SentFacts
<1>4. message \in SetToSeqs(wanted)
  BY DEF Messages, WantedOf
<1> HIDE DEF name, member
<1>5. /\ wanted \in SUBSET MessageAttribute
      /\ \A a \in wanted : AsSent(a, n)
      /\ \A a, b \in wanted : a.type = b.type => a = b
  BY <1>2, <1>3
<1>6. IsFiniteSet(wanted) /\ N \in Nat
  <2>1. IsFiniteSet({name} \cup {member}) BY FS_Singleton, FS_AddElement
  <2>2. wanted \subseteq {name} \cup {member} OBVIOUS
  <2> HIDE DEF wanted
  <2> QED BY <2>1, <2>2, FS_Subset, FS_CardinalityType
<1>7. /\ WantedOf(attributes, "name") => name \in wanted
      /\ WantedOf(attributes, "member") /\ n # 0 => member \in wanted
  BY <1>2, <1>3
<1> HIDE DEF wanted
<1>8. /\ message \in [1..N -> wanted]
      /\ \A i, j \in 1..N : i # j => message[i] # message[j]
  BY <1>4 DEF SetToSeqs
<1> HIDE DEF N
<1>9. message \in Seq(MessageAttribute) /\ DOMAIN message = 1..N
  <2>1. message \in [1..N -> MessageAttribute] BY <1>5, <1>8
  <2> QED BY <1>6, <2>1, SeqDef
<1>10. \A k \in DOMAIN message : message[k] \in wanted BY <1>8
<1>11. \A a \in wanted : \E k \in DOMAIN message : message[k] = a
  <2>1. message \in Injection(1..N, wanted) BY <1>8 DEF Injection, IsInjective
  <2>2. Cardinality(1..N) = Cardinality(wanted)
    <3>1. 1 \in Int /\ N \in Int BY <1>6
    <3>2. Cardinality(1..N) = IF 1 > N THEN 0 ELSE N - 1 + 1 BY <3>1, FS_Interval
    <3> QED BY <1>6, <3>2 DEF N
  <2>3. message \in Surjection(1..N, wanted) BY <1>6, <2>1, <2>2, FS_Injection
  <2> QED BY <1>9, <2>3 DEF Surjection
<1>12. \A k, l \in DOMAIN message : message[k].type = message[l].type => k = l
  BY <1>5, <1>8, <1>9, <1>10
<1>13. \A k \in DOMAIN message : AsSent(message[k], n) BY <1>5, <1>10
<1>14. WantedOf(attributes, "name") => Has(message, "name") BY <1>2, <1>7, <1>11 DEF Has
<1>15. WantedOf(attributes, "member") /\ n # 0 => Has(message, "member")
  BY <1>3, <1>7, <1>11 DEF Has
<1> QED BY <1>9, <1>12, <1>13, <1>14, <1>15

-----------------------------------------------------------------------------
(* The invariant of the types: it also says that a page is always the one   *)
(* entry that the search stands on, that an extraction belongs to a request *)
(* that exists, and that the slots of its entry are those of the request.   *)

PageInv(r) ==
  /\ r.index = r.count
  /\ r.page \notin {<<>>, Freed} =>
       r.position \in DOMAIN Results /\ r.page = <<Results[r.position]>> /\ r.count = 1
RequestsInv ==
  /\ requests \in [Requests -> LdapRequest \cup {Null}]
  /\ \A q \in Requests : requests[q] # Null => PageInv(requests[q])

SlotsAreThoseRequested(c) ==
  LET attributes == requests[c.request].attributes
  IN  attributes # <<>> =>
        /\ DOMAIN c.entry.attributes = DOMAIN attributes
        /\ \A i \in DOMAIN attributes : c.entry.attributes[i].name = attributes[i]
CallInv(c) ==
  \/ c = Idle
  \/ /\ c \in Extraction
     /\ requests[c.request] # Null
     /\ c.slot \in 0..Len(c.entry.attributes)
     /\ c.slot # 0 => c.todo # <<>>
     /\ SlotsAreThoseRequested(c)

TypeInv ==
  /\ pConnection \in {Null, "open", "unbound"}
  /\ RequestsInv /\ CallInv(call)
  /\ directory.members \in [DNs -> -1..MaxMembers]
  /\ trusted \in BOOLEAN /\ process \in {"running", "dead"}

(* LdapLocateNamedAttr finds a slot with the name it looks for if there is  *)
(* one.                                                                     *)
LEMMA LocateFacts ==
  ASSUME NEW e \in Entry, NEW type,
         NEW i, i = LdapLocateNamedAttr(e, type)
  PROVE  /\ i \in 0..Len(e.attributes) /\ DOMAIN e.attributes = 1..Len(e.attributes)
         /\ i # 0 => i \in DOMAIN e.attributes /\ e.attributes[i].name = Requested(type)
         /\ i = 0 => \A j \in DOMAIN e.attributes : e.attributes[j].name # Requested(type)
<1> DEFINE same == {j \in DOMAIN e.attributes : e.attributes[j].name = Requested(type)}
<1>1. DOMAIN e.attributes = 1..Len(e.attributes) /\ Len(e.attributes) \in Nat
  BY LenProperties DEF Entry
<1>2. CASE same = {} BY <1>1, <1>2 DEF LdapLocateNamedAttr
<1>3. CASE same # {}
  <2>1. i = CHOOSE j \in same : \A k \in same : j <= k BY <1>3 DEF LdapLocateNamedAttr
  <2>2. same \subseteq Nat BY <1>1
  <2>3. \E j \in same : \A k \in same : j <= k
    <3> HIDE DEF same
    <3> QED BY <1>3, <2>2, LeastNumber
  <2>4. i \in same BY <2>1, <2>3
  <2> QED BY <1>1, <2>4
<1> QED BY <1>2, <1>3

(* Where the values of the current attribute go: to the slot that was found *)
(* or was added, whose name is the type of the attribute. They are asked    *)
(* for in ranges exactly when the server said so.                           *)
LEMMA LocatedFacts ==
  ASSUME RequestsInv, CallInv(call), call # Idle, call.todo # <<>>
  PROVE  /\ Current \in MessageAttribute
         /\ Located.entry \in Entry /\ Located.entry.dn = call.entry.dn
         /\ Located.slot \in 0..Len(Located.entry.attributes)
         /\ DOMAIN Located.entry.attributes = 1..Len(Located.entry.attributes)
         /\ Listed => Located.entry = call.entry
         /\ Located.slot # 0 =>
              /\ Located.slot \in DOMAIN Located.entry.attributes
              /\ Located.entry.attributes[Located.slot].name = Requested(Current.type)
              /\ IsRangedAtt(Current, Reference) <=> ~SentWhole(Current)
         /\ ~Listed => /\ Located.entry = WithSlot(call.entry, Current.type)
                       /\ Located.slot = Len(call.entry.attributes) + 1
<1>1. call \in Extraction /\ SlotsAreThoseRequested(call) BY DEF CallInv
<1>2. call.todo \in Seq(MessageAttribute) /\ call.entry \in Entry BY <1>1 DEF Extraction
<1>3. Current \in MessageAttribute
  <2>1. Len(call.todo) \in Nat \ {0} BY <1>2, EmptySeq
  <2> QED BY <1>2, <2>1, ElementOfSeq DEF Current
<1>4. Current.type \in {"name", "member"} BY <1>3 DEF MessageAttribute
<1>5. CASE Listed
  <2>1. Located = [entry |-> call.entry, slot |-> LdapLocateNamedAttr(call.entry, Current.type)]
    BY <1>5 DEF Located
  <2>2. /\ Located.slot \in 0..Len(call.entry.attributes)
        /\ DOMAIN call.entry.attributes = 1..Len(call.entry.attributes)
        /\ Located.slot # 0 => /\ Located.slot \in DOMAIN call.entry.attributes
                               /\ call.entry.attributes[Located.slot].name = Requested(Current.type)
    BY <1>2, <2>1, LocateFacts
  <2>3. ASSUME Located.slot # 0
        PROVE  IsRangedAtt(Current, Reference) <=> ~SentWhole(Current)
    <3>1. requests[call.request].attributes[Located.slot] = Requested(Current.type)
      BY <1>1, <1>5, <2>2, <2>3 DEF SlotsAreThoseRequested, Listed
    <3>2. Reference = <<Requested(Current.type)>> BY <1>5, <3>1 DEF Reference
    <3>3. Reference # <<>> /\ Reference[1] = [type |-> Current.type, option |-> FALSE]
      BY <3>2 DEF Requested
    <3> DEFINE asked(ranged) == [type |-> Current.type, option |-> ranged]
    <3>4. IsRangedAtt(Current, Reference) <=> asked(FALSE) # asked(Current.range # NoRange)
      BY <3>3 DEF IsRangedAtt
    <3>5. CASE Current.range = NoRange
      <4>1. (Current.range # NoRange) = FALSE BY <3>5
      <4>2. asked(Current.range # NoRange) = asked(FALSE) BY <4>1
      <4> QED BY <3>4, <3>5, <4>2 DEF SentWhole
    <3>6. CASE Current.range # NoRange
      <4>1. (Current.range # NoRange) = TRUE BY <3>6
      <4>2. asked(Current.range # NoRange) = asked(TRUE) BY <4>1
      <4>3. asked(TRUE).option # asked(FALSE).option OBVIOUS
      <4> HIDE DEF asked
      <4>4. asked(TRUE) # asked(FALSE) BY <4>3
      <4> QED BY <3>4, <3>6, <4>2, <4>4 DEF SentWhole
    <3> QED BY <3>5, <3>6
  <2> QED BY <1>2, <1>3, <1>5, <2>1, <2>2, <2>3
<1>6. CASE ~Listed
  <2> DEFINE f == WithSlot(call.entry, Current.type)
             n == Len(call.entry.attributes)
  <2>1. Located = [entry |-> f, slot |-> n + 1] BY <1>6 DEF Located
  <2>2. /\ f \in Entry /\ f.dn = call.entry.dn /\ n \in Nat
        /\ DOMAIN f.attributes = 1..n + 1
        /\ f.attributes[n + 1] = [name |-> Requested(Current.type), values |-> <<>>]
    BY <1>2, <1>4, WithSlotFacts
  <2>3. Len(f.attributes) = n + 1
    <3>1. f.attributes \in Seq(Slot) BY <2>2 DEF Entry
    <3> HIDE DEF f, n
    <3>2. Len(f.attributes) \in Nat /\ DOMAIN f.attributes = 1..Len(f.attributes)
      BY <3>1, LenProperties
    <3> QED BY <2>2, <3>2
  <2>4. Reference = <<>> BY <1>6 DEF Reference
  <2>5. IsRangedAtt(Current, Reference) <=> ~SentWhole(Current)
    BY <2>4 DEF IsRangedAtt, SentWhole
  <2> HIDE DEF f, n
  <2>6. n + 1 \in 0..n + 1 /\ n + 1 \in 1..n + 1 /\ n + 1 # 0 BY <2>2
  <2>7. Located.entry = f /\ Located.slot = n + 1 BY <2>1
  <2>8. f.attributes[n + 1].name = Requested(Current.type) BY <2>2
  <2> QED BY <1>3, <1>6, <2>2, <2>3, <2>5, <2>6, <2>7, <2>8 DEF f, n
<1> QED BY <1>5, <1>6

-----------------------------------------------------------------------------
(* Requests that change.                                                    *)

(* A request may be given new fields as long as PageInv holds of them.      *)
LEMMA RequestIsReplaced ==
  ASSUME RequestsInv, NEW q \in Requests, NEW r \in LdapRequest, PageInv(r),
         requests' = [requests EXCEPT ![q] = r]
  PROVE  /\ RequestsInv' /\ requests'[q] = r /\ r # Null
         /\ \A p \in Requests : p # q => requests'[p] = requests[p]
<1>1. r # Null BY MarksAssumption
<1>2. requests' \in [Requests -> LdapRequest \cup {Null}] BY DEF RequestsInv
<1>3. /\ requests'[q] = r
      /\ \A p \in Requests : p # q => requests'[p] = requests[p]
  BY DEF RequestsInv
<1>4. \A p \in Requests : requests'[p] # Null => PageInv(requests'[p])
  BY <1>3 DEF RequestsInv
<1> QED BY <1>1, <1>2, <1>3, <1>4 DEF RequestsInv, PageInv

(* The ends of a call: the request is over, and its page is none, or one    *)
(* that was freed, or the one it was.                                       *)
LEMMA RequestEnds ==
  ASSUME RequestsInv, NEW q \in Requests, requests[q] # Null,
         NEW page, page \in {<<>>, Freed, requests[q].page},
         requests' = [requests EXCEPT ![q].page = page, ![q].over = TRUE]
  PROVE  /\ RequestsInv' /\ requests'[q] # Null
         /\ requests'[q] = [requests[q] EXCEPT !.page = page, !.over = TRUE]
         /\ \A p \in Requests : p # q => requests'[p] = requests[p]
<1> DEFINE r == [requests[q] EXCEPT !.page = page, !.over = TRUE]
<1>1. requests[q] \in LdapRequest /\ PageInv(requests[q]) BY DEF RequestsInv
<1>2. requests' = [requests EXCEPT ![q] = r] BY DEF RequestsInv
<1>3. page \in Seq(DNs) \cup {Freed}
  <2>1. <<>> \in Seq(DNs) BY EmptySeq
  <2> QED BY <1>1, <2>1 DEF LdapRequest
<1>4. r \in LdapRequest /\ PageInv(r) BY <1>1, <1>3 DEF LdapRequest, PageInv
<1> HIDE DEF r
<1>5. RequestsInv' /\ requests'[q] = r /\ r # Null
      /\ \A p \in Requests : p # q => requests'[p] = requests[p]
  BY <1>2, <1>4, RequestIsReplaced
<1> QED BY <1>5 DEF r

LEMMA RequestIsOver ==
  ASSUME RequestsInv, NEW q \in Requests, requests[q] # Null,
         requests' = [requests EXCEPT ![q].over = TRUE]
  PROVE  /\ RequestsInv' /\ requests'[q] # Null
         /\ requests'[q] = [requests[q] EXCEPT !.over = TRUE]
         /\ \A p \in Requests : p # q => requests'[p] = requests[p]
<1> DEFINE r == [requests[q] EXCEPT !.over = TRUE]
<1>1. requests[q] \in LdapRequest /\ PageInv(requests[q]) BY DEF RequestsInv
<1>2. requests' = [requests EXCEPT ![q] = r] BY DEF RequestsInv
<1>3. r \in LdapRequest /\ PageInv(r) BY <1>1 DEF LdapRequest, PageInv
<1> HIDE DEF r
<1>4. RequestsInv' /\ requests'[q] = r /\ r # Null
      /\ \A p \in Requests : p # q => requests'[p] = requests[p]
  BY <1>2, <1>3, RequestIsReplaced
<1> QED BY <1>4 DEF r

(* When requests and the extraction stay, so does what is said of them.     *)
LEMMA CallStays ==
  ASSUME CallInv(call), UNCHANGED <<requests, call>>
  PROVE  CallInv(call)'
BY DEF CallInv, SlotsAreThoseRequested

(* The entry that NewEntry makes has an empty slot for each request.        *)
LEMMA NewEntryFacts ==
  ASSUME NEW dn \in DNs, NEW attributes \in Seq(Names), NEW e, e = NewEntry(dn, attributes)
  PROVE  /\ e \in Entry /\ e.dn = dn
         /\ DOMAIN e.attributes = DOMAIN attributes
         /\ \A i \in DOMAIN attributes :
              e.attributes[i].name = attributes[i] /\ e.attributes[i].values = <<>>
<1> DEFINE n == Len(attributes)
           slots == [i \in DOMAIN attributes |-> [name |-> attributes[i], values |-> <<>>]]
<1>1. n \in Nat /\ DOMAIN attributes = 1..n /\ \A i \in 1..n : attributes[i] \in Names
  BY LenProperties, ElementOfSeq
<1>2. <<>> \in Seq(Nat) BY EmptySeq
<1>3. \A i \in 1..n : [name |-> attributes[i], values |-> <<>>] \in Slot
  BY <1>1, <1>2 DEF Slot
<1>4. slots \in [1..n -> Slot] BY <1>1, <1>3
<1>5. e = [dn |-> dn, attributes |-> slots] BY DEF NewEntry
<1>6. DOMAIN slots = DOMAIN attributes
      /\ \A i \in DOMAIN attributes :
           slots[i].name = attributes[i] /\ slots[i].values = <<>>
  OBVIOUS
<1> HIDE DEF n, slots
<1>7. slots \in Seq(Slot) BY <1>1, <1>4, SeqDef
<1> QED BY <1>5, <1>6, <1>7 DEF Entry

-----------------------------------------------------------------------------
(* LdapGetNextEntry.                                                        *)

(* A page arrived with the first entry that is left, result i.              *)
Fetched(q, i) ==
  /\ i \in Left(requests[q].position) /\ \A j \in Left(requests[q].position) : i <= j
  /\ Extracts(q, <<Results[i]>>, 0, i)
(* No page arrived.                                                         *)
NotFetched(q, page) ==
  \/ (Left(requests[q].position) = {} \/ SilentEnds) /\ Ends(q, page)
  \/ /\ ServerFailures /\ Unbinds("failed")
     /\ requests' = [requests EXCEPT ![q].page = page, ![q].over = TRUE]
     /\ UNCHANGED <<pEntry, call, directory, process>>

(* One entry is on a page, so each call needs a page, and there are three   *)
(* things it may come to. Without a live session or with a freed page the   *)
(* process dies.                                                            *)
LEMMA NextEntryCases ==
  ASSUME TypeInv, NEW q \in Requests, LdapGetNextEntry(q)
  PROVE  /\ MayUseRequest(q) /\ requests[q] # Null /\ call = Idle
         /\ CarefulHost => ~requests[q].over
         /\ \/ (pConnection = "unbound" \/ requests[q].page = Freed) /\ Dies
            \/ pConnection # "unbound" /\ \E i \in DOMAIN Results : Fetched(q, i)
            \/ /\ pConnection # "unbound"
               /\ \E page \in {<<>>, Freed} : NotFetched(q, page)
<1> DEFINE r == requests[q]
           rest == Remaining(r.position)
           count == IF Len(rest) < PageSize THEN Len(rest) ELSE PageSize
<1>1. MayUseRequest(q) /\ r # Null /\ call = Idle /\ (CarefulHost => ~r.over)
  BY DEF LdapGetNextEntry, MayUseRequest, MayUseConnection, MayCall
<1>2. r \in LdapRequest /\ PageInv(r) BY <1>1 DEF TypeInv, RequestsInv
<1>3. r.index = r.count BY <1>2 DEF PageInv
<1>4. \/ (pConnection = "unbound" \/ r.page = Freed) /\ Dies
      \/ pConnection # "unbound" /\ PageAnswers(q)
  BY <1>3 DEF LdapGetNextEntry
<1>5. r.position \in Nat BY <1>2, ResultsAssumption, LenProperties DEF LdapRequest
<1>6. ASSUME rest # <<>>, Extracts(q, SubSeq(rest, 1, count), 0, PositionOf(rest[count]))
      PROVE  \E i \in DOMAIN Results : Fetched(q, i)
  <2>1. PICK i \in Left(r.position) :
          /\ \A j \in Left(r.position) : i <= j
          /\ rest[count] = Results[i]
          /\ SubSeq(rest, 1, count) = <<Results[i]>>
    BY <1>5, <1>6, PageOfRemaining
  <2>2. i \in DOMAIN Results BY <1>5, LeftFacts
  <2>3. PositionOf(rest[count]) = i BY <2>1, <2>2, PositionOfResult
  <2>4. Extracts(q, <<Results[i]>>, 0, i) BY <1>6, <2>1, <2>3
  <2> QED BY <2>1, <2>2, <2>4 DEF Fetched
<1>7. rest = <<>> <=> Left(r.position) = {}
  <2>1. rest = Remaining(r.position)
        /\ count = IF Len(rest) < PageSize THEN Len(rest) ELSE PageSize
    OBVIOUS
  <2> HIDE DEF rest, count
  <2> QED BY <1>5, <2>1, PageOfRemaining, SMTT(30)
<1>8. ASSUME PageAnswers(q)
      PROVE  \/ \E i \in DOMAIN Results : Fetched(q, i)
             \/ \E page \in {<<>>, Freed} : NotFetched(q, page)
  <2> DEFINE leftovers == IF r.page = <<>> THEN {<<>>} ELSE {<<>>, Freed}
  <2>0. leftovers \subseteq {<<>>, Freed} OBVIOUS
  <2>1. \/ rest # <<>> /\ Extracts(q, SubSeq(rest, 1, count), 0, PositionOf(rest[count]))
        \/ /\ rest = <<>> \/ SilentEnds
           /\ \E page \in leftovers : Ends(q, page)
        \/ /\ ServerFailures
           /\ Unbinds("failed")
           /\ \E page \in leftovers :
                requests' = [requests EXCEPT ![q].page = page, ![q].over = TRUE]
           /\ UNCHANGED <<pEntry, call, directory, process>>
    BY <1>8 DEF PageAnswers
  <2> HIDE DEF rest, count, leftovers
  <2>2. CASE rest # <<>> /\ Extracts(q, SubSeq(rest, 1, count), 0, PositionOf(rest[count]))
    BY <1>6, <2>2
  <2>3. CASE (rest = <<>> \/ SilentEnds) /\ \E page \in leftovers : Ends(q, page)
    BY <1>7, <2>0, <2>3 DEF NotFetched
  <2>4. CASE /\ ServerFailures
             /\ Unbinds("failed")
             /\ \E page \in leftovers :
                  requests' = [requests EXCEPT ![q].page = page, ![q].over = TRUE]
             /\ UNCHANGED <<pEntry, call, directory, process>>
    BY <2>0, <2>4 DEF NotFetched
  <2> QED BY <2>1, <2>2, <2>3, <2>4
<1> QED BY <1>1, <1>4, <1>8

(* What the arrival of a page starts.                                       *)
LEMMA FetchedFacts ==
  ASSUME TypeInv, NEW q \in Requests, requests[q] # Null, NEW i \in DOMAIN Results,
         Fetched(q, i)
  PROVE  /\ i \in Left(requests[q].position)
         /\ \A j \in Left(requests[q].position) : i <= j
         /\ Results[i] \in DNs /\ directory.members[Results[i]] \in Nat
         /\ requests' = [requests EXCEPT ![q] =
              [requests[q] EXCEPT !.page = <<Results[i]>>, !.count = 1, !.index = 1,
                                  !.position = i]]
         /\ \E message \in Messages(Results[i], requests[q].attributes) :
              call' = [request |-> q, entry |-> NewEntry(Results[i], requests[q].attributes),
                       todo |-> message, slot |-> 0, asked |-> 0,
                       seen |-> {directory.members[Results[i]]}]
         /\ Told("busy", q, Results[i])
         /\ UNCHANGED <<pConnection, pEntry, directory, trusted, process>>
<1> DEFINE page == <<Results[i]>>  dn == Results[i]
<1>1. requests[q] \in LdapRequest BY DEF TypeInv, RequestsInv
<1>2. requests[q].position \in Nat BY <1>1, ResultsAssumption, LenProperties DEF LdapRequest
<1>3. i \in Left(requests[q].position) /\ \A j \in Left(requests[q].position) : i <= j
  BY DEF Fetched
<1>4. dn \in DNs /\ Exists(dn) BY <1>2, <1>3, LeftFacts
<1>5. directory.members[dn] \in Nat
  <2>1. directory.members[dn] \in -1..MaxMembers BY <1>4 DEF TypeInv
  <2> QED BY <1>4, <2>1 DEF Exists, Deleted
<1>6. EntryAt(page, 0) = dn /\ dn # Null /\ Len(page) = 1
  BY <1>4, MarksAssumption DEF EntryAt
<1>7. Extracts(q, page, 0, i) BY DEF Fetched
<1> HIDE DEF page, dn
<1>8. /\ requests' = [requests EXCEPT ![q] =
           [requests[q] EXCEPT !.page = page, !.count = 1, !.index = 1, !.position = i]]
      /\ \E message \in Messages(dn, requests[q].attributes) :
              call' = [request |-> q, entry |-> NewEntry(dn, requests[q].attributes),
                       todo |-> message, slot |-> 0, asked |-> 0,
                       seen |-> {directory.members[dn]}]
      /\ Told("busy", q, dn)
      /\ UNCHANGED <<pConnection, pEntry, directory, trusted, process>>
  BY <1>6, <1>7 DEF Extracts
<1> QED BY <1>3, <1>4, <1>5, <1>8 DEF page, dn

-----------------------------------------------------------------------------
(* Every step keeps the types.                                              *)

LEMMA InitTypes == Init => TypeInv
<1> SUFFICES ASSUME Init PROVE TypeInv
  OBVIOUS
<1>1. directory.members \in [DNs -> -1..MaxMembers]
  BY MembersAssumption DEF Init
<1>2. RequestsInv BY DEF Init, RequestsInv
<1> QED BY <1>1, <1>2 DEF Init, TypeInv, CallInv

LEMMA DirectoryChangesTypes ==
  ASSUME TypeInv, DirectoryChanges
  PROVE  TypeInv'
<1>1. PICK dn \in DNs : \E n \in (0..MaxMembers) \cup {Deleted} :
        /\ directory' = [members |-> [directory.members EXCEPT ![dn] = n],
                         changes |-> directory.changes + 1]
        /\ call' = IF call # Idle /\ call.entry.dn = dn
                   THEN [call EXCEPT !.seen = @ \cup {n}] ELSE call
  BY DEF DirectoryChanges
<1>a. PICK n \in (0..MaxMembers) \cup {Deleted} :
        /\ directory' = [members |-> [directory.members EXCEPT ![dn] = n],
                         changes |-> directory.changes + 1]
        /\ call' = IF call # Idle /\ call.entry.dn = dn
                   THEN [call EXCEPT !.seen = @ \cup {n}] ELSE call
  BY <1>1
<1>2. /\ directory'.members = [directory.members EXCEPT ![dn] = n]
      /\ call' = IF call # Idle /\ call.entry.dn = dn
                 THEN [call EXCEPT !.seen = @ \cup {n}] ELSE call
  <2>1. directory'.members = [directory.members EXCEPT ![dn] = n] BY <1>a
  <2> QED BY <1>a, <2>1
<1>3. n \in -1..MaxMembers BY BoundsAssumption DEF Deleted
<1>4. directory'.members \in [DNs -> -1..MaxMembers] BY <1>2, <1>3 DEF TypeInv
<1>5. UNCHANGED <<pConnection, requests, trusted, process>> BY DEF DirectoryChanges
<1>6. RequestsInv' BY <1>5 DEF TypeInv, RequestsInv
<1>7. CallInv(call)'
  <2>1. CASE call' = call BY <1>5, <2>1, CallStays DEF TypeInv
  <2>2. CASE call # Idle /\ call' = [call EXCEPT !.seen = @ \cup {n}]
    <3>1. call \in Extraction /\ n \in Int BY <1>3, <2>2 DEF TypeInv, CallInv
    <3>2. /\ call' \in Extraction /\ call'.request = call.request
          /\ call'.entry = call.entry /\ call'.slot = call.slot /\ call'.todo = call.todo
      BY <2>2, <3>1 DEF Extraction
    <3> QED BY <1>5, <2>2, <3>2 DEF TypeInv, CallInv, SlotsAreThoseRequested
  <2> QED BY <1>2, <2>1, <2>2
<1> QED BY <1>4, <1>5, <1>6, <1>7 DEF TypeInv

(* What touches neither requests nor directory nor the extraction.          *)
LEMMA OtherwiseSameTypes ==
  ASSUME TypeInv, UNCHANGED <<requests, call, directory>>,
         pConnection' \in {Null, "open", "unbound"}, trusted' \in BOOLEAN,
         process' \in {"running", "dead"}
  PROVE  TypeInv'
<1>1. CallInv(call)' BY CallStays DEF TypeInv
<1>2. RequestsInv' BY DEF TypeInv, RequestsInv
<1> QED BY <1>1, <1>2 DEF TypeInv

(* What changes a request between two calls.                                *)
LEMMA RequestsChangeTypes ==
  ASSUME TypeInv, RequestsInv', call' = Idle, directory' = directory,
         pConnection' \in {Null, "open", "unbound"}, trusted' \in BOOLEAN,
         process' \in {"running", "dead"}
  PROVE  TypeInv'
BY DEF TypeInv, CallInv

LEMMA DiesTypes ==
  ASSUME TypeInv, Dies
  PROVE  TypeInv'
<1>1. UNCHANGED <<pConnection, requests, call, directory, trusted>> /\ process' = "dead"
  BY DEF Dies
<1>2. pConnection \in {Null, "open", "unbound"} /\ trusted \in BOOLEAN BY DEF TypeInv
<1> QED BY <1>1, <1>2, OtherwiseSameTypes

LEMMA ConnectionTypes ==
  ASSUME TypeInv,
         \/ \E wantsRootDse \in BOOLEAN : LdapConnect(wantsRootDse)
         \/ LdapBind \/ LdapCloseConnection \/ HostGivesUp \/ LdapReleaseEntry
  PROVE  TypeInv'
<1>0. pConnection \in {Null, "open", "unbound"} /\ trusted \in BOOLEAN
      /\ process \in {"running", "dead"}
  BY DEF TypeInv
<1>1. ASSUME NEW session \in {Null, "open", "unbound"}, NEW ok \in BOOLEAN,
             Connected(session, ok)
      PROVE  TypeInv'
  <2>1. UNCHANGED <<requests, call, directory, process>> /\ pConnection' = session
        /\ trusted' \in BOOLEAN
    BY <1>1 DEF Connected
  <2> QED BY <1>0, <2>1, OtherwiseSameTypes
<1>2. ASSUME NEW wantsRootDse \in BOOLEAN, LdapConnect(wantsRootDse) PROVE TypeInv'
  BY <1>1, <1>2 DEF LdapConnect
<1>3. CASE LdapBind
  <2>1. CASE Dies BY <2>1, DiesTypes
  <2>2. CASE UNCHANGED <<pConnection, requests, pEntry, call, directory, trusted, process>>
    BY <1>0, <2>2, OtherwiseSameTypes
  <2> QED BY <1>3, <2>1, <2>2 DEF LdapBind
<1>4. ASSUME requests' = [q \in Requests |-> Null], pConnection' = Null, call' = Idle,
             trusted' \in BOOLEAN, UNCHANGED <<directory, process>>
      PROVE  TypeInv'
  <2>1. RequestsInv' BY <1>4 DEF RequestsInv
  <2> QED BY <1>0, <1>4, <2>1, RequestsChangeTypes
<1>5. CASE LdapCloseConnection
  <2>1. CASE Dies BY <2>1, DiesTypes
  <2>2. CASE UNCHANGED <<pConnection, requests, call, directory, trusted, process>>
    BY <1>0, <2>2, OtherwiseSameTypes
  <2>3. CASE /\ requests' = [q \in Requests |-> Null] /\ pConnection' = Null
             /\ UNCHANGED <<call, directory, trusted, process>>
    BY <1>0, <1>4, <1>5, <2>3 DEF LdapCloseConnection, MayUseConnection, MayCall
  <2> QED BY <1>5, <2>1, <2>2, <2>3 DEF LdapCloseConnection
<1>6. CASE HostGivesUp BY <1>0, <1>4, <1>6 DEF HostGivesUp, MayCall
<1>7. CASE LdapReleaseEntry
  <2>1. UNCHANGED <<pConnection, requests, call, directory, trusted, process>>
    BY <1>7 DEF LdapReleaseEntry
  <2> QED BY <1>0, <2>1, OtherwiseSameTypes
<1> QED BY <1>2, <1>3, <1>5, <1>6, <1>7
LEMMA RequestTypes ==
  ASSUME TypeInv, NEW q \in Requests,
         \/ \E attributes \in AttributeLists : LdapInitRequestEx(q, attributes)
         \/ LdapReleaseRequest(q)
  PROVE  TypeInv'
<1>0. pConnection \in {Null, "open", "unbound"} /\ trusted \in BOOLEAN
      /\ process \in {"running", "dead"} /\ RequestsInv
  BY DEF TypeInv
<1>1. ASSUME NEW attributes \in AttributeLists, LdapInitRequestEx(q, attributes)
      PROVE  TypeInv'
  <2> DEFINE r == [attributes |-> attributes, position |-> 0, over |-> FALSE,
                   page |-> <<>>, count |-> 0, index |-> 0]
  <2>1. CASE Dies BY <2>1, DiesTypes
  <2>2. CASE UNCHANGED <<pConnection, requests, call, directory, trusted, process>>
    BY <1>0, <2>2, OtherwiseSameTypes
  <2>3. CASE /\ requests' = [requests EXCEPT ![q] = r]
             /\ UNCHANGED <<pConnection, call, directory, trusted, process>>
    <3>1. call = Idle BY <1>1 DEF LdapInitRequestEx, MayUseConnection, MayCall
    <3>2. Len(Results) \in Nat /\ <<>> \in Seq(DNs)
      BY ResultsAssumption, LenProperties, EmptySeq
    <3>3. attributes \in Seq(Names) BY ListsAssumption
    <3>4. r \in LdapRequest /\ PageInv(r)
      BY <3>2, <3>3 DEF LdapRequest, PageInv
    <3>5. RequestsInv'
      <4> HIDE DEF r
      <4> QED BY <1>0, <2>3, <3>4, RequestIsReplaced
    <3> QED BY <1>0, <2>3, <3>1, <3>5, RequestsChangeTypes
  <2> QED BY <1>1, <2>1, <2>2, <2>3 DEF LdapInitRequestEx
<1>2. CASE LdapReleaseRequest(q)
  <2>1. requests' = [requests EXCEPT ![q] = Null] /\ call = Idle
        /\ UNCHANGED <<pConnection, call, directory, trusted, process>>
    BY <1>2 DEF LdapReleaseRequest, MayUseRequest, MayUseConnection, MayCall
  <2>2. RequestsInv' BY <1>0, <2>1 DEF RequestsInv
  <2> QED BY <1>0, <2>1, <2>2, RequestsChangeTypes
<1> QED BY <1>1, <1>2

(* A page that arrives makes the types right for the extraction it starts.  *)
LEMMA FetchedTypes ==
  ASSUME TypeInv, NEW q \in Requests, requests[q] # Null, NEW i \in DOMAIN Results,
         Fetched(q, i)
  PROVE  TypeInv'
<1> DEFINE dn == Results[i]
           r == [requests[q] EXCEPT !.page = <<dn>>, !.count = 1, !.index = 1, !.position = i]
           attributes == requests[q].attributes
<1>1. /\ dn \in DNs /\ directory.members[dn] \in Nat
      /\ requests' = [requests EXCEPT ![q] = r]
      /\ \E message \in Messages(dn, attributes) :
              call' = [request |-> q, entry |-> NewEntry(dn, attributes),
                       todo |-> message, slot |-> 0, asked |-> 0,
                       seen |-> {directory.members[dn]}]
      /\ UNCHANGED <<pConnection, directory, trusted, process>>
  BY FetchedFacts
<1>2. requests[q] \in LdapRequest /\ RequestsInv BY DEF TypeInv, RequestsInv
<1>3. attributes \in Seq(Names) BY <1>2 DEF LdapRequest
<1>4. i \in 0..Len(Results) /\ <<dn>> \in Seq(DNs) /\ <<dn>> \notin {<<>>, Freed}
  <2>1. DOMAIN Results = 1..Len(Results) BY ResultsAssumption, LenProperties
  <2>2. dn # "freed" BY <1>1, MarksAssumption
  <2> HIDE DEF dn
  <2>3. <<dn>> \in Seq(DNs) /\ <<dn>>[1] = dn BY <1>1
  <2>4. <<dn>> # Freed BY <2>2, <2>3 DEF Freed
  <2> QED BY <2>1, <2>3, <2>4
<1>5. r \in LdapRequest /\ PageInv(r) /\ r.attributes = attributes
  BY <1>2, <1>4 DEF LdapRequest, PageInv
<1>6. RequestsInv' /\ requests'[q] = r /\ r # Null
  <2> HIDE DEF r
  <2> QED BY <1>1, <1>2, <1>5, RequestIsReplaced
<1>7. PICK message \in Messages(dn, attributes) :
              call' = [request |-> q, entry |-> NewEntry(dn, attributes),
                       todo |-> message, slot |-> 0, asked |-> 0,
                       seen |-> {directory.members[dn]}]
  BY <1>1
<1>8. message \in Seq(MessageAttribute) BY <1>1, MessageFacts
<1> DEFINE e == NewEntry(dn, attributes)
<1>9. /\ e \in Entry /\ DOMAIN e.attributes = DOMAIN attributes
      /\ \A k \in DOMAIN attributes : e.attributes[k].name = attributes[k]
  BY <1>1, <1>3, NewEntryFacts
<1> HIDE DEF e, dn, attributes
<1>10. /\ call' \in Extraction /\ call'.request = q /\ call'.entry = e /\ call'.slot = 0
  BY <1>1, <1>7, <1>8, <1>9 DEF Extraction, e
<1>11. requests'[call'.request].attributes = attributes /\ requests'[call'.request] # Null
  BY <1>5, <1>6, <1>10
<1>12. Len(e.attributes) \in Nat BY <1>9, LenProperties DEF Entry
<1>13. SlotsAreThoseRequested(call)' BY <1>9, <1>10, <1>11 DEF SlotsAreThoseRequested
<1>14. CallInv(call)' BY <1>10, <1>11, <1>12, <1>13 DEF CallInv
<1> QED BY <1>1, <1>6, <1>14 DEF TypeInv

LEMMA NextEntryTypes ==
  ASSUME TypeInv, NEW q \in Requests, LdapGetNextEntry(q)
  PROVE  TypeInv'
<1>0. pConnection \in {Null, "open", "unbound"} /\ trusted \in BOOLEAN
      /\ process \in {"running", "dead"} /\ RequestsInv
  BY DEF TypeInv
<1>1. requests[q] # Null /\ call = Idle BY NextEntryCases
<1>2. CASE Dies BY <1>2, DiesTypes
<1>3. ASSUME NEW i \in DOMAIN Results, Fetched(q, i) PROVE TypeInv'
  BY <1>1, <1>3, FetchedTypes
<1>4. ASSUME NEW page \in {<<>>, Freed}, NotFetched(q, page) PROVE TypeInv'
  <2>1. /\ requests' = [requests EXCEPT ![q].page = page, ![q].over = TRUE]
        /\ UNCHANGED <<call, directory, process>>
        /\ pConnection' \in {Null, "open", "unbound"} /\ trusted' \in BOOLEAN
    BY <1>0, <1>4 DEF NotFetched, Ends, Unbinds
  <2>2. RequestsInv' BY <1>0, <1>1, <2>1, RequestEnds
  <2> QED BY <1>0, <1>1, <2>1, <2>2, RequestsChangeTypes
<1> QED BY <1>2, <1>3, <1>4, NextEntryCases

-----------------------------------------------------------------------------
(* The extraction.                                                          *)

(* What Done leaves to do.                                                  *)
LEMMA DoneFacts ==
  ASSUME call \in Extraction, call.todo # <<>>, NEW e \in Entry
  PROVE  /\ Done(e) \in Extraction
         /\ Done(e).request = call.request /\ Done(e).entry = e
         /\ Done(e).todo = Tail(call.todo) /\ Done(e).slot = 0
         /\ Done(e).asked = call.asked /\ Done(e).seen = call.seen
<1>1. Tail(call.todo) \in Seq(MessageAttribute)
  BY HeadTailProperties DEF Extraction
<1> QED BY <1>1 DEF Done, Extraction

(* Where the part of n values ends that is sent from start on.              *)
RangeEnd(start, n) == IF n - start <= RangeSize THEN n ELSE start + RangeSize

(* A range has the values from the first that was asked for to its end, and *)
(* the next one starts there.                                               *)
LEMMA RangedFacts ==
  ASSUME NEW type, NEW start \in Nat, NEW n \in Nat, n > start,
         NEW reply, reply = Ranged(type, start, n, RangeSize)
  PROVE  /\ RangeEnd(start, n) \in Nat /\ start <= RangeEnd(start, n) /\ RangeEnd(start, n) <= n
         /\ reply.values = From(start + 1, RangeEnd(start, n)) /\ reply.values \in Seq(Nat)
         /\ NextStart(reply.range[1], reply.values) = RangeEnd(start, n)
         /\ reply.range[2] = AllOthers => RangeEnd(start, n) = n
<1> DEFINE end == RangeEnd(start, n)
           values == From(start + 1, end)
<1>0. RangeSize \in Nat \ {0} BY RangeSizeAssumption
<1>1. end \in Nat /\ start <= end /\ end <= n /\ end > start
  BY <1>0 DEF RangeEnd
<1>2. values \in Seq(Nat) /\ Len(values) = end - start
  <2>1. start + 1 \in Nat /\ end \in Int /\ end >= (start + 1) - 1 BY <1>1
  <2>2. values \in Seq(Nat) /\ Len(values) = end - (start + 1) + 1
    <3> HIDE DEF end
    <3> QED BY <2>1, FromIsASequence
  <2> QED BY <1>1, <2>2
<1>3. reply = [type |-> type, values |-> values,
               range |-> <<start, IF n - start <= RangeSize THEN AllOthers
                                  ELSE start + RangeSize - 1>>]
  BY DEF Ranged, Attribute, RangeEnd
<1> HIDE DEF values
<1>4. reply.values = values /\ reply.range[1] = start BY <1>3
<1>5. NextStart(reply.range[1], reply.values) = end
  BY <1>1, <1>2, <1>4 DEF NextStart
<1>6. reply.range[2] = AllOthers => end = n
  <2>1. reply.range[2] = IF n - start <= RangeSize THEN AllOthers ELSE start + RangeSize - 1
    BY <1>3
  <2> QED BY <1>0, <2>1 DEF RangeEnd, AllOthers
<1> QED BY <1>1, <1>2, <1>4, <1>5, <1>6 DEF values

(* The values of a new range go behind those of the slot.                   *)
LEMMA RangeArrivesFacts ==
  ASSUME TypeInv, call # Idle, call.slot # 0, RangeArrives
  PROVE  LET n == directory.members[call.entry.dn]
             end == RangeEnd(call.asked, n)
             e == WithValues(call.entry, call.slot, From(call.asked + 1, end))
         IN  /\ n \in Nat /\ n > call.asked
             /\ end \in Nat /\ call.asked <= end /\ end <= n
             /\ From(call.asked + 1, end) \in Seq(Nat)
             /\ \/ call' = Done(e) /\ end = n
                \/ call' = [call EXCEPT !.entry = e, !.asked = end]
<1> DEFINE n == directory.members[call.entry.dn]
           end == RangeEnd(call.asked, n)
           reply == Ranged(Current.type, call.asked, n, RangeSize)
           e == WithValues(call.entry, call.slot, reply.values)
<1>1. call \in Extraction BY DEF TypeInv, CallInv
<1>2. call.entry.dn \in DNs /\ call.asked \in Nat BY <1>1 DEF Extraction, Entry
<1>3. n > call.asked BY DEF RangeArrives
<1>4. n \in Nat
  <2>1. n \in -1..MaxMembers BY <1>2 DEF TypeInv
  <2> HIDE DEF n
  <2> QED BY <1>2, <1>3, <2>1
<1>5. /\ end \in Nat /\ call.asked <= end /\ end <= n
      /\ reply.values = From(call.asked + 1, end) /\ reply.values \in Seq(Nat)
      /\ NextStart(reply.range[1], reply.values) = end
      /\ reply.range[2] = AllOthers => end = n
  <2> DEFINE type == Current.type
  <2>1. reply = Ranged(type, call.asked, n, RangeSize) OBVIOUS
  <2> HIDE DEF n, reply, type
  <2> QED BY <1>2, <1>3, <1>4, <2>1, RangedFacts
<1>6. call' = IF reply.range[2] = AllOthers THEN Done(e)
              ELSE [call EXCEPT !.entry = e,
                                !.asked = NextStart(reply.range[1], reply.values)]
  BY DEF RangeArrives
<1> HIDE DEF n, end, reply
<1>7. \/ call' = Done(e) /\ end = n
      \/ call' = [call EXCEPT !.entry = e, !.asked = end]
  BY <1>5, <1>6
<1>8. e = WithValues(call.entry, call.slot, From(call.asked + 1, end)) BY <1>5
<1> QED BY <1>3, <1>4, <1>5, <1>7, <1>8 DEF n, end

(* Entries that differ only in values have the same slots.                  *)
LEMMA SameSlots ==
  ASSUME TypeInv, call # Idle, NEW i \in DOMAIN call.entry.attributes, NEW values \in Seq(Nat),
         UNCHANGED requests, call' \in Extraction, call'.request = call.request,
         call'.entry = WithValues(call.entry, i, values),
         (call'.slot = call.slot /\ call'.todo = call.todo) \/ call'.slot = 0
  PROVE  CallInv(call)'
<1>1. call \in Extraction /\ CallInv(call) BY DEF TypeInv, CallInv
<1>2. call.entry \in Entry BY <1>1 DEF Extraction
<1> DEFINE e == call.entry  f == call'.entry
<1>3. /\ f \in Entry /\ DOMAIN f.attributes = DOMAIN e.attributes
      /\ \A j \in DOMAIN e.attributes : f.attributes[j].name = e.attributes[j].name
  BY <1>2, WithValuesFacts
<1>4. Len(f.attributes) = Len(e.attributes) /\ Len(f.attributes) \in Nat
  <2>1. /\ Len(f.attributes) \in Nat /\ DOMAIN f.attributes = 1..Len(f.attributes)
        /\ Len(e.attributes) \in Nat /\ DOMAIN e.attributes = 1..Len(e.attributes)
    BY <1>2, <1>3, LenProperties DEF Entry
  <2>2. DOMAIN f.attributes = DOMAIN e.attributes BY <1>3
  <2> HIDE DEF e, f
  <2> QED BY <2>1, <2>2, SameInterval
<1>5. call'.slot \in 0..Len(f.attributes) /\ (call'.slot # 0 => call'.todo # <<>>)
  BY <1>1, <1>4, ExtractionIsNotIdle DEF CallInv
<1>6. requests'[call'.request] # Null BY <1>1, ExtractionIsNotIdle DEF CallInv
<1>7. SlotsAreThoseRequested(call)'
  <2>1. SlotsAreThoseRequested(call) BY <1>1, ExtractionIsNotIdle DEF CallInv
  <2> QED BY <1>3, <2>1 DEF SlotsAreThoseRequested
<1> QED BY <1>5, <1>6, <1>7 DEF CallInv

LEMMA RangeStepTypes ==
  ASSUME TypeInv, RangeStep
  PROVE  TypeInv'
<1>1. /\ UNCHANGED <<pConnection, requests, directory, trusted, process>>
      /\ call # Idle /\ call.slot # 0
  BY DEF RangeStep, InRange, Extracting
<1>2. CallInv(call) /\ call \in Extraction /\ call.todo # <<>> BY <1>1 DEF TypeInv, CallInv
<1>3. call.entry \in Entry /\ call.slot \in DOMAIN call.entry.attributes
  <2>1. call.entry \in Entry /\ call.slot \in 0..Len(call.entry.attributes)
    BY <1>1, <1>2 DEF CallInv, Extraction
  <2>2. DOMAIN call.entry.attributes = 1..Len(call.entry.attributes)
        /\ Len(call.entry.attributes) \in Nat
    BY <2>1, LenProperties DEF Entry
  <2> QED BY <1>1, <2>1, <2>2
<1>4. CallInv(call)'
  <2>1. CASE RangeArrives
    <3> DEFINE end == RangeEnd(call.asked, directory.members[call.entry.dn])
               values == From(call.asked + 1, end)
               e == WithValues(call.entry, call.slot, values)
    <3>1. /\ end \in Nat /\ values \in Seq(Nat)
          /\ call' = Done(e) \/ call' = [call EXCEPT !.entry = e, !.asked = end]
      BY <1>1, <2>1, RangeArrivesFacts
    <3> HIDE DEF end, values
    <3>2. e \in Entry BY <1>3, <3>1, WithValuesFacts
    <3>3. /\ call' \in Extraction /\ call'.request = call.request /\ call'.entry = e
          /\ (call'.slot = call.slot /\ call'.todo = call.todo) \/ call'.slot = 0
      <4> HIDE DEF e
      <4>1. CASE call' = Done(e) BY <1>2, <3>2, <4>1, DoneFacts
      <4>2. CASE call' = [call EXCEPT !.entry = e, !.asked = end]
        BY <1>2, <3>1, <3>2, <4>2 DEF Extraction
      <4> QED BY <3>1, <4>1, <4>2
    <3> QED BY <1>1, <1>3, <3>1, <3>3, SameSlots
  <2>2. CASE call' = Done(call.entry)
    <3>1. /\ call' \in Extraction /\ call'.request = call.request
          /\ call'.entry = call.entry /\ call'.slot = 0
      BY <1>2, <1>3, <2>2, DoneFacts
    <3>2. Len(call.entry.attributes) \in Nat BY <1>3, LenProperties DEF Entry
    <3> QED BY <1>1, <1>2, <3>1, <3>2 DEF CallInv, SlotsAreThoseRequested
  <2> QED BY <2>1, <2>2 DEF RangeStep, RangeIsEmpty, EntryIsGone
<1> QED BY <1>1, <1>4 DEF TypeInv, RequestsInv
LEMMA ExtractionTypes ==
  ASSUME TypeInv, LdapExtractAttributes \/ LdapExtractRangedAttributes
  PROVE  TypeInv'
<1>1. /\ UNCHANGED <<pConnection, requests, directory, trusted, process>>
      /\ call # Idle /\ call.todo # <<>> /\ Located.slot # 0
  BY DEF LdapExtractAttributes, LdapExtractRangedAttributes, Ready, Extracting
<1>2. CallInv(call) /\ call \in Extraction BY <1>1 DEF TypeInv, CallInv
<1> DEFINE l == Located  e == l.entry
<1>3. /\ Current \in MessageAttribute
      /\ e \in Entry /\ e.dn = call.entry.dn
      /\ DOMAIN e.attributes = 1..Len(e.attributes)
      /\ l.slot \in DOMAIN e.attributes
      /\ IsRangedAtt(Current, Reference) <=> ~SentWhole(Current)
  BY <1>1, <1>2, LocatedFacts DEF TypeInv
<1>4. Len(e.attributes) \in Nat BY <1>3, LenProperties DEF Entry
<1>5. ASSUME NEW c \in Extraction, c.request = call.request,
             DOMAIN c.entry.attributes = DOMAIN e.attributes,
             \A i \in DOMAIN e.attributes :
               c.entry.attributes[i].name = e.attributes[i].name
      PROVE  SlotsAreThoseRequested(c)
  <2>1. CASE Listed
    <3>1. e = call.entry BY <1>1, <1>2, <2>1, LocatedFacts DEF TypeInv
    <3>2. SlotsAreThoseRequested(call) BY <1>1, <1>2 DEF CallInv
    <3> QED BY <1>5, <3>1, <3>2 DEF SlotsAreThoseRequested
  <2>2. CASE ~Listed BY <1>5, <2>2 DEF SlotsAreThoseRequested, Listed
  <2> QED BY <2>1, <2>2
<1>6. requests[call.request] # Null BY <1>1, <1>2 DEF CallInv
<1>7. CASE LdapExtractAttributes
  <2> DEFINE f == WithValues(e, l.slot, Current.values)
  <2>1. Current.values \in Seq(Nat) BY <1>3 DEF MessageAttribute
  <2>2. /\ f \in Entry /\ DOMAIN f.attributes = DOMAIN e.attributes
        /\ \A i \in DOMAIN e.attributes : f.attributes[i].name = e.attributes[i].name
    <3> DEFINE values == Current.values  i == l.slot
    <3>1. e \in Entry /\ i \in DOMAIN e.attributes /\ values \in Seq(Nat) BY <1>3, <2>1
    <3>2. f = WithValues(e, i, values) OBVIOUS
    <3> HIDE DEF e, i, values, f
    <3> QED BY <3>1, <3>2, WithValuesFacts
  <2>3. call' = Done(f) BY <1>7 DEF LdapExtractAttributes
  <2> HIDE DEF f
  <2>4. call' \in Extraction /\ call'.request = call.request /\ call'.entry = f /\ call'.slot = 0
    BY <1>1, <1>2, <2>2, <2>3, DoneFacts
  <2>5. Len(f.attributes) \in Nat BY <2>2, LenProperties DEF Entry
  <2>6. SlotsAreThoseRequested(call)' BY <1>1, <1>5, <2>2, <2>4 DEF SlotsAreThoseRequested
  <2>7. CallInv(call)' BY <1>1, <1>6, <2>4, <2>5, <2>6 DEF CallInv
  <2> QED BY <1>1, <2>7 DEF TypeInv, RequestsInv
<1>8. CASE LdapExtractRangedAttributes
  <2>1. /\ ~SentWhole(Current)
        /\ call' = [call EXCEPT !.entry = e, !.slot = l.slot, !.asked = Current.range[1]]
    BY <1>3, <1>8 DEF LdapExtractRangedAttributes
  <2>2. Current.range[1] \in Nat BY <1>3, <2>1 DEF MessageAttribute, SentWhole
  <2> HIDE DEF e, l
  <2>3. l.slot \in Nat /\ l.slot \in 0..Len(e.attributes) BY <1>3, <1>4
  <2>4. /\ call' \in Extraction /\ call'.request = call.request /\ call'.entry = e
        /\ call'.slot = l.slot /\ call'.todo = call.todo
    BY <1>2, <1>3, <2>1, <2>2, <2>3 DEF Extraction
  <2>5. SlotsAreThoseRequested(call)' BY <1>1, <1>5, <2>4 DEF SlotsAreThoseRequested
  <2>6. CallInv(call)' BY <1>1, <1>6, <2>3, <2>4, <2>5 DEF CallInv
  <2> QED BY <1>1, <2>6 DEF TypeInv, RequestsInv
<1> QED BY <1>7, <1>8

(* A call that ends with or without its entry.                              *)
LEMMA CallEndsTypes ==
  ASSUME TypeInv, NotLocated \/ RangeFails \/ EntryReturned
  PROVE  TypeInv'
<1>0. pConnection \in {Null, "open", "unbound"} /\ trusted \in BOOLEAN
      /\ process \in {"running", "dead"} /\ RequestsInv
  BY DEF TypeInv
<1>1. /\ call' = Idle /\ UNCHANGED <<directory, process>> /\ call # Idle
      /\ pConnection' \in {Null, "open", "unbound"} /\ trusted' \in BOOLEAN
      /\ \/ requests' = requests
         \/ requests' = [requests EXCEPT ![call.request].over = TRUE]
  BY <1>0 DEF NotLocated, RangeFails, EntryReturned, Unbinds, Ready, InRange, Extracting
<1>2. call.request \in Requests /\ requests[call.request] # Null
  BY <1>1 DEF TypeInv, CallInv, Extraction
<1>3. RequestsInv'
  <2>1. CASE requests' = requests BY <1>0, <2>1 DEF RequestsInv
  <2>2. CASE requests' = [requests EXCEPT ![call.request].over = TRUE]
    BY <1>0, <1>2, <2>2, RequestIsOver
  <2> QED BY <1>1, <2>1, <2>2
<1> QED BY <1>0, <1>1, <1>3, RequestsChangeTypes

LEMMA NextTypes == TypeInv /\ [Next]_vars => TypeInv'
<1> SUFFICES ASSUME TypeInv, [Next]_vars PROVE TypeInv'
  OBVIOUS
<1>1. CASE DirectoryChanges BY <1>1, DirectoryChangesTypes
<1>2. CASE \/ \E wantsRootDse \in BOOLEAN : LdapConnect(wantsRootDse)
           \/ LdapBind \/ LdapCloseConnection \/ HostGivesUp \/ LdapReleaseEntry
  BY <1>2, ConnectionTypes
<1>3. ASSUME NEW q \in Requests,
             \/ \E attributes \in AttributeLists : LdapInitRequestEx(q, attributes)
             \/ LdapReleaseRequest(q)
      PROVE  TypeInv'
  BY <1>3, RequestTypes
<1>4. ASSUME NEW q \in Requests, LdapGetNextEntry(q) PROVE TypeInv'
  BY <1>4, NextEntryTypes
<1>5. CASE NotLocated \/ RangeFails \/ EntryReturned BY <1>5, CallEndsTypes
<1>6. CASE LdapExtractAttributes \/ LdapExtractRangedAttributes BY <1>6, ExtractionTypes
<1>7. CASE RangeStep BY <1>7, RangeStepTypes
<1>8. CASE UNCHANGED vars
  <2>1. UNCHANGED <<pConnection, requests, call, directory, trusted, process>>
    BY <1>8 DEF vars, client
  <2> QED BY <2>1, OtherwiseSameTypes DEF TypeInv
<1> QED BY <1>1, <1>2, <1>3, <1>4, <1>5, <1>6, <1>7, <1>8 DEF Next, Library

LEMMA TypesHold == Spec => []TypeInv
<1> QED BY InitTypes, NextTypes, PTL DEF Spec

(* In every reachable state the variables have their types: a page that is  *)
(* there is not indexed behind its end, and an extraction works on a slot   *)
(* that its entry has.                                                      *)
THEOREM TypesAreCorrect == Spec => []TypeOK
<1>1. TypeInv => TypeOK
  <2> SUFFICES ASSUME TypeInv PROVE TypeOK
    OBVIOUS
  <2>1. \A q \in Requests : requests[q] # Null /\ requests[q].page \notin {<<>>, Freed} =>
          requests[q].index <= requests[q].count /\ requests[q].count = Len(requests[q].page)
    <3> SUFFICES ASSUME NEW q \in Requests, requests[q] # Null,
                        requests[q].page \notin {<<>>, Freed}
                 PROVE  /\ requests[q].index <= requests[q].count
                        /\ requests[q].count = Len(requests[q].page)
      OBVIOUS
    <3>1. PageInv(requests[q]) /\ requests[q] \in LdapRequest BY DEF TypeInv, RequestsInv
    <3>2. requests[q].index = 1 /\ requests[q].count = 1 /\ Len(requests[q].page) = 1
      BY <3>1 DEF PageInv
    <3> QED BY <3>2
  <2>2. call = Idle \/ (call.entry.dn \in DNs /\ call.slot \in 0..Len(call.entry.attributes))
    BY DEF TypeInv, CallInv, Extraction, Entry
  <2> QED BY <2>1, <2>2 DEF TypeInv, TypeOK, RequestsInv
<1> QED BY <1>1, TypesHold, PTL

-----------------------------------------------------------------------------
(* A careful host.                                                          *)

(* The session is dead only where the host does not trust the connection,   *)
(* and a page is freed only where the host knows that the request is over.  *)
SafeInv ==
  /\ process = "running"
  /\ pConnection = "unbound" => ~trusted
  /\ \A q \in Requests : requests[q] # Null /\ requests[q].page = Freed => requests[q].over

(* A careful host uses a connection only while its session lives.           *)
LEMMA SessionLives ==
  ASSUME CarefulHost, SafeInv, MayUseConnection
  PROVE  pConnection # "unbound"
BY DEF SafeInv, MayUseConnection

(* Steps after which each request is the one it was, or none.               *)
LEMMA RequestsDroppedSafe ==
  ASSUME SafeInv, process' = process, pConnection' = "unbound" => ~trusted',
         \A q \in Requests : requests'[q] \in {requests[q], Null}
  PROVE  SafeInv'
BY DEF SafeInv

LEMMA ConnectionSafe ==
  ASSUME CarefulHost, TypeInv, SafeInv,
         \/ \E wantsRootDse \in BOOLEAN : LdapConnect(wantsRootDse)
         \/ LdapBind \/ LdapCloseConnection \/ HostGivesUp \/ LdapReleaseEntry
  PROVE  SafeInv'
<1>0. /\ \A q \in Requests : requests[q] \in {requests[q], Null}
      /\ Null # "unbound" /\ (pConnection = "unbound" => ~trusted)
  BY MarksAssumption DEF SafeInv
<1>1. ASSUME NEW wantsRootDse \in BOOLEAN, LdapConnect(wantsRootDse) PROVE SafeInv'
  <2>1. /\ requests' = requests /\ process' = process
        /\ pConnection' = "unbound" => ~trusted'
    BY <1>0, <1>1 DEF LdapConnect, Connected
  <2> QED BY <1>0, <2>1, RequestsDroppedSafe
<1>2. CASE LdapBind
  <2>1. UNCHANGED <<pConnection, requests, trusted, process>>
    BY <1>2, SessionLives DEF LdapBind
  <2> QED BY <1>0, <2>1, RequestsDroppedSafe
<1>3. CASE LdapCloseConnection
  <2>1. UNCHANGED <<trusted, process>> /\ pConnection' \in {Null, pConnection}
        /\ (requests' = [q \in Requests |-> Null] \/ requests' = requests)
    BY <1>3, SessionLives DEF LdapCloseConnection
  <2>2. \A q \in Requests : requests'[q] \in {requests[q], Null} BY <2>1
  <2> QED BY <1>0, <2>1, <2>2, RequestsDroppedSafe
<1>4. CASE HostGivesUp
  <2>1. \A q \in Requests : requests'[q] \in {requests[q], Null} BY <1>4 DEF HostGivesUp
  <2> QED BY <1>0, <1>4, <2>1, RequestsDroppedSafe DEF HostGivesUp
<1>5. CASE LdapReleaseEntry
  <2>1. UNCHANGED <<pConnection, requests, trusted, process>> BY <1>5 DEF LdapReleaseEntry
  <2> QED BY <1>0, <2>1, RequestsDroppedSafe
<1> QED BY <1>1, <1>2, <1>3, <1>4, <1>5

LEMMA RequestSafe ==
  ASSUME CarefulHost, TypeInv, SafeInv, NEW q \in Requests,
         \/ \E attributes \in AttributeLists : LdapInitRequestEx(q, attributes)
         \/ LdapReleaseRequest(q)
  PROVE  SafeInv'
<1>0. requests \in [Requests -> LdapRequest \cup {Null}] BY DEF TypeInv, RequestsInv
<1>1. ASSUME NEW attributes \in AttributeLists, LdapInitRequestEx(q, attributes)
      PROVE  SafeInv'
  <2> DEFINE r == [attributes |-> attributes, position |-> 0, over |-> FALSE,
                   page |-> <<>>, count |-> 0, index |-> 0]
  <2>1. /\ UNCHANGED <<pConnection, trusted, process>>
        /\ requests' = [requests EXCEPT ![q] = r] \/ requests' = requests
    BY <1>1, SessionLives DEF LdapInitRequestEx
  <2>2. r.page # Freed BY DEF Freed
  <2> HIDE DEF r
  <2> QED BY <1>0, <2>1, <2>2 DEF SafeInv
<1>2. CASE LdapReleaseRequest(q)
  <2>1. UNCHANGED <<pConnection, trusted, process>> /\ requests' = [requests EXCEPT ![q] = Null]
    BY <1>2 DEF LdapReleaseRequest
  <2>2. \A p \in Requests : requests'[p] \in {requests[p], Null} BY <1>0, <2>1
  <2> QED BY <2>1, <2>2, RequestsDroppedSafe DEF SafeInv
<1> QED BY <1>1, <1>2

(* LdapGetNextEntry never meets a freed page, since the request of such a   *)
(* page is over.                                                            *)
LEMMA NextEntrySafe ==
  ASSUME CarefulHost, TypeInv, SafeInv, NEW q \in Requests, LdapGetNextEntry(q)
  PROVE  SafeInv'
<1>1. /\ MayUseConnection /\ requests[q] # Null /\ ~requests[q].over
      /\ \/ (pConnection = "unbound" \/ requests[q].page = Freed) /\ Dies
         \/ \E i \in DOMAIN Results : Fetched(q, i)
         \/ \E page \in {<<>>, Freed} : NotFetched(q, page)
  BY NextEntryCases DEF MayUseRequest
<1>2. pConnection # "unbound" /\ requests[q].page # Freed
  BY <1>1, SessionLives DEF SafeInv
<1>3. RequestsInv /\ requests[q] \in LdapRequest BY <1>1 DEF TypeInv, RequestsInv
<1>4. ASSUME NEW i \in DOMAIN Results, Fetched(q, i) PROVE SafeInv'
  <2> DEFINE dn == Results[i]
  <2>1. /\ UNCHANGED <<pConnection, trusted, process>> /\ dn \in DNs
        /\ requests' = [requests EXCEPT ![q] =
             [requests[q] EXCEPT !.page = <<dn>>, !.count = 1, !.index = 1, !.position = i]]
    BY <1>1, <1>4, FetchedFacts
  <2>2. <<dn>> # Freed
    <3>1. dn # "freed" BY <2>1, MarksAssumption
    <3> HIDE DEF dn
    <3>2. <<dn>>[1] = dn OBVIOUS
    <3> QED BY <3>1, <3>2 DEF Freed
  <2> HIDE DEF dn
  <2>3. requests'[q].page = <<dn>> /\ \A p \in Requests : p # q => requests'[p] = requests[p]
    BY <1>3, <2>1 DEF RequestsInv, LdapRequest
  <2> QED BY <2>1, <2>2, <2>3 DEF SafeInv
<1>5. ASSUME NEW page \in {<<>>, Freed}, NotFetched(q, page) PROVE SafeInv'
  <2>1. /\ requests' = [requests EXCEPT ![q].page = page, ![q].over = TRUE]
        /\ process' = process
        /\ \/ UNCHANGED <<pConnection, trusted>>
           \/ pConnection' = "unbound" /\ trusted' = FALSE
    BY <1>5 DEF NotFetched, Ends, Unbinds
  <2>2. /\ requests'[q] = [requests[q] EXCEPT !.page = page, !.over = TRUE]
        /\ \A p \in Requests : p # q => requests'[p] = requests[p]
    BY <1>1, <1>3, <2>1, RequestEnds
  <2>3. requests'[q].over = TRUE BY <1>3, <2>2 DEF LdapRequest
  <2>4. ASSUME NEW p \in Requests, requests'[p] # Null, requests'[p].page = Freed
        PROVE  requests'[p].over
    <3>1. CASE p = q BY <2>3, <3>1
    <3>2. CASE p # q BY <2>2, <2>4, <3>2 DEF SafeInv
    <3> QED BY <3>1, <3>2
  <2>5. pConnection' = "unbound" => ~trusted' BY <2>1 DEF SafeInv
  <2> QED BY <2>1, <2>4, <2>5 DEF SafeInv
<1> QED BY <1>1, <1>2, <1>4, <1>5

LEMMA LibrarySafe ==
  ASSUME TypeInv, SafeInv, Library \/ RangeFails
  PROVE  SafeInv'
<1>1. CASE LdapExtractAttributes \/ LdapExtractRangedAttributes \/ RangeStep \/ EntryReturned
  <2>1. UNCHANGED <<pConnection, requests, trusted, process>>
    BY <1>1 DEF LdapExtractAttributes, LdapExtractRangedAttributes, RangeStep, EntryReturned
  <2> QED BY <2>1, RequestsDroppedSafe DEF SafeInv
<1>2. CASE NotLocated \/ RangeFails
  <2>1. /\ requests' = [requests EXCEPT ![call.request].over = TRUE] /\ process' = process
        /\ call # Idle
        /\ \/ UNCHANGED <<pConnection, trusted>>
           \/ pConnection' = "unbound" /\ trusted' = FALSE
    BY <1>2 DEF NotLocated, RangeFails, Unbinds, Ready, InRange, Extracting
  <2> DEFINE q == call.request
  <2>2. q \in Requests /\ requests[q] # Null /\ RequestsInv
    BY <2>1 DEF TypeInv, CallInv, Extraction
  <2>3. /\ requests'[q] = [requests[q] EXCEPT !.over = TRUE]
        /\ \A p \in Requests : p # q => requests'[p] = requests[p]
    <3> HIDE DEF q
    <3>1. requests' = [requests EXCEPT ![q].over = TRUE] BY <2>1 DEF q
    <3> QED BY <2>2, <3>1, RequestIsOver
  <2>4. requests'[q].over = TRUE
    <3>1. requests[q] \in LdapRequest BY <2>2 DEF RequestsInv
    <3> HIDE DEF q
    <3> QED BY <2>3, <3>1 DEF LdapRequest
  <2> HIDE DEF q
  <2> QED BY <2>1, <2>3, <2>4 DEF SafeInv
<1> QED BY <1>1, <1>2 DEF Library

(* A host that stops using a connection after a failed connect, and after   *)
(* every failure of LdapGetNextEntry but LDAP_NO_SUCH_ATTRIBUTE, and a      *)
(* request after its end, never makes a call on a session that was unbound  *)
(* and never has a page freed twice.                                        *)
THEOREM CarefulHostNeverDies ==
  ASSUME CarefulHost
  PROVE  Spec => []NeverDies
<1>1. Init => SafeInv BY MarksAssumption DEF Init, SafeInv
<1>2. TypeInv /\ SafeInv /\ [Next]_vars => SafeInv'
  <2> SUFFICES ASSUME TypeInv, SafeInv, [Next]_vars PROVE SafeInv'
    OBVIOUS
  <2>1. CASE DirectoryChanges
    <3>1. UNCHANGED <<pConnection, requests, trusted, process>> BY <2>1 DEF DirectoryChanges
    <3> QED BY <3>1, RequestsDroppedSafe DEF SafeInv
  <2>2. CASE \/ \E wantsRootDse \in BOOLEAN : LdapConnect(wantsRootDse)
             \/ LdapBind \/ LdapCloseConnection \/ HostGivesUp \/ LdapReleaseEntry
    BY <2>2, ConnectionSafe
  <2>3. ASSUME NEW q \in Requests,
               \/ \E attributes \in AttributeLists : LdapInitRequestEx(q, attributes)
               \/ LdapReleaseRequest(q)
        PROVE  SafeInv'
    BY <2>3, RequestSafe
  <2>4. ASSUME NEW q \in Requests, LdapGetNextEntry(q) PROVE SafeInv'
    BY <2>4, NextEntrySafe
  <2>5. CASE Library \/ RangeFails BY <2>5, LibrarySafe
  <2>6. CASE UNCHANGED vars
    <3>1. UNCHANGED <<pConnection, requests, trusted, process>> BY <2>6 DEF vars, client
    <3> QED BY <3>1, RequestsDroppedSafe DEF SafeInv
  <2> QED BY <2>1, <2>2, <2>3, <2>4, <2>5, <2>6 DEF Next
<1>3. SafeInv => NeverDies BY DEF SafeInv, NeverDies
<1> QED BY <1>1, <1>2, <1>3, TypesHold, PTL DEF Spec

-----------------------------------------------------------------------------
(* The cursor.                                                              *)

(* While the host waits for an entry it was told which one was fetched.     *)
ToldOf(c) == c # Idle => told.kind = "busy" /\ told.request = c.request /\ told.dn = c.entry.dn

Positions == [q \in Requests |-> IF requests[q] = Null THEN Null ELSE requests[q].position]

(* The entry a page stands on is the result at the position of the search,  *)
(* so a request stands where its search does.                               *)
LEMMA CursorIsPosition == RequestsInv => Cursor = Positions
<1> SUFFICES ASSUME RequestsInv, NEW q \in Requests
             PROVE  Cursor[q] = Positions[q]
  BY DEF Cursor, Positions
<1>1. CASE requests[q] = Null BY <1>1 DEF Cursor, Positions
<1>2. CASE requests[q] # Null /\ requests[q].page \in {<<>>, Freed}
  BY <1>2 DEF Cursor, Positions
<1>3. CASE requests[q] # Null /\ requests[q].page \notin {<<>>, Freed}
  <2> DEFINE r == requests[q]  dn == Results[r.position]
  <2>1. /\ r.position \in DOMAIN Results /\ r.page = <<dn>> /\ r.index - 1 = 0
    BY <1>3 DEF RequestsInv, PageInv
  <2>2. dn \in DNs /\ dn # Null BY <2>1, MarksAssumption DEF DNs
  <2>3. EntryAt(r.page, r.index - 1) = dn
    <3> HIDE DEF dn
    <3> QED BY <2>1 DEF EntryAt
  <2>4. PositionOf(dn) = r.position BY <2>1, PositionOfResult
  <2>5. Cursor[q] = LET d == EntryAt(r.page, r.index - 1)
                    IN  IF d = Null THEN r.position ELSE PositionOf(d)
    BY <1>3 DEF Cursor
  <2>6. Cursor[q] = r.position
    <3> HIDE DEF dn
    <3> QED BY <2>2, <2>3, <2>4, <2>5
  <2> QED BY <1>3, <2>6 DEF Positions
<1> QED BY <1>1, <1>2, <1>3

LEMMA NextCursorIsPosition == RequestsInv' => Cursor' = Positions'
<1>1. (RequestsInv => Cursor = Positions)' BY CursorIsPosition, PTL
<1> QED BY <1>1

(* What changes of the cursors when one request does.                       *)
LEMMA CursorMoves ==
  ASSUME RequestsInv, RequestsInv', NEW q \in Requests,
         \A p \in Requests : p # q => requests'[p] = requests[p]
  PROVE  Cursor' = [Cursor EXCEPT ![q] = Positions'[q]]
<1>1. Cursor = Positions /\ Cursor' = Positions' BY CursorIsPosition, NextCursorIsPosition
<1>2. \A p \in Requests : p # q => Positions'[p] = Positions[p] BY DEF Positions
<1> QED BY <1>1, <1>2 DEF Positions

LEMMA CursorStays ==
  ASSUME RequestsInv, RequestsInv', UNCHANGED requests
  PROVE  Cursor' = Cursor
BY CursorIsPosition, NextCursorIsPosition DEF Positions

LEMMA CursorStaysAtEnd ==
  ASSUME RequestsInv, RequestsInv', NEW q \in Requests, requests[q] # Null,
         requests'[q] # Null, requests'[q].position = requests[q].position,
         \A p \in Requests : p # q => requests'[p] = requests[p]
  PROVE  Cursor' = Cursor
<1>1. Positions'[q] = Positions[q] BY DEF Positions
<1>2. Cursor = Positions BY CursorIsPosition
<1>3. Cursor' = [Cursor EXCEPT ![q] = Positions'[q]] BY CursorMoves
<1> QED BY <1>1, <1>2, <1>3 DEF Positions

(* What is ahead of a cursor is what the server still has.                  *)
LEMMA AheadIsLeft ==
  ASSUME RequestsInv, NEW q \in Requests, requests[q] # Null
  PROVE  /\ Stream!Ahead(q) = Left(requests[q].position)
         /\ Cursor[q] = requests[q].position /\ Cursor[q] # Null
<1> DEFINE p == requests[q].position
<1>1. p \in Nat
  <2>1. requests[q] \in LdapRequest BY DEF RequestsInv
  <2> QED BY <2>1, ResultsAssumption, LenProperties DEF LdapRequest
<1>2. Cursor[q] = p BY CursorIsPosition DEF Positions
<1>3. DOMAIN Results = 1..Len(Results) /\ Len(Results) \in Nat
  BY ResultsAssumption, LenProperties
<1>4. Stream!Ahead(q) = {i \in DOMAIN Results : i > p /\ Exists(Results[i])}
  BY <1>2 DEF Stream!Ahead, Stream!Exists, Exists
<1> HIDE DEF p
<1>5. {i \in DOMAIN Results : i > p /\ Exists(Results[i])} = Left(p)
  BY <1>1, <1>3 DEF Left
<1>6. p # Null BY <1>1, MarksAssumption
<1> QED BY <1>2, <1>4, <1>5, <1>6 DEF p

-----------------------------------------------------------------------------
(* Each step is a step of the cursor, or none.                              *)

Streams == Stream!Next \/ UNCHANGED Stream!vars

(* Steps that leave the cursors and the directory where they are, and say   *)
(* nothing, or something that is no promise.                                *)
LEMMA StaysStreams ==
  ASSUME UNCHANGED <<Cursor, directory>>,
         \/ UNCHANGED told
         \/ \E kind \in {"other", "refused", "failed", "notRequested"} :
              Told(kind, Null, Null)
  PROVE  Streams
<1>1. CASE UNCHANGED told BY <1>1 DEF Streams, Stream!vars
<1>2. CASE Told("other", Null, Null)
  <2>1. Stream!Other BY <1>2 DEF Stream!Other, Told
  <2> QED BY <2>1 DEF Streams, Stream!Next
<1>3. ASSUME NEW kind \in {"refused", "failed", "notRequested"}, Told(kind, Null, Null)
      PROVE  Streams
  <2>1. told'.kind = kind BY <1>3 DEF Told
  <2>2. Stream!Fail BY <2>1 DEF Stream!Fail
  <2> QED BY <2>2 DEF Streams, Stream!Next
<1> QED BY <1>1, <1>2, <1>3

LEMMA DirectoryChangesStreams ==
  ASSUME TypeInv, TypeInv', ToldOf(call), DirectoryChanges
  PROVE  Streams /\ ToldOf(call)'
<1>1. PICK dn \in {d \in DNs : Exists(d)} :
        \E n \in {directory.members[dn] + 1, directory.members[dn] - 1, Deleted} :
          /\ n \in 0..MaxMembers \cup {Deleted}
          /\ directory' = [members |-> [directory.members EXCEPT ![dn] = n],
                           changes |-> directory.changes + 1]
          /\ call' = IF call # Idle /\ call.entry.dn = dn
                     THEN [call EXCEPT !.seen = @ \cup {n}] ELSE call
  BY DEF DirectoryChanges
<1>2. PICK n \in {directory.members[dn] + 1, directory.members[dn] - 1, Deleted} :
          /\ directory' = [members |-> [directory.members EXCEPT ![dn] = n],
                           changes |-> directory.changes + 1]
          /\ call' = IF call # Idle /\ call.entry.dn = dn
                     THEN [call EXCEPT !.seen = @ \cup {n}] ELSE call
  BY <1>1
<1>3. UNCHANGED <<requests, told>> BY DEF DirectoryChanges
<1>4. directory'.members # directory.members
  <2>1. directory.members[dn] \in Int /\ directory.members[dn] # Deleted
    BY <1>1 DEF TypeInv, Exists
  <2>2. n # directory.members[dn] BY <1>2, <2>1
  <2>3. directory'.members = [directory.members EXCEPT ![dn] = n] BY <1>2
  <2>4. directory'.members[dn] = n BY <2>3 DEF TypeInv
  <2> QED BY <2>2, <2>4
<1>5. Cursor' = Cursor BY <1>3, CursorStays DEF TypeInv
<1>6. Stream!Change BY <1>3, <1>4, <1>5 DEF Stream!Change
<1>7. ToldOf(call)'
  <2>1. CASE call' = call BY <1>3, <2>1 DEF ToldOf
  <2>2. CASE call # Idle /\ call' = [call EXCEPT !.seen = @ \cup {n}]
    <3>1. call \in Extraction BY <2>2 DEF TypeInv, CallInv
    <3>2. call'.request = call.request /\ call'.entry = call.entry BY <2>2, <3>1 DEF Extraction
    <3> QED BY <1>3, <2>2, <3>2 DEF ToldOf
  <2> QED BY <1>2, <2>1, <2>2
<1> QED BY <1>6, <1>7 DEF Streams, Stream!Next

LEMMA DiesStreams ==
  ASSUME TypeInv, TypeInv', Dies
  PROVE  Streams
<1>1. Cursor' = Cursor BY CursorStays DEF Dies, TypeInv
<1> QED BY <1>1, StaysStreams DEF Dies

(* All requests are dropped.                                                *)
LEMMA ClosesStreams ==
  ASSUME RequestsInv', requests' = [q \in Requests |-> Null], Told("closed", Null, Null),
         UNCHANGED directory
  PROVE  Streams
<1>1. Cursor' = [q \in Requests |-> Null] BY NextCursorIsPosition DEF Positions
<1>2. Stream!Close BY <1>1 DEF Stream!Close, Told
<1> QED BY <1>2 DEF Streams, Stream!Next

LEMMA ConnectionStreams ==
  ASSUME TypeInv, TypeInv',
         \/ \E wantsRootDse \in BOOLEAN : LdapConnect(wantsRootDse)
         \/ LdapBind \/ LdapCloseConnection \/ HostGivesUp \/ LdapReleaseEntry
  PROVE  Streams /\ call' = Idle
<1>0. call' = Idle
  BY DEF LdapConnect, Connected, LdapBind, Dies, LdapCloseConnection, HostGivesUp,
         LdapReleaseEntry, MayUseConnection, MayCall
<1>1. ASSUME UNCHANGED <<requests, directory>>,
             \E kind \in {"other", "refused"} : Told(kind, Null, Null)
      PROVE  Streams
  <2>1. Cursor' = Cursor BY <1>1, CursorStays DEF TypeInv
  <2> QED BY <1>1, <2>1, StaysStreams
<1>2. ASSUME NEW session, NEW ok \in BOOLEAN, Connected(session, ok) PROVE Streams
  <2>1. \E kind \in {"other", "refused"} : Told(kind, Null, Null)
    <3>1. CASE ok BY <1>2, <3>1 DEF Connected
    <3>2. CASE ~ok BY <1>2, <3>2 DEF Connected
    <3> QED BY <3>1, <3>2
  <2>2. UNCHANGED <<requests, directory>> BY <1>2 DEF Connected
  <2> QED BY <1>1, <2>1, <2>2
<1>3. ASSUME NEW wantsRootDse \in BOOLEAN, LdapConnect(wantsRootDse) PROVE Streams
  BY <1>2, <1>3 DEF LdapConnect
<1>4. CASE LdapBind
  <2>1. CASE Dies BY <1>0, <2>1, DiesStreams
  <2>2. CASE ~Dies BY <1>0, <1>1, <1>4, <2>2 DEF LdapBind
  <2> QED BY <2>1, <2>2
<1>5. CASE LdapCloseConnection
  <2>1. CASE Dies BY <1>0, <2>1, DiesStreams
  <2>2. CASE ~Dies /\ Told("other", Null, Null) /\ UNCHANGED <<requests, directory>>
    BY <1>0, <1>1, <2>2
  <2>3. CASE /\ requests' = [q \in Requests |-> Null] /\ Told("closed", Null, Null)
             /\ UNCHANGED directory
    BY <1>0, <2>3, ClosesStreams DEF TypeInv
  <2> QED BY <1>5, <2>1, <2>2, <2>3 DEF LdapCloseConnection
<1>6. CASE HostGivesUp
  <2>1. /\ requests' = [q \in Requests |-> Null] /\ Told("closed", Null, Null)
        /\ UNCHANGED directory
    BY <1>6 DEF HostGivesUp
  <2> QED BY <1>0, <2>1, ClosesStreams DEF TypeInv
<1>7. CASE LdapReleaseEntry BY <1>0, <1>1, <1>7 DEF LdapReleaseEntry
<1> QED BY <1>0, <1>3, <1>4, <1>5, <1>6, <1>7

LEMMA RequestStreams ==
  ASSUME TypeInv, TypeInv', NEW q \in Requests,
         \/ \E attributes \in AttributeLists : LdapInitRequestEx(q, attributes)
         \/ LdapReleaseRequest(q)
  PROVE  Streams /\ call' = Idle
<1>0. requests \in [Requests -> LdapRequest \cup {Null}] /\ RequestsInv /\ RequestsInv'
  BY DEF TypeInv, RequestsInv
<1>1. ASSUME NEW attributes \in AttributeLists, LdapInitRequestEx(q, attributes)
      PROVE  Streams /\ call' = Idle
  <2> DEFINE r == [attributes |-> attributes, position |-> 0, over |-> FALSE,
                   page |-> <<>>, count |-> 0, index |-> 0]
  <2>0. call' = Idle /\ requests[q] = Null
    BY <1>1 DEF LdapInitRequestEx, MayUseConnection, MayCall, Dies
  <2>1. CASE Dies BY <2>0, <2>1, DiesStreams
  <2>2. CASE UNCHANGED <<requests, directory>> /\ Told("other", Null, Null)
    <3>1. Cursor' = Cursor BY <1>0, <2>2, CursorStays
    <3> QED BY <2>0, <2>2, <3>1, StaysStreams
  <2>3. CASE /\ requests' = [requests EXCEPT ![q] = r] /\ UNCHANGED directory
             /\ Told("searching", q, Null)
    <3>1. requests'[q] = r /\ \A p \in Requests : p # q => requests'[p] = requests[p]
      BY <1>0, <2>3
    <3>2. r # Null
      <4>1. Len(Results) \in Nat /\ <<>> \in Seq(DNs) /\ attributes \in Seq(Names)
        BY ResultsAssumption, LenProperties, EmptySeq, ListsAssumption
      <4>2. r \in LdapRequest BY <4>1 DEF LdapRequest
      <4> HIDE DEF r
      <4> QED BY <4>2, MarksAssumption
    <3>3. Positions'[q] = 0 BY <3>1, <3>2 DEF Positions
    <3>4. Cursor[q] = Null BY <1>0, <2>0, CursorIsPosition DEF Positions
    <3>5. Cursor' = [Cursor EXCEPT ![q] = 0] BY <1>0, <3>1, <3>3, CursorMoves
    <3>6. Stream!Search(q)
      BY <2>3, <3>4, <3>5 DEF Stream!Search, Stream!Tells, Told
    <3> QED BY <2>0, <3>6 DEF Streams, Stream!Next
  <2> QED BY <1>1, <2>1, <2>2, <2>3 DEF LdapInitRequestEx
<1>2. CASE LdapReleaseRequest(q)
  <2>1. /\ requests' = [requests EXCEPT ![q] = Null] /\ requests[q] # Null
        /\ Told("released", q, Null) /\ UNCHANGED directory /\ call' = Idle
    BY <1>2 DEF LdapReleaseRequest, MayUseRequest, MayUseConnection, MayCall
  <2>2. requests'[q] = Null /\ \A p \in Requests : p # q => requests'[p] = requests[p]
    BY <1>0, <2>1
  <2>3. Cursor' = [Cursor EXCEPT ![q] = Null]
    <3>1. Positions'[q] = Null BY <2>2 DEF Positions
    <3> QED BY <1>0, <2>2, <3>1, CursorMoves
  <2>4. Cursor[q] # Null BY <1>0, <2>1, AheadIsLeft
  <2>5. Stream!Release(q) BY <2>1, <2>3, <2>4 DEF Stream!Release, Stream!Tells, Told
  <2> QED BY <2>1, <2>5 DEF Streams, Stream!Next
<1> QED BY <1>1, <1>2
(* A page that arrives is a fetch of the first entry that is ahead.         *)
LEMMA FetchedStreams ==
  ASSUME TypeInv, TypeInv', NEW q \in Requests, requests[q] # Null,
         NEW i \in DOMAIN Results, Fetched(q, i)
  PROVE  Streams /\ ToldOf(call)'
<1> DEFINE dn == Results[i]  position == requests[q].position
           r == [requests[q] EXCEPT !.page = <<dn>>, !.count = 1, !.index = 1, !.position = i]
<1>1. /\ i \in Left(position) /\ \A j \in Left(position) : i <= j
      /\ requests' = [requests EXCEPT ![q] = r]
      /\ Told("busy", q, dn) /\ UNCHANGED directory
      /\ call'.request = q /\ call'.entry.dn = dn
  <2>1. \E message \in Messages(dn, requests[q].attributes) :
              call' = [request |-> q, entry |-> NewEntry(dn, requests[q].attributes),
                       todo |-> message, slot |-> 0, asked |-> 0,
                       seen |-> {directory.members[dn]}]
    BY FetchedFacts
  <2>2. NewEntry(dn, requests[q].attributes).dn = dn BY DEF NewEntry
  <2>3. call'.request = q /\ call'.entry.dn = dn BY <2>1, <2>2
  <2> QED BY <2>3, FetchedFacts
<1>2. RequestsInv /\ RequestsInv' /\ requests[q] \in LdapRequest BY DEF TypeInv, RequestsInv
<1>3. requests'[q] = r /\ r.position = i
      /\ \A p \in Requests : p # q => requests'[p] = requests[p]
  BY <1>1, <1>2 DEF RequestsInv, LdapRequest
<1>4. requests'[q] # Null
  <2>1. call' # Idle BY <1>1, MarksAssumption DEF Idle
  <2> QED BY <1>1, <2>1 DEF TypeInv, CallInv
<1>5. Cursor' = [Cursor EXCEPT ![q] = i]
  <2>1. Positions'[q] = i BY <1>3, <1>4 DEF Positions
  <2> QED BY <1>2, <1>3, <2>1, CursorMoves
<1>6. Stream!Ahead(q) = Left(position) /\ Cursor[q] # Null BY <1>2, AheadIsLeft
<1>7. i = CHOOSE k \in Stream!Ahead(q) : \A j \in Stream!Ahead(q) : k <= j
  <2> DEFINE left == Left(position)
  <2>1. \A k \in left : k \in Nat
    <3>1. position \in Nat BY <1>2, ResultsAssumption, LenProperties DEF LdapRequest
    <3>2. \A k \in left : k \in 1..Len(Results) BY <3>1, LeftFacts
    <3> HIDE DEF left
    <3> QED BY <3>2
  <2>2. i \in left /\ \A j \in left : i <= j BY <1>1
  <2>3. Stream!Ahead(q) = left BY <1>6
  <2> HIDE DEF left
  <2> QED BY <2>1, <2>2, <2>3
<1>8. Stream!Fetch(q)
  <2>1. told'.kind = "busy" /\ told'.request = q /\ told'.dn = dn BY <1>1 DEF Told
  <2>2. Stream!Ahead(q) # {} BY <1>1, <1>6
  <2> QED BY <1>1, <1>5, <1>6, <1>7, <2>1, <2>2 DEF Stream!Fetch, Stream!Tells
<1>9. ToldOf(call)' BY <1>1 DEF ToldOf, Told
<1> QED BY <1>8, <1>9 DEF Streams, Stream!Next

(* Only an end the server comes to of itself is not what the cursor says.   *)
LEMMA NextEntryStreams ==
  ASSUME ~SilentEnds, TypeInv, TypeInv', ToldOf(call), NEW q \in Requests, LdapGetNextEntry(q)
  PROVE  Streams /\ ToldOf(call)'
<1>1. requests[q] # Null /\ call = Idle BY NextEntryCases
<1>2. CASE Dies
  <2>1. ToldOf(call)' BY <1>1, <1>2 DEF Dies, ToldOf
  <2> QED BY <1>2, <2>1, DiesStreams
<1>3. ASSUME NEW i \in DOMAIN Results, Fetched(q, i) PROVE Streams /\ ToldOf(call)'
  BY <1>1, <1>3, FetchedStreams
<1>4. ASSUME NEW page \in {<<>>, Freed}, NotFetched(q, page) PROVE Streams /\ ToldOf(call)'
  <2>1. /\ requests' = [requests EXCEPT ![q].page = page, ![q].over = TRUE]
        /\ UNCHANGED <<call, directory>>
    BY <1>4 DEF NotFetched, Ends
  <2>2. RequestsInv /\ RequestsInv' /\ requests[q] \in LdapRequest
    BY <1>1 DEF TypeInv, RequestsInv
  <2>3. /\ requests'[q] = [requests[q] EXCEPT !.page = page, !.over = TRUE]
        /\ requests'[q] # Null /\ \A p \in Requests : p # q => requests'[p] = requests[p]
    BY <1>1, <2>1, <2>2, RequestEnds
  <2>4. requests'[q].position = requests[q].position BY <2>2, <2>3 DEF LdapRequest
  <2>5. Cursor' = Cursor BY <1>1, <2>2, <2>3, <2>4, CursorStaysAtEnd
  <2>6. ToldOf(call)' BY <1>1, <2>1 DEF ToldOf
  <2>7. CASE Left(requests[q].position) = {} /\ Ends(q, page)
    <3>1. Stream!Ahead(q) = {} /\ Cursor[q] # Null BY <1>1, <2>2, <2>7, AheadIsLeft
    <3>2. Stream!End(q) BY <2>1, <2>5, <2>7, <3>1 DEF Stream!End, Stream!Tells, Ends, Told
    <3> QED BY <2>6, <3>2 DEF Streams, Stream!Next
  <2>8. CASE Unbinds("failed") BY <2>1, <2>5, <2>6, <2>8, StaysStreams DEF Unbinds
  <2> QED BY <1>4, <2>7, <2>8 DEF NotFetched
<1> QED BY <1>2, <1>3, <1>4, NextEntryCases

LEMMA LibraryStreams ==
  ASSUME TypeInv, TypeInv', ToldOf(call), Library \/ RangeFails
  PROVE  Streams /\ ToldOf(call)'
<1>0. call # Idle /\ RequestsInv /\ RequestsInv'
  BY DEF Library, NotLocated, LdapExtractAttributes, LdapExtractRangedAttributes, RangeStep,
         EntryReturned, RangeFails, Ready, InRange, Extracting, TypeInv
<1>1. call \in Extraction /\ requests[call.request] # Null BY <1>0 DEF TypeInv, CallInv
<1>2. CASE LdapExtractAttributes \/ LdapExtractRangedAttributes \/ RangeStep
  <2>1. UNCHANGED <<requests, directory, told>>
    BY <1>2 DEF LdapExtractAttributes, LdapExtractRangedAttributes, RangeStep
  <2>2. call'.request = call.request /\ call'.entry.dn = call.entry.dn
    <3>1. call.entry \in Entry BY <1>1 DEF Extraction
    <3>2. CASE LdapExtractAttributes \/ LdapExtractRangedAttributes
      <4>1. call.todo # <<>> /\ Located.slot # 0
        BY <3>2 DEF LdapExtractAttributes, LdapExtractRangedAttributes
      <4>2. /\ Current \in MessageAttribute /\ Located.entry \in Entry
            /\ Located.entry.dn = call.entry.dn
            /\ Located.slot \in DOMAIN Located.entry.attributes
        BY <1>0, <4>1, LocatedFacts DEF TypeInv
      <4> DEFINE e == Located.entry  i == Located.slot  values == Current.values
      <4>3. values \in Seq(Nat) BY <4>2 DEF MessageAttribute
      <4>4. CASE LdapExtractAttributes
        <5> DEFINE f == WithValues(e, i, values)
        <5>1. e \in Entry /\ i \in DOMAIN e.attributes /\ e.dn = call.entry.dn
              /\ call' = Done(f)
          BY <4>2, <4>4 DEF LdapExtractAttributes
        <5> HIDE DEF e, i, values
        <5>2. f \in Entry /\ f.dn = e.dn BY <4>3, <5>1, WithValuesFacts
        <5> HIDE DEF f
        <5>3. call'.request = call.request /\ call'.entry = f BY <1>1, <4>1, <5>1, <5>2, DoneFacts
        <5> QED BY <5>1, <5>2, <5>3
      <4>5. CASE LdapExtractRangedAttributes
        <5>1. call' = [call EXCEPT !.entry = e, !.slot = i, !.asked = Current.range[1]]
          BY <4>5 DEF LdapExtractRangedAttributes
        <5>2. e.dn = call.entry.dn BY <4>2
        <5> HIDE DEF e, i
        <5> QED BY <1>1, <5>1, <5>2 DEF Extraction
      <4> QED BY <3>2, <4>4, <4>5
    <3>3. CASE RangeStep
      <4>1. call.slot # 0 /\ call.todo # <<>> /\ call.slot \in 0..Len(call.entry.attributes)
        BY <1>0, <3>3 DEF RangeStep, InRange, TypeInv, CallInv
      <4>2. call.slot \in DOMAIN call.entry.attributes
        BY <3>1, <4>1, LenProperties DEF Entry
      <4>3. CASE RangeArrives
        <5> DEFINE end == RangeEnd(call.asked, directory.members[call.entry.dn])
                   values == From(call.asked + 1, end)
                   e == WithValues(call.entry, call.slot, values)
        <5>1. /\ values \in Seq(Nat)
              /\ call' = Done(e) \/ call' = [call EXCEPT !.entry = e, !.asked = end]
          BY <1>0, <4>1, <4>3, RangeArrivesFacts
        <5> HIDE DEF end, values
        <5>2. e \in Entry /\ e.dn = call.entry.dn BY <3>1, <4>2, <5>1, WithValuesFacts
        <5> HIDE DEF e
        <5>3. CASE call' = Done(e) BY <1>1, <4>1, <5>2, <5>3, DoneFacts
        <5>4. CASE call' = [call EXCEPT !.entry = e, !.asked = end]
          BY <1>1, <5>2, <5>4 DEF Extraction
        <5> QED BY <5>1, <5>3, <5>4
      <4>4. CASE call' = Done(call.entry) BY <1>1, <3>1, <4>1, <4>4, DoneFacts
      <4> QED BY <3>3, <4>3, <4>4 DEF RangeStep, RangeIsEmpty, EntryIsGone
    <3> QED BY <1>2, <3>2, <3>3
  <2>3. ToldOf(call)' BY <1>0, <2>1, <2>2 DEF ToldOf
  <2>4. Cursor' = Cursor BY <1>0, <2>1, CursorStays
  <2> QED BY <2>1, <2>3, <2>4, StaysStreams
<1>3. CASE NotLocated \/ RangeFails
  <2> DEFINE q == call.request
  <2>1. /\ requests' = [requests EXCEPT ![call.request].over = TRUE]
        /\ call' = Idle /\ UNCHANGED directory
        /\ \E kind \in {"failed", "notRequested"} : Told(kind, Null, Null)
    BY <1>3 DEF NotLocated, RangeFails, Unbinds
  <2>2. q \in Requests /\ requests[q] # Null /\ requests[q] \in LdapRequest
    <3>1. q \in Requests /\ requests[q] # Null BY <1>1 DEF Extraction
    <3> HIDE DEF q
    <3> QED BY <1>0, <3>1 DEF RequestsInv
  <2>3. requests' = [requests EXCEPT ![q].over = TRUE] BY <2>1
  <2> HIDE DEF q
  <2>4. /\ requests'[q] = [requests[q] EXCEPT !.over = TRUE] /\ requests'[q] # Null
        /\ \A p \in Requests : p # q => requests'[p] = requests[p]
    BY <1>0, <2>2, <2>3, RequestIsOver
  <2>5. requests'[q].position = requests[q].position BY <2>2, <2>4 DEF LdapRequest
  <2>6. Cursor' = Cursor BY <1>0, <2>2, <2>4, <2>5, CursorStaysAtEnd
  <2> QED BY <2>1, <2>6, StaysStreams DEF ToldOf
<1>4. CASE EntryReturned
  <2> DEFINE q == call.request
  <2>1. /\ call' = Idle /\ UNCHANGED <<requests, directory>>
        /\ Told("entry", q, call.entry.dn)
    BY <1>4 DEF EntryReturned
  <2>2. q \in Requests BY <1>1 DEF Extraction
  <2>3. told.kind = "busy" /\ told.request = q /\ told.dn = call.entry.dn BY <1>0 DEF ToldOf
  <2> HIDE DEF q
  <2>4. Cursor' = Cursor BY <1>0, <2>1, CursorStays
  <2>5. Stream!Return(q) BY <2>1, <2>3, <2>4 DEF Stream!Return, Stream!Tells, Told
  <2> QED BY <2>1, <2>2, <2>5 DEF Streams, Stream!Next, ToldOf
<1> QED BY <1>2, <1>3, <1>4 DEF Library

(* LibLdap implements LdapResults, for a server that ends a search only when*)
(* no entry is left: a search gives each entry that exists once and in the  *)
(* order of the server, whatever other requests, failures and changes of the*)
(* directory come between, and the end is reported when nothing is left.    *)
THEOREM SearchIsImplemented ==
  ASSUME ~SilentEnds
  PROVE  Spec => ResultsImplemented
<1>1. Init => Stream!Init /\ ToldOf(call)
  <2> SUFFICES ASSUME Init PROVE Stream!Init /\ ToldOf(call)
    OBVIOUS
  <2>1. Cursor = [q \in Requests |-> Null] BY DEF Init, Cursor
  <2> QED BY <2>1 DEF Init, Stream!Init, ToldOf
<1>2. TypeInv /\ TypeInv' /\ ToldOf(call) /\ [Next]_vars
        => [Stream!Next]_(Stream!vars) /\ ToldOf(call)'
  <2> SUFFICES ASSUME TypeInv, TypeInv', ToldOf(call), [Next]_vars
               PROVE  Streams /\ ToldOf(call)'
    BY DEF Streams
  <2>1. CASE DirectoryChanges BY <2>1, DirectoryChangesStreams
  <2>2. CASE \/ \E wantsRootDse \in BOOLEAN : LdapConnect(wantsRootDse)
             \/ LdapBind \/ LdapCloseConnection \/ HostGivesUp \/ LdapReleaseEntry
    BY <2>2, ConnectionStreams DEF ToldOf
  <2>3. ASSUME NEW q \in Requests,
               \/ \E attributes \in AttributeLists : LdapInitRequestEx(q, attributes)
               \/ LdapReleaseRequest(q)
        PROVE  Streams /\ ToldOf(call)'
    BY <2>3, RequestStreams DEF ToldOf
  <2>4. ASSUME NEW q \in Requests, LdapGetNextEntry(q) PROVE Streams /\ ToldOf(call)'
    BY <2>4, NextEntryStreams
  <2>5. CASE Library \/ RangeFails BY <2>5, LibraryStreams
  <2>6. CASE UNCHANGED vars
    <3>1. UNCHANGED <<requests, call, directory, told>> BY <2>6 DEF vars, client
    <3>2. Cursor' = Cursor BY <3>1, CursorStays DEF TypeInv
    <3> QED BY <3>1, <3>2, StaysStreams DEF ToldOf
  <2> QED BY <2>1, <2>2, <2>3, <2>4, <2>5, <2>6 DEF Next
<1> QED BY <1>1, <1>2, TypesHold, PTL DEF Spec, ResultsImplemented, Stream!Spec

-----------------------------------------------------------------------------
(* The attributes of an entry.                                              *)

(* The host requests an attribute once in a list.                           *)
DistinctLists ==
  \A list \in AttributeLists : \A i, j \in DOMAIN list : list[i] = list[j] => i = j

ListsInv == \A q \in Requests : requests[q] # Null => requests[q].attributes \in AttributeLists

(* An attribute as the host gets it, with the values that were seen.        *)
Whole(a, seen) ==
  /\ a.values = From(1, Len(a.values))
  /\ a.name = Requested("name") => Len(a.values) = 1
  /\ a.name = Requested("member") =>
       /\ \E n \in seen : Len(a.values) <= n
       /\ \E n \in seen : Len(a.values) >= n

(* What is left to extract was in the directory at some time of the call.   *)
TodoInv(c) ==
  /\ \A k \in DOMAIN c.todo : \E n \in c.seen : n \in Nat /\ AsSent(c.todo[k], n)
  /\ \A k, l \in DOMAIN c.todo : c.todo[k].type = c.todo[l].type => k = l

(* A slot has the values that arrived so far as long as its attribute is    *)
(* among those left, and is whole afterwards; one that was requested with   *)
(* an option never gets any.                                                *)
SlotOk(a, c, arrived) ==
  /\ a.name.option => a.values = <<>>
  /\ \A type \in {"name", "member"} : a.name = Requested(type) =>
       IF Has(c.todo, type) THEN a.values = From(1, arrived) ELSE Whole(a, c.seen)
SlotsInv(c) ==
  \A i \in DOMAIN c.entry.attributes :
    SlotOk(c.entry.attributes[i], c, IF c.slot = i THEN c.asked ELSE 0)
NamesInv(c) ==
  \A i, j \in DOMAIN c.entry.attributes :
    c.entry.attributes[i].name = c.entry.attributes[j].name => i = j
(* Where slots are added, only the current one is of an attribute that is   *)
(* left.                                                                    *)
AddedInv(c) ==
  requests[c.request].attributes = <<>> =>
    \A i \in DOMAIN c.entry.attributes, type \in {"name", "member"} :
      c.entry.attributes[i].name = Requested(type) /\ Has(c.todo, type) => c.slot = i
Consistent(c) == TodoInv(c) /\ SlotsInv(c) /\ NamesInv(c) /\ AddedInv(c)

(* Ranges are asked for up to where the attribute once had values.          *)
RangeInv(c) ==
  c.slot # 0 =>
    /\ c.todo[1].type = "member" /\ c.entry.attributes[c.slot].name = Requested("member")
    /\ \E n \in c.seen : c.asked <= n
CallWhole(c) ==
  c # Idle => /\ directory.members[c.entry.dn] \in c.seen
              /\ Consistent(c) /\ RangeInv(c)

WholeInv == ListsInv /\ CallWhole(call) /\ AttributesComplete

(* No values are those up to none.                                          *)
LEMMA FromNothing == From(1, 0) = <<>>
<1>1. 1 \in Nat /\ 0 \in Int /\ 0 >= 1 - 1 /\ 0 = 1 - 1 OBVIOUS
<1> QED BY <1>1, FromIsASequence

LEMMA LenFrom ==
  ASSUME NEW n \in Nat
  PROVE  Len(From(1, n)) = n
<1>1. 1 \in Nat /\ n \in Int /\ n >= 1 - 1 OBVIOUS
<1>2. Len(From(1, n)) = n - 1 + 1 BY <1>1, FromIsASequence
<1> QED BY <1>2

(* The names of types.                                                      *)
LEMMA RequestedFacts ==
  ASSUME NEW type, NEW other
  PROVE  /\ Requested(type) = Requested(other) => type = other
         /\ ~Requested(type).option /\ Requested(type).type = type
<1>1. Requested(type).type = type /\ Requested(other).type = other BY DEF Requested
<1>2. Requested(type).option = FALSE BY DEF Requested
<1> QED BY <1>1, <1>2

(* What is seen more of an attribute makes it no less whole.                *)
LEMMA WholeGrows ==
  ASSUME NEW a, NEW seen, NEW more, seen \subseteq more, Whole(a, seen)
  PROVE  Whole(a, more)
BY DEF Whole

(* A type is left after the first one was taken away when it was left and   *)
(* is another.                                                              *)
LEMMA HasTail ==
  ASSUME NEW c \in Extraction, c.todo # <<>>, TodoInv(c), NEW type
  PROVE  Has(Tail(c.todo), type) <=> Has(c.todo, type) /\ type # c.todo[1].type
<1> DEFINE s == c.todo  t == Tail(s)
<1>1. s \in Seq(MessageAttribute) BY DEF Extraction
<1>2. /\ t \in Seq(MessageAttribute) /\ Len(t) = Len(s) - 1
      /\ \A k \in 1..Len(t) : t[k] = s[k + 1]
      /\ DOMAIN t = 1..Len(t) /\ DOMAIN s = 1..Len(s) /\ Len(s) \in Nat \ {0}
  <2>1. /\ t \in Seq(MessageAttribute) /\ Len(t) = Len(s) - 1
        /\ \A k \in 1..Len(t) : t[k] = s[k + 1]
    BY <1>1, HeadTailProperties
  <2>2. Len(s) \in Nat \ {0} BY <1>1, EmptySeq
  <2> QED BY <1>1, <2>1, <2>2, LenProperties
<1>3. \A k, l \in DOMAIN s : s[k].type = s[l].type => k = l BY DEF TodoInv
<1> HIDE DEF s, t
<1>4. ASSUME Has(t, type) PROVE Has(s, type) /\ type # s[1].type
  <2>1. PICK k \in DOMAIN t : t[k].type = type BY <1>4 DEF Has
  <2>2. k + 1 \in DOMAIN s /\ 1 \in DOMAIN s /\ k + 1 # 1 /\ s[k + 1].type = type
    BY <1>2, <2>1
  <2> QED BY <1>3, <2>2 DEF Has
<1>5. ASSUME Has(s, type), type # s[1].type PROVE Has(t, type)
  <2>1. PICK k \in DOMAIN s : s[k].type = type BY <1>5 DEF Has
  <2>2. k # 1 BY <1>5, <2>1
  <2>3. k - 1 \in DOMAIN t /\ (k - 1) + 1 = k BY <1>2, <2>1, <2>2
  <2>4. t[k - 1].type = type BY <1>2, <2>1, <2>3
  <2> QED BY <2>3, <2>4 DEF Has
<1> QED BY <1>4, <1>5 DEF s, t

LEMMA TodoTail ==
  ASSUME NEW c \in Extraction, c.todo # <<>>, TodoInv(c), NEW d, d.todo = Tail(c.todo),
         d.seen = c.seen
  PROVE  TodoInv(d)
<1> DEFINE s == c.todo  t == Tail(s)
<1>1. s \in Seq(MessageAttribute) BY DEF Extraction
<1>2. /\ Len(t) = Len(s) - 1
      /\ \A k \in 1..Len(t) : t[k] = s[k + 1]
      /\ DOMAIN t = 1..Len(t) /\ DOMAIN s = 1..Len(s) /\ Len(s) \in Nat \ {0}
  <2>1. /\ t \in Seq(MessageAttribute) /\ Len(t) = Len(s) - 1
        /\ \A k \in 1..Len(t) : t[k] = s[k + 1]
    BY <1>1, HeadTailProperties
  <2>2. Len(s) \in Nat \ {0} BY <1>1, EmptySeq
  <2> QED BY <1>1, <2>1, <2>2, LenProperties
<1>3. /\ \A k, l \in DOMAIN s : s[k].type = s[l].type => k = l
      /\ \A k \in DOMAIN s : \E n \in c.seen : n \in Nat /\ AsSent(s[k], n)
  BY DEF TodoInv
<1>4. d.todo = t OBVIOUS
<1> HIDE DEF s, t
<1>5. \A k \in DOMAIN t : k + 1 \in DOMAIN s /\ t[k] = s[k + 1] BY <1>2
<1>6. \A k, l \in DOMAIN t : t[k].type = t[l].type => k = l
  <2> SUFFICES ASSUME NEW k \in DOMAIN t, NEW l \in DOMAIN t, t[k].type = t[l].type
               PROVE  k = l
    OBVIOUS
  <2>1. k + 1 = l + 1 BY <1>3, <1>5
  <2> QED BY <1>2, <2>1
<1>7. \A k \in DOMAIN t : \E n \in d.seen : n \in Nat /\ AsSent(t[k], n) BY <1>3, <1>5
<1> QED BY <1>4, <1>6, <1>7 DEF TodoInv
(* The current attribute is done: its slot is whole, and nothing else has   *)
(* changed.                                                                 *)
LEMMA SlotIsCompleted ==
  ASSUME NEW c \in Extraction, Consistent(c), c.todo # <<>>,
         c.slot \in DOMAIN c.entry.attributes,
         c.entry.attributes[c.slot].name = Requested(c.todo[1].type),
         NEW d \in Extraction, d.request = c.request, d.seen = c.seen,
         d.todo = Tail(c.todo), d.slot = 0,
         DOMAIN d.entry.attributes = DOMAIN c.entry.attributes,
         \A i \in DOMAIN c.entry.attributes :
           /\ d.entry.attributes[i].name = c.entry.attributes[i].name
           /\ i # c.slot => d.entry.attributes[i].values = c.entry.attributes[i].values,
         Whole(d.entry.attributes[c.slot], c.seen)
  PROVE  Consistent(d)
<1> DEFINE a == c.entry.attributes  b == d.entry.attributes  current == c.todo[1].type
<1>1. TodoInv(d) BY TodoTail DEF Consistent
<1>2. \A type : Has(d.todo, type) <=> Has(c.todo, type) /\ type # current
  BY HasTail DEF Consistent
<1>3. NamesInv(d) BY DEF Consistent, NamesInv
<1>4. AddedInv(d)
  <2> SUFFICES ASSUME requests[d.request].attributes = <<>>,
                      NEW i \in DOMAIN b, NEW type \in {"name", "member"},
                      b[i].name = Requested(type), Has(d.todo, type)
               PROVE  FALSE
    BY DEF AddedInv
  <2>1. Has(c.todo, type) /\ type # current BY <1>2
  <2>2. a[i].name = Requested(type) OBVIOUS
  <2>3. c.slot = i BY <2>1, <2>2 DEF Consistent, AddedInv
  <2>4. Requested(type) = Requested(current) BY <2>2, <2>3
  <2> QED BY <2>1, <2>4, RequestedFacts
<1>5. SlotsInv(d)
  <2> SUFFICES ASSUME NEW i \in DOMAIN b PROVE SlotOk(b[i], d, 0)
    <3>1. \A i \in DOMAIN b : d.slot # i
      <4>1. b \in Seq(Slot) BY DEF Extraction, Entry
      <4>2. DOMAIN b = 1..Len(b) BY <4>1, LenProperties
      <4> HIDE DEF b
      <4> QED BY <4>2
    <3> QED BY <3>1 DEF SlotsInv
  <2>1. SlotOk(a[i], c, IF c.slot = i THEN c.asked ELSE 0) BY DEF Consistent, SlotsInv
  <2>2. CASE i = c.slot
    <3>1. b[i].name = Requested(current) BY <2>2
    <3>2. ~b[i].name.option BY <3>1, RequestedFacts
    <3>3. \A type : b[i].name = Requested(type) => ~Has(d.todo, type)
      <4> SUFFICES ASSUME NEW type, b[i].name = Requested(type) PROVE ~Has(d.todo, type)
        OBVIOUS
      <4>1. Requested(type) = Requested(current) BY <3>1
      <4> HIDE DEF current
      <4>2. type = current BY <4>1, RequestedFacts
      <4> QED BY <1>2, <4>2
    <3>4. Whole(b[i], d.seen) BY <2>2
    <3> HIDE DEF b
    <3> QED BY <3>2, <3>3, <3>4 DEF SlotOk
  <2>3. CASE i # c.slot
    <3>1. b[i].name = a[i].name /\ b[i].values = a[i].values BY <2>3
    <3>2. a[i].name # Requested(current)
      BY <2>3 DEF Consistent, NamesInv
    <3>3. \A type : a[i].name = Requested(type) => (Has(d.todo, type) <=> Has(c.todo, type))
      BY <1>2, <3>2
    <3>4. Whole(a[i], c.seen) => Whole(b[i], d.seen) BY <3>1 DEF Whole
    <3>5. SlotOk(a[i], c, 0) BY <2>1, <2>3
    <3> HIDE DEF a, b
    <3> QED BY <3>1, <3>3, <3>4, <3>5 DEF SlotOk
  <2> QED BY <2>2, <2>3
<1> QED BY <1>1, <1>3, <1>4, <1>5 DEF Consistent

(* The attribute that comes next has an empty slot.                         *)
LEMMA LocatedWhole ==
  ASSUME TypeInv, call # Idle, CallWhole(call), call.slot = 0, call.todo # <<>>,
         Located.slot # 0,
         NEW m, m = [call EXCEPT !.entry = Located.entry, !.slot = Located.slot, !.asked = 0]
  PROVE  /\ m \in Extraction /\ Consistent(m)
         /\ m.request = call.request /\ m.seen = call.seen /\ m.todo = call.todo
         /\ m.entry = Located.entry /\ m.slot = Located.slot /\ m.asked = 0
         /\ m.slot \in DOMAIN m.entry.attributes
         /\ m.entry.attributes[m.slot].name = Requested(m.todo[1].type)
         /\ m.entry.attributes[m.slot].values = <<>>
         /\ \E n \in m.seen : n \in Nat /\ AsSent(Current, n)
<1> DEFINE e == Located.entry  s == Located.slot  type == Current.type
           a == call.entry.attributes
<1>1. /\ Current \in MessageAttribute /\ e \in Entry /\ s \in DOMAIN e.attributes
      /\ e.attributes[s].name = Requested(type)
      /\ DOMAIN e.attributes = 1..Len(e.attributes)
      /\ Listed => e = call.entry
      /\ ~Listed => e = WithSlot(call.entry, type) /\ s = Len(a) + 1
  BY LocatedFacts DEF TypeInv
<1>2. call \in Extraction /\ Consistent(call) BY DEF TypeInv, CallInv, CallWhole
<1>3. call.entry \in Entry /\ call.todo \in Seq(MessageAttribute)
  BY <1>2 DEF Extraction
<1>4. Len(e.attributes) \in Nat BY <1>1, LenProperties DEF Entry
<1>5. s \in Nat
  <2> HIDE DEF e, s
  <2> QED BY <1>1, <1>4
<1>6. 1 \in DOMAIN call.todo
  <2>1. Len(call.todo) \in Nat \ {0} /\ DOMAIN call.todo = 1..Len(call.todo)
    BY <1>3, EmptySeq, LenProperties
  <2> QED BY <2>1
<1>7. Has(call.todo, type) /\ type \in {"name", "member"}
  <2>1. Has(call.todo, type) BY <1>6 DEF Has, Current
  <2> QED BY <1>1, <2>1 DEF MessageAttribute
<1>8. \E n \in call.seen : n \in Nat /\ AsSent(Current, n)
  BY <1>2, <1>6 DEF Consistent, TodoInv, Current
<1>9. /\ m \in Extraction
      /\ m.request = call.request /\ m.seen = call.seen /\ m.todo = call.todo
      /\ m.entry = e /\ m.slot = s /\ m.asked = 0
  <2> HIDE DEF e, s
  <2>1. m = [call EXCEPT !.entry = e, !.slot = s, !.asked = 0] BY DEF e, s
  <2> QED BY <1>1, <1>2, <1>5, <2>1 DEF Extraction
<1>10. \A i \in DOMAIN a : SlotOk(a[i], call, 0)
  <2>1. \A i \in DOMAIN a : i # 0
    <3>1. a \in Seq(Slot) BY <1>3 DEF Entry
    <3>2. DOMAIN a = 1..Len(a) BY <3>1, LenProperties
    <3> HIDE DEF a
    <3> QED BY <3>2
  <2> QED BY <1>2, <2>1 DEF Consistent, SlotsInv
<1> HIDE DEF e, s, a, type
<1>11. TodoInv(m) BY <1>2, <1>9 DEF Consistent, TodoInv
<1>12. CASE Listed
  <2>1. e = call.entry BY <1>1, <1>12
  <2>2. NamesInv(m) BY <1>2, <1>9, <2>1 DEF Consistent, NamesInv
  <2>3. AddedInv(m) BY <1>9, <1>12 DEF AddedInv, Listed
  <2>4. \A i \in DOMAIN a : SlotOk(a[i], m, 0) BY <1>9, <1>10 DEF SlotOk
  <2>5. SlotsInv(m)
    <3>1. m.entry.attributes = a BY <1>9, <2>1 DEF a
    <3>2. \A i \in DOMAIN a : (IF m.slot = i THEN m.asked ELSE 0) = 0 BY <1>9
    <3> QED BY <2>4, <3>1, <3>2 DEF SlotsInv
  <2>6. e.attributes[s].values = <<>>
    <3>1. SlotOk(e.attributes[s], call, 0) BY <1>1, <1>10, <2>1 DEF a
    <3>2. e.attributes[s].values = From(1, 0) BY <1>1, <1>7, <3>1 DEF SlotOk
    <3> QED BY <3>2, FromNothing
  <2>7. Consistent(m) BY <1>11, <2>2, <2>3, <2>5 DEF Consistent
  <2>8. m.todo[1].type = type BY <1>9 DEF Current, type
  <2> QED BY <1>1, <1>8, <1>9, <2>6, <2>7, <2>8 DEF e, s
<1>13. CASE ~Listed
  <2>1. e = WithSlot(call.entry, type) /\ s = Len(a) + 1 BY <1>1, <1>13
  <2>2. /\ DOMAIN a = 1..Len(a) /\ Len(a) \in Nat
        /\ DOMAIN e.attributes = 1..Len(a) + 1
        /\ \A j \in DOMAIN a : e.attributes[j] = a[j]
        /\ e.attributes[Len(a) + 1] = [name |-> Requested(type), values |-> <<>>]
    BY <1>3, <1>7, <2>1, WithSlotFacts DEF a
  <2>3. /\ \A j \in DOMAIN e.attributes : j # s => j \in DOMAIN a /\ e.attributes[j] = a[j]
        /\ e.attributes[s] = [name |-> Requested(type), values |-> <<>>]
    BY <2>1, <2>2
  <2>4. \A j \in DOMAIN a : a[j].name # Requested(type)
    <3> SUFFICES ASSUME NEW j \in DOMAIN a, a[j].name = Requested(type) PROVE FALSE
      OBVIOUS
    <3>1. call.slot = j
      BY <1>2, <1>7, <1>13 DEF Consistent, AddedInv, Listed, a
    <3> QED BY <2>2, <3>1
  <2>5. NamesInv(m)
    <3> SUFFICES ASSUME NEW i \in DOMAIN e.attributes, NEW j \in DOMAIN e.attributes,
                        e.attributes[i].name = e.attributes[j].name
                 PROVE  i = j
      BY <1>9 DEF NamesInv
    <3>1. e.attributes[s].name = Requested(type) BY <2>3
    <3>2. CASE i # s /\ j # s BY <1>2, <2>3, <3>2 DEF Consistent, NamesInv, a
    <3>3. CASE i = s /\ j # s BY <2>3, <2>4, <3>1, <3>3
    <3>4. CASE i # s /\ j = s BY <2>3, <2>4, <3>1, <3>4
    <3> QED BY <3>2, <3>3, <3>4
  <2>6. AddedInv(m)
    <3> SUFFICES ASSUME NEW i \in DOMAIN e.attributes, NEW t \in {"name", "member"},
                        e.attributes[i].name = Requested(t), Has(call.todo, t), i # s
                 PROVE  FALSE
      BY <1>9 DEF AddedInv
    <3>1. i \in DOMAIN a /\ a[i].name = Requested(t) BY <2>3
    <3>2. call.slot = i BY <1>2, <1>13, <3>1 DEF Consistent, AddedInv, Listed, a
    <3> QED BY <2>2, <3>1, <3>2
  <2>7. SlotOk(e.attributes[s], m, 0)
    <3>1. e.attributes[s].name = Requested(type) /\ e.attributes[s].values = <<>> BY <2>3
    <3>2. \A t : e.attributes[s].name = Requested(t) => t = type
      BY <3>1, RequestedFacts
    <3>3. Has(m.todo, type) BY <1>7, <1>9
    <3> QED BY <3>1, <3>2, <3>3, FromNothing DEF SlotOk
  <2>8. SlotsInv(m)
    <3> SUFFICES ASSUME NEW i \in DOMAIN e.attributes
                 PROVE  SlotOk(e.attributes[i], m, 0)
      <4>1. \A i \in DOMAIN e.attributes : (IF m.slot = i THEN m.asked ELSE 0) = 0 BY <1>9
      <4> QED BY <1>9, <4>1 DEF SlotsInv
    <3>1. CASE i = s BY <2>7, <3>1
    <3>2. CASE i # s
      <4>1. SlotOk(a[i], call, 0) BY <1>10, <2>3, <3>2
      <4> QED BY <1>9, <2>3, <3>2, <4>1 DEF SlotOk
    <3> QED BY <3>1, <3>2
  <2>9. Consistent(m) BY <1>11, <2>5, <2>6, <2>8 DEF Consistent
  <2>10. m.todo[1].type = type BY <1>9 DEF Current, type
  <2>11. e.attributes[s].values = <<>> BY <2>3
  <2> QED BY <1>1, <1>8, <1>9, <2>9, <2>10, <2>11 DEF e, s
<1> QED BY <1>12, <1>13
(* What a step says of the next extraction when nothing else changes that   *)
(* is said of it.                                                           *)
LEMMA CallIsWhole ==
  ASSUME UNCHANGED <<requests, directory>>, Consistent(call'), RangeInv(call'),
         directory.members[call'.entry.dn] \in call'.seen
  PROVE  CallWhole(call)'
BY DEF CallWhole, Consistent, TodoInv, SlotsInv, NamesInv, AddedInv, RangeInv

(* What is seen more of an entry makes its extraction no less consistent.   *)
LEMMA ConsistentGrows ==
  ASSUME NEW c \in Extraction, Consistent(c), RangeInv(c), NEW n \in Int,
         NEW d, d = [c EXCEPT !.seen = @ \cup {n}]
  PROVE  Consistent(d) /\ RangeInv(d)
<1>1. /\ d.request = c.request /\ d.entry = c.entry /\ d.todo = c.todo
      /\ d.slot = c.slot /\ d.asked = c.asked /\ d.seen = c.seen \cup {n}
  BY DEF Extraction
<1>2. TodoInv(d) BY <1>1 DEF Consistent, TodoInv
<1>3. NamesInv(d) /\ AddedInv(d) BY <1>1 DEF Consistent, NamesInv, AddedInv
<1>4. RangeInv(d) BY <1>1 DEF RangeInv
<1>5. \A a : Whole(a, c.seen) => Whole(a, d.seen) BY <1>1, WholeGrows
<1>6. \A a, arrived : SlotOk(a, c, arrived) => SlotOk(a, d, arrived)
  BY <1>1, <1>5 DEF SlotOk
<1>7. SlotsInv(d) BY <1>1, <1>6 DEF Consistent, SlotsInv
<1> QED BY <1>2, <1>3, <1>4, <1>7 DEF Consistent

LEMMA DirectoryChangesWhole ==
  ASSUME TypeInv, WholeInv, DirectoryChanges
  PROVE  WholeInv'
<1>1. PICK dn \in DNs, n \in (0..MaxMembers) \cup {Deleted} :
        /\ directory' = [members |-> [directory.members EXCEPT ![dn] = n],
                         changes |-> directory.changes + 1]
        /\ call' = IF call # Idle /\ call.entry.dn = dn
                   THEN [call EXCEPT !.seen = @ \cup {n}] ELSE call
  BY DEF DirectoryChanges
<1>2. directory'.members = [directory.members EXCEPT ![dn] = n] BY <1>1
<1>3. n \in Int BY BoundsAssumption DEF Deleted
<1>4. UNCHANGED <<requests, pEntry>> BY DEF DirectoryChanges
<1>5. ListsInv' /\ AttributesComplete' BY <1>4 DEF WholeInv, ListsInv, AttributesComplete
<1>6. CASE call = Idle
  <2>1. call' = Idle BY <1>1, <1>6
  <2> QED BY <1>5, <2>1 DEF WholeInv, CallWhole
<1>7. CASE call # Idle
  <2>1. /\ call \in Extraction /\ call.entry.dn \in DNs
        /\ directory.members \in [DNs -> -1..MaxMembers]
    BY <1>7 DEF TypeInv, CallInv, Extraction, Entry
  <2>2. /\ Consistent(call) /\ RangeInv(call)
        /\ directory.members[call.entry.dn] \in call.seen
    BY <1>7 DEF WholeInv, CallWhole
  <2>3. /\ Consistent(call') /\ RangeInv(call')
        /\ directory'.members[call'.entry.dn] \in call'.seen
    <3>1. CASE call.entry.dn = dn
      <4>1. call' = [call EXCEPT !.seen = @ \cup {n}] BY <1>1, <1>7, <3>1
      <4>2. call'.entry = call.entry /\ n \in call'.seen BY <2>1, <4>1 DEF Extraction
      <4> QED BY <1>2, <1>3, <2>1, <2>2, <3>1, <4>1, <4>2, ConsistentGrows
    <3>2. CASE call.entry.dn # dn
      <4>1. call' = call BY <1>1, <3>2
      <4>2. directory'.members[call.entry.dn] = directory.members[call.entry.dn]
        BY <1>2, <2>1, <3>2
      <4> QED BY <2>2, <4>1, <4>2
    <3> QED BY <3>1, <3>2
  <2>4. CallWhole(call)'
    BY <1>4, <2>3
    DEF CallWhole, Consistent, TodoInv, SlotsInv, NamesInv, AddedInv, RangeInv
  <2> QED BY <1>5, <2>4 DEF WholeInv
<1> QED BY <1>6, <1>7
(* Between two calls only the lists of the requests matter and the entry    *)
(* that the host has.                                                       *)
LEMMA BetweenCallsWhole ==
  ASSUME WholeInv, call' = Idle, pEntry' \in {pEntry, Null},
         \A q \in Requests : requests'[q] # Null =>
           \/ requests'[q].attributes \in AttributeLists
           \/ requests[q] # Null /\ requests'[q].attributes = requests[q].attributes
  PROVE  WholeInv'
<1>1. ListsInv' BY DEF WholeInv, ListsInv
<1>2. CallWhole(call)' BY DEF CallWhole
<1>3. AttributesComplete' BY DEF WholeInv, AttributesComplete
<1> QED BY <1>1, <1>2, <1>3 DEF WholeInv

(* A request that ends keeps its list.                                      *)
LEMMA OverWhole ==
  ASSUME TypeInv, WholeInv, NEW q \in Requests, requests[q] # Null, call' = Idle,
         UNCHANGED pEntry,
         \/ requests' = [requests EXCEPT ![q].over = TRUE]
         \/ \E page \in {<<>>, Freed} :
              requests' = [requests EXCEPT ![q].page = page, ![q].over = TRUE]
  PROVE  WholeInv'
<1>1. RequestsInv /\ requests[q] \in LdapRequest BY DEF TypeInv, RequestsInv
<1>2. /\ requests'[q].attributes = requests[q].attributes
      /\ \A p \in Requests : p # q => requests'[p] = requests[p]
  <2>1. CASE requests' = [requests EXCEPT ![q].over = TRUE]
    BY <1>1, <2>1, RequestIsOver DEF LdapRequest
  <2>2. ASSUME NEW page \in {<<>>, Freed},
               requests' = [requests EXCEPT ![q].page = page, ![q].over = TRUE]
        PROVE  /\ requests'[q].attributes = requests[q].attributes
               /\ \A p \in Requests : p # q => requests'[p] = requests[p]
    <3>1. /\ requests'[q] = [requests[q] EXCEPT !.page = page, !.over = TRUE]
          /\ \A p \in Requests : p # q => requests'[p] = requests[p]
      BY <1>1, <2>2, RequestEnds
    <3>2. requests'[q].attributes = requests[q].attributes BY <1>1, <3>1 DEF LdapRequest
    <3> QED BY <3>1, <3>2
  <2> QED BY <2>1, <2>2
<1>3. \A p \in Requests : requests'[p] # Null =>
        requests[p] # Null /\ requests'[p].attributes = requests[p].attributes
  BY <1>2
<1> QED BY <1>3, BetweenCallsWhole

LEMMA ConnectionWhole ==
  ASSUME TypeInv, WholeInv,
         \/ \E wantsRootDse \in BOOLEAN : LdapConnect(wantsRootDse)
         \/ LdapBind \/ LdapCloseConnection \/ HostGivesUp \/ LdapReleaseEntry
  PROVE  WholeInv'
<1>1. call' = Idle /\ pEntry' \in {pEntry, Null}
  BY DEF LdapConnect, Connected, LdapBind, LdapCloseConnection, HostGivesUp,
         LdapReleaseEntry, Dies, MayUseConnection, MayCall
<1>2. requests' = requests \/ requests' = [q \in Requests |-> Null]
  BY DEF LdapConnect, Connected, LdapBind, LdapCloseConnection, HostGivesUp,
         LdapReleaseEntry, Dies
<1>3. \A q \in Requests : requests'[q] # Null => requests'[q] = requests[q] BY <1>2
<1> QED BY <1>1, <1>3, BetweenCallsWhole

LEMMA RequestWhole ==
  ASSUME TypeInv, WholeInv, NEW q \in Requests,
         \/ \E attributes \in AttributeLists : LdapInitRequestEx(q, attributes)
         \/ LdapReleaseRequest(q)
  PROVE  WholeInv'
<1>0. requests \in [Requests -> LdapRequest \cup {Null}] BY DEF TypeInv, RequestsInv
<1>1. call' = Idle /\ pEntry' = pEntry
  BY DEF LdapInitRequestEx, LdapReleaseRequest, Dies, MayUseRequest, MayUseConnection, MayCall
<1>2. ASSUME NEW attributes \in AttributeLists, LdapInitRequestEx(q, attributes)
      PROVE  WholeInv'
  <2> DEFINE r == [attributes |-> attributes, position |-> 0, over |-> FALSE,
                   page |-> <<>>, count |-> 0, index |-> 0]
  <2>1. requests' = requests \/ requests' = [requests EXCEPT ![q] = r]
    BY <1>2 DEF LdapInitRequestEx, Dies
  <2>2. r.attributes \in AttributeLists OBVIOUS
  <2> HIDE DEF r
  <2>3. \A p \in Requests : requests'[p] = requests[p] \/ requests'[p] = r
    BY <1>0, <2>1
  <2>4. \A p \in Requests : requests'[p] # Null =>
           \/ requests'[p].attributes \in AttributeLists
           \/ requests[p] # Null /\ requests'[p].attributes = requests[p].attributes
    BY <2>2, <2>3
  <2> QED BY <1>1, <2>4, BetweenCallsWhole
<1>3. CASE LdapReleaseRequest(q)
  <2>1. requests' = [requests EXCEPT ![q] = Null] BY <1>3 DEF LdapReleaseRequest
  <2>2. \A p \in Requests : requests'[p] # Null => requests'[p] = requests[p] BY <1>0, <2>1
  <2> QED BY <1>1, <2>2, BetweenCallsWhole
<1> QED BY <1>2, <1>3

(* An extraction starts with slots without values, one for each attribute   *)
(* that was requested, and what is not in its message has no values.        *)
LEMMA FetchedWhole ==
  ASSUME DistinctLists, TypeInv, WholeInv, NEW q \in Requests, requests[q] # Null,
         NEW i \in DOMAIN Results, Fetched(q, i)
  PROVE  WholeInv'
<1> DEFINE dn == Results[i]  attributes == requests[q].attributes
           n == directory.members[dn]
           r == [requests[q] EXCEPT !.page = <<dn>>, !.count = 1, !.index = 1, !.position = i]
<1>1. /\ dn \in DNs /\ n \in Nat
      /\ requests' = [requests EXCEPT ![q] = r]
      /\ \E message \in Messages(dn, attributes) :
              call' = [request |-> q, entry |-> NewEntry(dn, attributes),
                       todo |-> message, slot |-> 0, asked |-> 0, seen |-> {n}]
      /\ UNCHANGED <<pEntry, directory>>
  BY FetchedFacts
<1>2. requests[q] \in LdapRequest /\ RequestsInv BY DEF TypeInv, RequestsInv
<1>3. attributes \in Seq(Names) /\ attributes \in AttributeLists
  BY <1>2 DEF LdapRequest, WholeInv, ListsInv
<1>4. /\ requests'[q].attributes = attributes
      /\ \A p \in Requests : p # q => requests'[p] = requests[p]
  BY <1>1, <1>2 DEF RequestsInv, LdapRequest
<1>5. ListsInv' BY <1>3, <1>4 DEF WholeInv, ListsInv
<1>6. AttributesComplete' BY <1>1 DEF WholeInv, AttributesComplete
<1>7. PICK message \in Messages(dn, attributes) :
              call' = [request |-> q, entry |-> NewEntry(dn, attributes),
                       todo |-> message, slot |-> 0, asked |-> 0, seen |-> {n}]
  BY <1>1
<1>8. /\ \A k \in DOMAIN message : AsSent(message[k], n)
      /\ \A k, l \in DOMAIN message : message[k].type = message[l].type => k = l
      /\ WantedOf(attributes, "name") => Has(message, "name")
      /\ WantedOf(attributes, "member") /\ n # 0 => Has(message, "member")
  BY <1>1, MessageFacts
<1> DEFINE e == NewEntry(dn, attributes)
<1>9. /\ e.dn = dn /\ DOMAIN e.attributes = DOMAIN attributes
      /\ \A k \in DOMAIN attributes :
           e.attributes[k].name = attributes[k] /\ e.attributes[k].values = <<>>
  BY <1>1, <1>3, NewEntryFacts
<1>10. /\ call'.request = q /\ call'.entry = e /\ call'.todo = message
       /\ call'.slot = 0 /\ call'.asked = 0 /\ call'.seen = {n}
  BY <1>7
<1>11. DOMAIN attributes = 1..Len(attributes) BY <1>3, LenProperties
<1>12. directory'.members[call'.entry.dn] \in call'.seen BY <1>1, <1>9, <1>10
<1> HIDE DEF e, dn, n, attributes, r
<1>13. TodoInv(call') BY <1>1, <1>8, <1>10 DEF TodoInv
<1>14. NamesInv(call') BY <1>3, <1>9, <1>10 DEF NamesInv, DistinctLists
<1>15. \A k \in DOMAIN attributes : SlotOk(e.attributes[k], call', 0)
  <2> SUFFICES ASSUME NEW k \in DOMAIN attributes, NEW type \in {"name", "member"},
                      attributes[k] = Requested(type), ~Has(message, type)
               PROVE  Whole(e.attributes[k], {n})
    BY <1>9, <1>10, FromNothing DEF SlotOk
  <2>1. attributes[k].type = type BY RequestedFacts
  <2>2. WantedOf(attributes, type) BY <2>1 DEF WantedOf
  <2>3. type = "member" /\ n = 0 BY <1>8, <2>2
  <2>4. e.attributes[k].name = Requested("member") BY <1>9, <2>3
  <2>5. e.attributes[k].name # Requested("name") BY <2>4, RequestedFacts
  <2>6. e.attributes[k].values = <<>> /\ Len(<<>>) = 0 BY <1>9
  <2>7. e.attributes[k].values = From(1, Len(e.attributes[k].values))
    BY <2>6, FromNothing
  <2> QED BY <1>1, <2>3, <2>5, <2>6, <2>7 DEF Whole
<1>16. SlotsInv(call')
  <2>1. \A k \in DOMAIN attributes : (IF call'.slot = k THEN call'.asked ELSE 0) = 0
    BY <1>10
  <2> QED BY <1>9, <1>10, <1>15, <2>1 DEF SlotsInv
<1>17. CallWhole(call)'
  <2>1. AddedInv(call)'
    <3>1. requests'[call'.request].attributes = <<>> => DOMAIN call'.entry.attributes = {}
      <4>1. DOMAIN <<>> = {} OBVIOUS
      <4> QED BY <1>4, <1>9, <1>10, <4>1
    <3> QED BY <3>1 DEF AddedInv
  <2>2. RangeInv(call)' BY <1>10 DEF RangeInv
  <2>3. Consistent(call)'
    BY <1>13, <1>14, <1>16, <2>1 DEF Consistent, TodoInv, NamesInv, SlotsInv
  <2> QED BY <1>12, <2>2, <2>3 DEF CallWhole
<1> QED BY <1>5, <1>6, <1>17 DEF WholeInv

LEMMA NextEntryWhole ==
  ASSUME DistinctLists, TypeInv, WholeInv, NEW q \in Requests, LdapGetNextEntry(q)
  PROVE  WholeInv'
<1>1. requests[q] # Null /\ call = Idle BY NextEntryCases
<1>2. CASE Dies
  <2>1. call' = Idle /\ pEntry' = pEntry /\ requests' = requests BY <1>1, <1>2 DEF Dies
  <2> QED BY <2>1, BetweenCallsWhole
<1>3. ASSUME NEW i \in DOMAIN Results, Fetched(q, i) PROVE WholeInv'
  BY <1>1, <1>3, FetchedWhole
<1>4. ASSUME NEW page \in {<<>>, Freed}, NotFetched(q, page) PROVE WholeInv'
  <2>1. /\ requests' = [requests EXCEPT ![q].page = page, ![q].over = TRUE]
        /\ call' = Idle /\ UNCHANGED pEntry
    BY <1>1, <1>4 DEF NotFetched, Ends
  <2> QED BY <1>1, <2>1, OverWhole
<1> QED BY <1>2, <1>3, <1>4, NextEntryCases
(* The values of an attribute that the server sent whole fill its slot.     *)
LEMMA ExtractAttributesWhole ==
  ASSUME TypeInv, WholeInv, LdapExtractAttributes
  PROVE  WholeInv'
<1>1. /\ call # Idle /\ call.slot = 0 /\ call.todo # <<>> /\ Located.slot # 0
      /\ ~IsRangedAtt(Current, Reference)
      /\ call' = Done(WithValues(Located.entry, Located.slot, Current.values))
      /\ UNCHANGED <<requests, pEntry, directory>>
  BY DEF LdapExtractAttributes, Ready, Extracting
<1>2. CallInv(call) /\ RequestsInv /\ call \in Extraction BY <1>1 DEF TypeInv, CallInv
<1> DEFINE e == Located.entry  i == Located.slot  values == Current.values
           m == [call EXCEPT !.entry = Located.entry, !.slot = Located.slot, !.asked = 0]
           f == WithValues(e, i, values)
<1>3. /\ Current \in MessageAttribute /\ e \in Entry /\ e.dn = call.entry.dn
      /\ i \in DOMAIN e.attributes /\ e.attributes[i].name = Requested(Current.type)
      /\ SentWhole(Current)
  BY <1>1, <1>2, LocatedFacts
<1>4. /\ m \in Extraction /\ Consistent(m)
      /\ m.request = call.request /\ m.seen = call.seen /\ m.todo = call.todo
      /\ m.entry = e /\ m.slot = i
      /\ e.attributes[i].values = <<>>
      /\ \E n \in m.seen : n \in Nat /\ AsSent(Current, n)
  <2>1. m = [call EXCEPT !.entry = Located.entry, !.slot = Located.slot, !.asked = 0]
    OBVIOUS
  <2>2. CallWhole(call) BY DEF WholeInv
  <2> HIDE DEF m
  <2> QED BY <1>1, <2>1, <2>2, LocatedWhole
<1>5. values \in Seq(Nat) BY <1>3 DEF MessageAttribute
<1>6. f = WithValues(e, i, values) OBVIOUS
<1>7. /\ call' = Done(f) /\ Current = call.todo[1] BY <1>1 DEF Current
<1> HIDE DEF e, i, values, f, m
<1>8. /\ f \in Entry /\ f.dn = e.dn
      /\ DOMAIN f.attributes = DOMAIN e.attributes
      /\ \A j \in DOMAIN e.attributes :
           /\ f.attributes[j].name = e.attributes[j].name
           /\ f.attributes[j].values =
                IF j = i THEN e.attributes[i].values \o values ELSE e.attributes[j].values
  BY <1>3, <1>5, <1>6, WithValuesFacts
<1>9. f.attributes[i].values = values
  <2>1. <<>> \o values = values BY <1>5, ConcatEmptySeq
  <2> QED BY <1>3, <1>4, <1>8, <2>1
<1>10. /\ call' \in Extraction /\ call'.request = call.request /\ call'.entry = f
       /\ call'.todo = Tail(call.todo) /\ call'.slot = 0 /\ call'.seen = call.seen
  BY <1>1, <1>2, <1>7, <1>8, DoneFacts
<1>11. Whole(f.attributes[i], m.seen)
  <2>1. PICK n \in m.seen : n \in Nat /\ AsSent(Current, n) BY <1>4
  <2>2. f.attributes[i].name = Requested(Current.type) BY <1>3, <1>8
  <2>3. \A type : f.attributes[i].name = Requested(type) => type = Current.type
    BY <2>2, RequestedFacts
  <2>4. CASE Current.type = "name"
    <3>1. values = From(1, 1) BY <2>1, <2>4 DEF AsSent, values
    <3>2. Len(values) = 1 BY <3>1, LenFrom
    <3> QED BY <1>9, <2>3, <2>4, <3>1, <3>2 DEF Whole
  <2>5. CASE Current.type = "member"
    <3>1. values = From(1, n) BY <1>3, <2>1, <2>5 DEF AsSent, values
    <3>2. Len(values) = n BY <2>1, <3>1, LenFrom
    <3> QED BY <1>9, <2>1, <2>3, <2>5, <3>1, <3>2 DEF Whole
  <2> QED BY <1>3, <2>4, <2>5 DEF MessageAttribute
<1>12. Consistent(call')
  <2> DEFINE d == call'
  <2>1. /\ d \in Extraction /\ d.request = m.request /\ d.seen = m.seen
        /\ d.todo = Tail(m.todo) /\ d.slot = 0 /\ d.entry = f
    BY <1>4, <1>10
  <2>2. /\ m.todo # <<>> /\ m.slot \in DOMAIN m.entry.attributes
        /\ m.entry.attributes[m.slot].name = Requested(m.todo[1].type)
    BY <1>1, <1>3, <1>4, <1>7
  <2>3. /\ DOMAIN d.entry.attributes = DOMAIN m.entry.attributes
        /\ \A j \in DOMAIN m.entry.attributes :
             /\ d.entry.attributes[j].name = m.entry.attributes[j].name
             /\ j # m.slot => d.entry.attributes[j].values = m.entry.attributes[j].values
        /\ Whole(d.entry.attributes[m.slot], m.seen)
    BY <1>4, <1>8, <1>11, <2>1
  <2> HIDE DEF d
  <2>4. Consistent(d) BY <1>4, <2>1, <2>2, <2>3, SlotIsCompleted
  <2> QED BY <2>4 DEF d
<1>13. RangeInv(call') BY <1>10 DEF RangeInv
<1>14. directory.members[call'.entry.dn] \in call'.seen
  BY <1>1, <1>3, <1>8, <1>10 DEF WholeInv, CallWhole
<1>15. CallWhole(call)' BY <1>1, <1>12, <1>13, <1>14, CallIsWhole
<1> QED BY <1>1, <1>15 DEF WholeInv, ListsInv, AttributesComplete

(* A range is asked for from where the server started the attribute.        *)
LEMMA ExtractRangedAttributesWhole ==
  ASSUME TypeInv, WholeInv, LdapExtractRangedAttributes
  PROVE  WholeInv'
<1>1. /\ call # Idle /\ call.slot = 0 /\ call.todo # <<>> /\ Located.slot # 0
      /\ IsRangedAtt(Current, Reference)
      /\ call' = [call EXCEPT !.entry = Located.entry, !.slot = Located.slot,
                              !.asked = Current.range[1]]
      /\ UNCHANGED <<requests, pEntry, directory>>
  BY DEF LdapExtractRangedAttributes, Ready, Extracting
<1>2. CallInv(call) /\ RequestsInv /\ call \in Extraction BY <1>1 DEF TypeInv, CallInv
<1> DEFINE e == Located.entry  i == Located.slot
           m == [call EXCEPT !.entry = Located.entry, !.slot = Located.slot, !.asked = 0]
<1>3. /\ Current \in MessageAttribute /\ e.dn = call.entry.dn /\ ~SentWhole(Current)
      /\ e.attributes[i].name = Requested(Current.type)
  BY <1>1, <1>2, LocatedFacts
<1>4. /\ m \in Extraction /\ Consistent(m) /\ m.seen = call.seen /\ m.todo = call.todo
      /\ m.entry = e /\ m.slot = i /\ m.asked = 0
      /\ \E n \in m.seen : n \in Nat /\ AsSent(Current, n)
  <2>1. m = [call EXCEPT !.entry = Located.entry, !.slot = Located.slot, !.asked = 0]
    OBVIOUS
  <2>2. CallWhole(call) BY DEF WholeInv
  <2> HIDE DEF m
  <2> QED BY <1>1, <2>1, <2>2, LocatedWhole
<1>5. PICK n \in m.seen : n \in Nat /\ AsSent(Current, n) BY <1>4
<1>6. Current.type = "member" /\ Current.range[1] = 0
  BY <1>3, <1>5 DEF MessageAttribute, AsSent
<1>7. call' = m BY <1>1, <1>6
<1>8. Current = m.todo[1] BY <1>4 DEF Current
<1> HIDE DEF m, e, i
<1>9. RangeInv(m) BY <1>3, <1>4, <1>5, <1>6, <1>8 DEF RangeInv
<1>10. directory.members[m.entry.dn] \in m.seen
  BY <1>1, <1>3, <1>4 DEF WholeInv, CallWhole
<1>11. CallWhole(call)' BY <1>1, <1>4, <1>7, <1>9, <1>10, CallIsWhole
<1> QED BY <1>1, <1>11 DEF WholeInv, ListsInv, AttributesComplete
(* What arrived so far of the attribute whose ranges are asked for.         *)
LEMMA ArrivedFacts ==
  ASSUME TypeInv, WholeInv, call # Idle, call.slot # 0
  PROVE  /\ call \in Extraction /\ call.entry \in Entry /\ call.todo # <<>>
         /\ call.slot \in DOMAIN call.entry.attributes
         /\ Consistent(call) /\ RangeInv(call)
         /\ call.todo[1].type = "member"
         /\ call.entry.attributes[call.slot].name = Requested("member")
         /\ call.entry.attributes[call.slot].values = From(1, call.asked)
         /\ directory.members[call.entry.dn] \in call.seen
<1>1. /\ call \in Extraction /\ call.todo # <<>>
      /\ call.slot \in 0..Len(call.entry.attributes)
  BY DEF TypeInv, CallInv
<1>2. /\ Consistent(call) /\ RangeInv(call) /\ directory.members[call.entry.dn] \in call.seen
  BY DEF WholeInv, CallWhole
<1>3. call.entry \in Entry /\ call.todo \in Seq(MessageAttribute) BY <1>1 DEF Extraction
<1>4. call.slot \in DOMAIN call.entry.attributes
  <2>1. DOMAIN call.entry.attributes = 1..Len(call.entry.attributes)
        /\ Len(call.entry.attributes) \in Nat
    BY <1>3, LenProperties DEF Entry
  <2> QED BY <1>1, <2>1
<1>5. /\ call.todo[1].type = "member"
      /\ call.entry.attributes[call.slot].name = Requested("member")
  BY <1>2 DEF RangeInv
<1>6. Has(call.todo, "member")
  <2>1. Len(call.todo) \in Nat \ {0} /\ DOMAIN call.todo = 1..Len(call.todo)
    BY <1>1, <1>3, EmptySeq, LenProperties
  <2>2. 1 \in DOMAIN call.todo BY <2>1
  <2> QED BY <1>5, <2>2 DEF Has
<1>7. SlotOk(call.entry.attributes[call.slot], call, call.asked)
  BY <1>2, <1>4 DEF Consistent, SlotsInv
<1>8. call.entry.attributes[call.slot].values = From(1, call.asked)
  BY <1>5, <1>6, <1>7 DEF SlotOk
<1> QED BY <1>1, <1>2, <1>3, <1>4, <1>5, <1>8

(* As many values as an attribute once had at least and once had at most    *)
(* are whole.                                                               *)
LEMMA MembersAreWhole ==
  ASSUME NEW a, NEW seen, NEW n \in Nat, a.name = Requested("member"),
         a.values = From(1, n), \E k \in seen : n <= k, \E k \in seen : n >= k
  PROVE  Whole(a, seen)
<1>1. Len(a.values) = n BY LenFrom
<1>2. a.name # Requested("name") BY RequestedFacts
<1> QED BY <1>1, <1>2 DEF Whole

(* The last range arrived, or none arrives any more.                        *)
LEMMA RangesEndWhole ==
  ASSUME TypeInv, WholeInv, call # Idle, call.slot # 0,
         NEW f \in Entry, call' = Done(f), UNCHANGED <<requests, pEntry, directory>>,
         f.dn = call.entry.dn, DOMAIN f.attributes = DOMAIN call.entry.attributes,
         \A j \in DOMAIN call.entry.attributes :
           /\ f.attributes[j].name = call.entry.attributes[j].name
           /\ j # call.slot => f.attributes[j].values = call.entry.attributes[j].values,
         Whole(f.attributes[call.slot], call.seen)
  PROVE  WholeInv'
<1>1. /\ call \in Extraction /\ call.todo # <<>>
      /\ call.slot \in DOMAIN call.entry.attributes
      /\ Consistent(call)
      /\ call.entry.attributes[call.slot].name = Requested(call.todo[1].type)
      /\ directory.members[call.entry.dn] \in call.seen
  BY ArrivedFacts
<1> DEFINE d == call'
<1>2. /\ d \in Extraction /\ d.request = call.request /\ d.entry = f
      /\ d.todo = Tail(call.todo) /\ d.slot = 0 /\ d.seen = call.seen
  BY <1>1, DoneFacts
<1> HIDE DEF d
<1>3. Consistent(d) BY <1>1, <1>2, SlotIsCompleted
<1>4. RangeInv(d) BY <1>2 DEF RangeInv
<1>5. directory.members[d.entry.dn] \in d.seen BY <1>1, <1>2
<1>6. CallWhole(call)' BY <1>3, <1>4, <1>5, CallIsWhole DEF d
<1> QED BY <1>6 DEF WholeInv, ListsInv, AttributesComplete

(* A range arrived and is not the last.                                     *)
LEMMA RangesGoOnWhole ==
  ASSUME TypeInv, WholeInv, call # Idle, call.slot # 0, NEW end \in Nat,
         NEW f \in Entry, call' = [call EXCEPT !.entry = f, !.asked = end],
         UNCHANGED <<requests, pEntry, directory>>,
         f.dn = call.entry.dn, DOMAIN f.attributes = DOMAIN call.entry.attributes,
         \A j \in DOMAIN call.entry.attributes :
           /\ f.attributes[j].name = call.entry.attributes[j].name
           /\ j # call.slot => f.attributes[j].values = call.entry.attributes[j].values,
         f.attributes[call.slot].values = From(1, end),
         end <= directory.members[call.entry.dn]
  PROVE  WholeInv'
<1>1. /\ call \in Extraction /\ call.todo # <<>>
      /\ call.slot \in DOMAIN call.entry.attributes
      /\ Consistent(call)
      /\ call.todo[1].type = "member"
      /\ call.entry.attributes[call.slot].name = Requested("member")
      /\ directory.members[call.entry.dn] \in call.seen
  BY ArrivedFacts
<1> DEFINE d == call'  s == call.slot  a == call.entry.attributes
<1>2. /\ d.request = call.request /\ d.entry = f /\ d.todo = call.todo
      /\ d.slot = s /\ d.asked = end /\ d.seen = call.seen
  BY <1>1 DEF Extraction
<1> HIDE DEF d, s, a
<1>3. /\ DOMAIN f.attributes = DOMAIN a /\ s \in DOMAIN a
      /\ \A j \in DOMAIN a : /\ f.attributes[j].name = a[j].name
                             /\ j # s => f.attributes[j].values = a[j].values
      /\ f.attributes[s].values = From(1, end) /\ a[s].name = Requested("member")
  BY <1>1 DEF s, a
<1>4. TodoInv(d) BY <1>1, <1>2 DEF Consistent, TodoInv
<1>5. NamesInv(d) BY <1>1, <1>2, <1>3 DEF Consistent, NamesInv, a
<1>6. AddedInv(d) BY <1>1, <1>2, <1>3 DEF Consistent, AddedInv, a, s
<1>7. SlotsInv(d)
  <2> SUFFICES ASSUME NEW j \in DOMAIN a
               PROVE  SlotOk(f.attributes[j], d, IF d.slot = j THEN d.asked ELSE 0)
    BY <1>2, <1>3 DEF SlotsInv
  <2>1. CASE j = s
    <3>1. f.attributes[j].name = Requested("member") /\ f.attributes[j].values = From(1, end)
      BY <1>3, <2>1
    <3>2. ~f.attributes[j].name.option BY <3>1, RequestedFacts
    <3>3. \A type : f.attributes[j].name = Requested(type) => type = "member"
      BY <3>1, RequestedFacts
    <3>4. Has(d.todo, "member")
      <4>1. call.todo \in Seq(MessageAttribute) BY <1>1 DEF Extraction
      <4>2. Len(call.todo) \in Nat \ {0} /\ DOMAIN call.todo = 1..Len(call.todo)
        BY <1>1, <4>1, EmptySeq, LenProperties
      <4>3. 1 \in DOMAIN call.todo BY <4>2
      <4> QED BY <1>1, <1>2, <4>3 DEF Has
    <3> QED BY <1>2, <2>1, <3>1, <3>2, <3>3, <3>4 DEF SlotOk
  <2>2. CASE j # s
    <3>1. SlotOk(a[j], call, 0) BY <1>1, <2>2 DEF Consistent, SlotsInv, a, s
    <3> QED BY <1>2, <1>3, <2>2, <3>1 DEF SlotOk, Whole
  <2> QED BY <2>1, <2>2
<1>8. RangeInv(d) BY <1>1, <1>2, <1>3 DEF RangeInv
<1>9. directory.members[d.entry.dn] \in d.seen BY <1>1, <1>2
<1>10. CallWhole(call)'
  <2>1. Consistent(d) BY <1>4, <1>5, <1>6, <1>7 DEF Consistent
  <2> QED BY <1>8, <1>9, <2>1, CallIsWhole DEF d
<1> QED BY <1>10 DEF WholeInv, ListsInv, AttributesComplete

LEMMA RangeStepWhole ==
  ASSUME TypeInv, WholeInv, RangeStep
  PROVE  WholeInv'
<1>1. /\ call # Idle /\ call.slot # 0 /\ UNCHANGED <<requests, pEntry, directory>>
      /\ RangeArrives \/ RangeIsEmpty \/ EntryIsGone
  BY DEF RangeStep, InRange, Extracting
<1> DEFINE n == directory.members[call.entry.dn]  s == call.slot  e == call.entry
<1>2. /\ call \in Extraction /\ e \in Entry /\ s \in DOMAIN e.attributes
      /\ e.attributes[s].name = Requested("member")
      /\ e.attributes[s].values = From(1, call.asked)
      /\ n \in call.seen /\ RangeInv(call)
  BY <1>1, ArrivedFacts
<1>3. call.asked \in Nat BY <1>2 DEF Extraction
<1>4. CASE RangeArrives
  <2> DEFINE end == RangeEnd(call.asked, n)  values == From(call.asked + 1, end)
             f == WithValues(e, s, values)
  <2>1. /\ n \in Nat /\ end \in Nat /\ call.asked <= end /\ end <= n /\ values \in Seq(Nat)
        /\ \/ call' = Done(f) /\ end = n
           \/ call' = [call EXCEPT !.entry = f, !.asked = end]
    BY <1>1, <1>4, RangeArrivesFacts
  <2>2. f = WithValues(e, s, values) OBVIOUS
  <2> HIDE DEF f, e, s, n, end
  <2>3. /\ f \in Entry /\ f.dn = e.dn
        /\ DOMAIN f.attributes = DOMAIN e.attributes
        /\ \A j \in DOMAIN e.attributes :
             /\ f.attributes[j].name = e.attributes[j].name
             /\ f.attributes[j].values =
                  IF j = s THEN e.attributes[s].values \o values ELSE e.attributes[j].values
    <3> HIDE DEF values
    <3> QED BY <1>2, <2>1, <2>2, WithValuesFacts
  <2>4. f.attributes[s].values = From(1, end)
    <3>1. From(1, call.asked) \o values = From(1, end) BY <1>3, <2>1, FromContinues
    <3> QED BY <1>2, <2>3, <3>1
  <2> HIDE DEF values
  <2>5. CASE call' = Done(f) /\ end = n
    <3>1. f.attributes[s].name = Requested("member") BY <1>2, <2>3
    <3>2. Whole(f.attributes[s], call.seen)
      <4>1. n <= n /\ n >= n BY <2>1
      <4> QED BY <1>2, <2>1, <2>4, <2>5, <3>1, <4>1, MembersAreWhole
    <3> QED BY <1>1, <2>3, <2>5, <3>2, RangesEndWhole DEF e, s
  <2>6. CASE call' = [call EXCEPT !.entry = f, !.asked = end]
    <3>1. /\ f.dn = call.entry.dn /\ DOMAIN f.attributes = DOMAIN call.entry.attributes
          /\ \A j \in DOMAIN call.entry.attributes :
               /\ f.attributes[j].name = call.entry.attributes[j].name
               /\ j # call.slot => f.attributes[j].values = call.entry.attributes[j].values
          /\ f.attributes[call.slot].values = From(1, end)
          /\ end <= directory.members[call.entry.dn]
      BY <2>1, <2>3, <2>4 DEF e, s, n
    <3> QED BY <1>1, <2>1, <2>3, <2>6, <3>1, RangesGoOnWhole
  <2> QED BY <2>1, <2>5, <2>6
<1>5. CASE RangeIsEmpty \/ EntryIsGone
  <2>1. call' = Done(e) BY <1>5 DEF RangeIsEmpty, EntryIsGone
  <2>2. n \in Int /\ n <= call.asked
    BY <1>3, <1>5 DEF RangeIsEmpty, EntryIsGone, Exists, Deleted
  <2>3. \E k \in call.seen : call.asked <= k BY <1>1, <1>2 DEF RangeInv
  <2>4. \E k \in call.seen : call.asked >= k BY <1>2, <1>3, <2>2
  <2>5. Whole(e.attributes[s], call.seen)
    <3> HIDE DEF e, s
    <3> QED BY <1>2, <1>3, <2>3, <2>4, MembersAreWhole
  <2> QED BY <1>1, <1>2, <2>1, <2>5, RangesEndWhole
<1> QED BY <1>1, <1>4, <1>5

(* With no attribute left, those that got no values have none.              *)
LEMMA EntryReturnedWhole ==
  ASSUME TypeInv, WholeInv, EntryReturned
  PROVE  WholeInv'
<1>1. /\ call # Idle /\ call.slot = 0 /\ call.todo = <<>> /\ call' = Idle
      /\ pEntry' = [dn |-> call.entry.dn, attributes |-> call.entry.attributes,
                    seen |-> call.seen]
      /\ UNCHANGED requests
  BY DEF EntryReturned, Ready, Extracting
<1> DEFINE a == call.entry.attributes
<1>2. SlotsInv(call) BY <1>1 DEF WholeInv, CallWhole, Consistent
<1>3. call.entry \in Entry BY <1>1 DEF TypeInv, CallInv, Extraction
<1>4. a \in Seq(Slot) BY <1>3 DEF Entry
<1>5. ASSUME NEW i \in DOMAIN a PROVE Whole(a[i], call.seen)
  <2>1. i # 0 /\ a[i] \in Slot
    <3>1. DOMAIN a = 1..Len(a) /\ Len(a) \in Nat BY <1>4, LenProperties
    <3> HIDE DEF a
    <3>2. i \in 1..Len(a) BY <1>5, <3>1
    <3> QED BY <1>4, <3>2, ElementOfSeq
  <2>2. SlotOk(a[i], call, 0) BY <1>1, <1>2, <2>1 DEF SlotsInv
  <2>3. \A type : ~Has(call.todo, type)
    <3>1. DOMAIN <<>> = {} OBVIOUS
    <3> QED BY <1>1, <3>1 DEF Has
  <2> HIDE DEF a
  <2>4. a[i].name \in Names BY <2>1 DEF Slot
  <2>5. CASE a[i].name.option
    <3>1. a[i].values = <<>> BY <2>2, <2>5 DEF SlotOk
    <3>2. a[i].values = From(1, Len(a[i].values)) BY <3>1, FromNothing
    <3>3. \A type : a[i].name # Requested(type) BY <2>5, RequestedFacts
    <3> QED BY <3>2, <3>3 DEF Whole
  <2>6. CASE ~a[i].name.option
    <3>1. a[i].name = Requested(a[i].name.type) /\ a[i].name.type \in {"name", "member"}
      BY <2>4, <2>6 DEF Names, Requested
    <3> QED BY <2>2, <2>3, <3>1 DEF SlotOk
  <2> QED BY <2>5, <2>6
<1>6. AttributesComplete'
  <2>1. pEntry'.attributes = a /\ pEntry'.seen = call.seen BY <1>1
  <2> HIDE DEF a
  <2> QED BY <1>5, <2>1 DEF AttributesComplete, Whole
<1>7. ListsInv' /\ CallWhole(call)' BY <1>1 DEF WholeInv, ListsInv, CallWhole
<1> QED BY <1>6, <1>7 DEF WholeInv

LEMMA LibraryWhole ==
  ASSUME TypeInv, WholeInv, Library \/ RangeFails
  PROVE  WholeInv'
<1>1. CASE NotLocated \/ RangeFails
  <2>1. /\ call # Idle /\ call' = Idle /\ UNCHANGED pEntry
        /\ requests' = [requests EXCEPT ![call.request].over = TRUE]
    BY <1>1 DEF NotLocated, RangeFails, Ready, InRange, Extracting
  <2> DEFINE q == call.request
  <2>2. q \in Requests /\ requests[q] # Null BY <2>1 DEF TypeInv, CallInv, Extraction
  <2>3. requests' = [requests EXCEPT ![q].over = TRUE] BY <2>1
  <2> HIDE DEF q
  <2> QED BY <2>1, <2>2, <2>3, OverWhole
<1> QED BY <1>1, ExtractAttributesWhole, ExtractRangedAttributesWhole, RangeStepWhole,
           EntryReturnedWhole DEF Library

(* For a host that requests each attribute once: an entry that it gets has, *)
(* in each slot, the values 1 .. n of the slot's own attribute, where n is  *)
(* no more than the attribute once had and no less than it once had while   *)
(* LdapGetNextEntry ran, in whatever order the attributes came and however  *)
(* the directory changed between the ranges.                                *)
THEOREM EntriesAreComplete ==
  ASSUME DistinctLists
  PROVE  Spec => []AttributesComplete
<1>1. Init => WholeInv
  BY DEF Init, WholeInv, ListsInv, CallWhole, AttributesComplete
<1>2. TypeInv /\ WholeInv /\ [Next]_vars => WholeInv'
  <2> SUFFICES ASSUME TypeInv, WholeInv, [Next]_vars PROVE WholeInv'
    OBVIOUS
  <2>1. CASE DirectoryChanges BY <2>1, DirectoryChangesWhole
  <2>2. CASE \/ \E wantsRootDse \in BOOLEAN : LdapConnect(wantsRootDse)
             \/ LdapBind \/ LdapCloseConnection \/ HostGivesUp \/ LdapReleaseEntry
    BY <2>2, ConnectionWhole
  <2>3. ASSUME NEW q \in Requests,
               \/ \E attributes \in AttributeLists : LdapInitRequestEx(q, attributes)
               \/ LdapReleaseRequest(q)
        PROVE  WholeInv'
    BY <2>3, RequestWhole
  <2>4. ASSUME NEW q \in Requests, LdapGetNextEntry(q) PROVE WholeInv'
    BY <2>4, NextEntryWhole
  <2>5. CASE Library \/ RangeFails BY <2>5, LibraryWhole
  <2>6. CASE UNCHANGED vars
    <3>1. UNCHANGED <<requests, pEntry, call, directory>> BY <2>6 DEF vars, client
    <3> QED BY <3>1
        DEF WholeInv, ListsInv, CallWhole, AttributesComplete, Consistent, TodoInv,
            SlotsInv, NamesInv, AddedInv, RangeInv
  <2> QED BY <2>1, <2>2, <2>3, <2>4, <2>5, <2>6 DEF Next
<1>3. WholeInv => AttributesComplete BY DEF WholeInv
<1> QED BY <1>1, <1>2, <1>3, TypesHold, PTL DEF Spec
=============================================================================
