------------------------------ MODULE GetoptProofs ------------------------------
(***************************************************************************)
(* Proofs about Getopt: whatever the line, the options and the ordering,   *)
(* the indexes stay inside argv, the permutation loses no argument, the    *)
(* words a scan has passed come out behind the rest in their order, and the*)
(* host is told what a reader of the unmoved line would tell it.           *)
(***************************************************************************)
EXTENDS Getopt, SequenceTheorems, WellFoundedInduction, TLAPS

Size == Len(line)

(* The words that were passed lie at from and behind.                       *)
Held(from) == \A j \in 1..Len(aside) : argv[from + j - 1] = aside[j]
Between ==
  /\ first_nonopt <= last_nonopt /\ last_nonopt <= optind
  /\ last_nonopt - first_nonopt = Len(aside)
  /\ Held(first_nonopt)

(* Where exchange_a will find the argument that it leaves at k: what is left*)
(* to do is to change the places of bottom..middle-1 and middle..top-1.     *)
Rotated(b, w, o, k) ==
  IF k < b \/ b + w + o <= k THEN k ELSE IF k < b + o THEN k + w ELSE k - o
Source(b, k) == Rotated(b.bottom, b.middle - b.bottom, b.top - b.middle, k)
ToBeHeld(from) == \A j \in 1..Len(aside) : argv[Source(block, from + j - 1)] = aside[j]

(* Types of what TypeOK does not mention, and when a group is being read.   *)
Types ==
  /\ line \in CommandLines
  /\ aside \in Seq(1..Size)
  /\ block \in [bottom : Nat, middle : Nat, top : Nat, after : {"host", "skip", "rest"}]
  /\ pc \notin {"host", "option"} => nextchar = Null
  /\ pc = "option" => nextchar # Null

(* Where the words are, step by step. OperandsKept says so only of the steps*)
(* in which first_nonopt and last_nonopt enclose them.                      *)
WordsInv ==
  /\ pc = "host" => (Between \/ (optind = 1 /\ nextchar = Null /\ aside = <<>>))
  /\ pc \in {"permute", "dashes", "option"} => Between
  /\ (pc = "dashes" /\ ordering = "PERMUTE") => last_nonopt = optind
  /\ pc = "skip" => (first_nonopt + Len(aside) = optind /\ Held(first_nonopt))
  /\ pc = "exchange" =>
       /\ first_nonopt + (optind - last_nonopt) + Len(aside)
            = IF block.after = "rest" THEN argc ELSE optind
       /\ ToBeHeld(first_nonopt + (optind - last_nonopt))
  /\ pc = "rest" => (first_nonopt + Len(aside) = argc /\ Held(first_nonopt))
  /\ pc = "end" => optind = argc
  /\ (pc = "end" /\ ordering = "PERMUTE") =>
       /\ last_nonopt = argc
       /\ first_nonopt + Len(aside) = argc /\ Held(first_nonopt)
  /\ (pc = "done" /\ ordering = "PERMUTE") =>
       (optind + Len(aside) = argc /\ Held(optind))

(* No argument is lost, and those the scan has not reached are untouched.   *)
Onto(N, a) == a \in [1..N -> 1..N] /\ \A v \in 1..N : \E k \in 1..N : a[k] = v
Untouched == pc # "done" => \A i \in optind..Size : argv[i] = given[i]

(***************************************************************************)
(* The inductive invariant behind the three theorems.                      *)
(***************************************************************************)
IInv == TypeOK /\ Onto(Size, argv) /\ Untouched /\ Types /\ WordsInv

-----------------------------------------------------------------------------
(* Facts about lines, results and the permutation.                          *)

ArgumentType == [kind : {"word", "dashes", "short", "long"},
                 letters : Seq(STRING), value : BOOLEAN]

LEMMA LineType ==
  ASSUME line \in CommandLines
  PROVE  /\ line \in Seq(ArgumentType) /\ Len(line) \in Nat
         /\ \A i \in 1..Len(line) :
              /\ line[i] \in ArgumentType
              /\ line[i].kind \in {"short", "long"} => line[i].letters # <<>>
<1>1. line \in Seq(ArgumentType)
  BY LinesAssumption DEF ArgumentType
<1>2. DOMAIN line = 1..Len(line) /\ Len(line) \in Nat
  BY <1>1
<1>3. QED
  BY <1>1, <1>2, LinesAssumption

LEMMA CharactersType ==
  ASSUME NEW f, NEW a \in ArgumentType
  PROVE  /\ Len(Characters(f, a)) \in Nat
         /\ a.kind \in {"short", "long"} /\ a.letters # <<>> => Len(Characters(f, a)) >= 1
<1> DEFINE S == STRING \cup {"-", "="}
<1>1. a.letters \in Seq(STRING) /\ a.letters \in Seq(S)
  BY DEF ArgumentType
<1>2. <<"-">> \in Seq(S) /\ <<"=">> \in Seq(S) /\ <<>> \in Seq(S)
  OBVIOUS
<1> HIDE DEF S
<1>3. CASE a.kind = "long" /\ f = "getopt"
  <2> DEFINE s == <<"-">> \o a.letters
             e == IF a.value THEN <<"=">> ELSE <<>>
  <2>1. s \in Seq(S) /\ Len(s) = 1 + Len(a.letters) /\ Len(a.letters) \in Nat
    BY <1>1, <1>2
  <2>2. e \in Seq(S) /\ Len(e) \in Nat
    BY <1>2
  <2> HIDE DEF s, e
  <2>3. Len(s \o e) = Len(s) + Len(e)
    BY <2>1, <2>2
  <2>4. Characters(f, a) = s \o e
    BY <1>3 DEF Characters, s, e
  <2>5. QED
    BY <2>1, <2>2, <2>3, <2>4
<1>4. CASE ~(a.kind = "long" /\ f = "getopt")
  <2>1. Characters(f, a) = a.letters
    BY <1>4 DEF Characters
  <2>2. a.letters # <<>> => Len(a.letters) >= 1
    BY <1>1, EmptySeq
  <2>3. QED
    BY <1>1, <2>1, <2>2
<1>5. QED
  BY <1>3, <1>4

(* What a call says of the next one: it goes on in the same argument or     *)
(* behind it, and never behind argc.                                        *)
GoesOn(r, i, letters, end) ==
  \/ r.optind \in i + 1..end /\ r.nextchar = Null
  \/ r.optind = i /\ r.nextchar \in 1..Len(letters)

LEMMA TakesNextGoesOn ==
  ASSUME NEW o, NEW i \in Nat, NEW end \in Nat, i < end, NEW letters
  PROVE  GoesOn(TakesNext(o, i, end), i, letters, end)
  BY DEF GoesOn, TakesNext, Result

LEMMA LongResultGoesOn ==
  ASSUME NEW found, NEW a, NEW i \in Nat, NEW end \in Nat, i < end, NEW letters
  PROVE  GoesOn(LongResult(found, a, i, end), i, letters, end)
<1>1. \A o, arg : GoesOn(Result(o, arg, i + 1, Null), i, letters, end)
  BY DEF GoesOn, Result
<1>2. \A o : GoesOn(TakesNext(o, i, end), i, letters, end)
  BY TakesNextGoesOn
<1>3. QED
  BY <1>1, <1>2 DEF LongResult

LEMMA ShortResultGoesOn ==
  ASSUME NEW letters, Len(letters) \in Nat, NEW i \in Nat, NEW end \in Nat, i < end,
         NEW k \in 1..Len(letters)
  PROVE  GoesOn(ShortResult(letters, i, k, end), i, letters, end)
<1>1. \A o, arg : GoesOn(Result(o, arg, i + 1, Null), i, letters, end)
  BY DEF GoesOn, Result
<1>2. \A o : GoesOn(TakesNext(o, i, end), i, letters, end)
  BY TakesNextGoesOn
<1>3. k # Len(letters) => \A o, arg : GoesOn(Result(o, arg, i, k + 1), i, letters, end)
  BY DEF GoesOn, Result
<1>4. CASE k = Len(letters)
  BY <1>1, <1>2, <1>4 DEF ShortResult
<1>5. CASE k # Len(letters)
  BY <1>1, <1>2, <1>3, <1>5 DEF ShortResult
<1>6. QED
  BY <1>4, <1>5

LEMMA OptionAtGoesOn ==
  ASSUME NEW f, NEW a \in ArgumentType, NEW i \in Nat, NEW end \in Nat, i < end,
         NEW k \in 1..Len(Characters(f, a))
  PROVE  GoesOn(OptionAt(f, a, i, k, end), i, Characters(f, a), end)
<1>1. Len(Characters(f, a)) \in Nat
  BY CharactersType
<1>2. GoesOn(ShortResult(Characters(f, a), i, k, end), i, Characters(f, a), end)
  BY <1>1, ShortResultGoesOn
<1>3. \A found : GoesOn(LongResult(found, a, i, end), i, Characters(f, a), end)
  BY LongResultGoesOn
<1>4. QED
  BY <1>2, <1>3 DEF OptionAt

(* A round of exchange_a swaps two blocks that do not meet: every argument  *)
(* stays in argv, and what will be left at k is what would have been.       *)
IsSwap(N, a, c, i, j, len) ==
  /\ c \in [1..N -> 1..N]
  /\ \A k \in 1..N : (i <= k /\ k < i + len) => c[k] = a[k + (j - i)]
  /\ \A k \in 1..N : (j <= k /\ k < j + len) => c[k] = a[k - (j - i)]
  /\ \A k \in 1..N : (k < i \/ j + len <= k \/ (i + len <= k /\ k < j)) => c[k] = a[k]

LEMMA SwapKeepsAll ==
  ASSUME NEW N \in Nat, NEW a, NEW c, NEW i \in Nat, NEW j \in Nat, NEW len \in Nat,
         1 <= i, i + len <= j, j + len <= N + 1, Onto(N, a), IsSwap(N, a, c, i, j, len)
  PROVE  Onto(N, c)
<1>1. ASSUME NEW v \in 1..N PROVE \E k \in 1..N : c[k] = v
  <2>1. PICK k \in 1..N : a[k] = v
    BY DEF Onto
  <2>2. CASE i <= k /\ k < i + len
    <3> DEFINE h == k + (j - i)
    <3>1. h \in 1..N /\ j <= h /\ h < j + len /\ h - (j - i) = k
      BY <2>2
    <3> HIDE DEF h
    <3>2. c[h] = a[k]
      BY <3>1 DEF IsSwap
    <3>3. QED
      BY <2>1, <3>1, <3>2
  <2>3. CASE j <= k /\ k < j + len
    <3> DEFINE h == k - (j - i)
    <3>1. h \in 1..N /\ i <= h /\ h < i + len /\ h + (j - i) = k
      BY <2>3
    <3> HIDE DEF h
    <3>2. c[h] = a[k]
      BY <3>1 DEF IsSwap
    <3>3. QED
      BY <2>1, <3>1, <3>2
  <2>4. CASE k < i \/ j + len <= k \/ (i + len <= k /\ k < j)
    BY <2>1, <2>4 DEF IsSwap
  <2>5. QED
    BY <2>2, <2>3, <2>4
<1>2. QED
  BY <1>1 DEF Onto, IsSwap

(* Where the words will lie, and what is left to do when one part is empty. *)
LEMMA RotatedWord ==
  ASSUME NEW f \in Nat, NEW l \in Nat, NEW t \in Nat, f <= l, l <= t, NEW j \in 1..l - f
  PROVE  Rotated(f, l - f, t - l, f + (t - l) + j - 1) = f + j - 1
  BY DEF Rotated

LEMMA RotatedBehind ==
  ASSUME NEW f \in Nat, NEW l \in Nat, NEW t \in Nat, f <= l, l <= t, NEW k \in Nat, t <= k
  PROVE  Rotated(f, l - f, t - l, k) = k
  BY DEF Rotated

LEMMA NothingToRotate ==
  ASSUME NEW b \in Nat, NEW m \in Nat, NEW t \in Nat, b <= m, m <= t, b = m \/ m = t,
         NEW k \in Int
  PROVE  Rotated(b, m - b, t - m, k) = k
  BY DEF Rotated

LEMMA RoundOfWords ==
  ASSUME NEW N \in Nat, NEW a, NEW c, NEW b \in Nat, NEW w \in Nat, NEW o \in Nat,
         1 <= b, w < o, b + w + o <= N + 1, IsSwap(N, a, c, b, b + o, w), NEW k \in 1..N
  PROVE  c[Rotated(b, w, o - w, k)] = a[Rotated(b, w, o, k)]
<1>1. CASE k < b \/ b + o + w <= k
  BY <1>1 DEF Rotated, IsSwap
<1>2. CASE b <= k /\ k < b + (o - w)
  <2>1. Rotated(b, w, o - w, k) = k + w /\ Rotated(b, w, o, k) = k + w
    BY <1>2 DEF Rotated
  <2>2. k + w \in 1..N /\ b + w <= k + w /\ k + w < b + o
    BY <1>2
  <2>3. QED
    BY <2>1, <2>2 DEF IsSwap
<1>3. CASE b + (o - w) <= k /\ k < b + o
  <2>1. Rotated(b, w, o - w, k) = k - (o - w) /\ Rotated(b, w, o, k) = k + w
    BY <1>3 DEF Rotated
  <2> DEFINE x == k - (o - w)
  <2>2. x \in 1..N /\ b <= x /\ x < b + w /\ x + (b + o - b) = k + w
    BY <1>3
  <2> HIDE DEF x
  <2>3. c[x] = a[x + (b + o - b)]
    BY <2>2 DEF IsSwap
  <2>4. QED
    BY <2>1, <2>2, <2>3 DEF x
<1>4. CASE b + o <= k /\ k < b + o + w
  <2>1. Rotated(b, w, o - w, k) = k /\ Rotated(b, w, o, k) = k - o
    BY <1>4 DEF Rotated
  <2>2. k - (b + o - b) = k - o
    OBVIOUS
  <2>3. c[k] = a[k - (b + o - b)]
    BY <1>4 DEF IsSwap
  <2>4. QED
    BY <2>1, <2>2, <2>3
<1>5. QED
  BY <1>1, <1>2, <1>3, <1>4

LEMMA RoundOfOptions ==
  ASSUME NEW N \in Nat, NEW a, NEW c, NEW b \in Nat, NEW w \in Nat, NEW o \in Nat,
         1 <= b, o <= w, b + w + o <= N + 1, IsSwap(N, a, c, b, b + w, o), NEW k \in 1..N
  PROVE  c[Rotated(b + o, w - o, o, k)] = a[Rotated(b, w, o, k)]
<1>1. CASE k < b \/ b + o + w <= k
  BY <1>1 DEF Rotated, IsSwap
<1>2. CASE b <= k /\ k < b + o
  <2>1. Rotated(b + o, w - o, o, k) = k /\ Rotated(b, w, o, k) = k + w
    BY <1>2 DEF Rotated
  <2>2. k + (b + w - b) = k + w
    OBVIOUS
  <2>3. c[k] = a[k + (b + w - b)]
    BY <1>2 DEF IsSwap
  <2>4. QED
    BY <2>1, <2>2, <2>3
<1>3. CASE b + o <= k /\ k < b + o + o
  <2>1. Rotated(b + o, w - o, o, k) = k + (w - o) /\ Rotated(b, w, o, k) = k - o
    BY <1>3 DEF Rotated
  <2> DEFINE x == k + (w - o)
  <2>2. x \in 1..N /\ b + w <= x /\ x < b + w + o /\ x - (b + w - b) = k - o
    BY <1>3
  <2> HIDE DEF x
  <2>3. c[x] = a[x - (b + w - b)]
    BY <2>2 DEF IsSwap
  <2>4. QED
    BY <2>1, <2>2, <2>3 DEF x
<1>4. CASE b + o + o <= k /\ k < b + o + w
  <2>1. Rotated(b + o, w - o, o, k) = k - o /\ Rotated(b, w, o, k) = k - o
    BY <1>4 DEF Rotated
  <2>2. k - o \in 1..N /\ b + o <= k - o /\ k - o < b + w
    BY <1>4
  <2>3. QED
    BY <2>1, <2>2 DEF IsSwap
<1>5. QED
  BY <1>1, <1>2, <1>3, <1>4

LEMMA SwappedIsSwap ==
  ASSUME NEW N \in Nat, argv \in [1..N -> 1..N],
         NEW i \in Nat, NEW j \in Nat, NEW len \in Nat,
         1 <= i, i + len <= j, j + len <= N + 1
  PROVE  IsSwap(N, argv, Swapped(i, j, len), i, j, len)
<1> DEFINE c == Swapped(i, j, len)
<1>1. c = [k \in 1..N |-> IF k \in i..i + len - 1 THEN argv[k + (j - i)]
                          ELSE IF k \in j..j + len - 1 THEN argv[k - (j - i)]
                          ELSE argv[k]]
  BY DEF Swapped
<1>2. ASSUME NEW k \in 1..N
      PROVE  /\ c[k] \in 1..N
             /\ (i <= k /\ k < i + len) => c[k] = argv[k + (j - i)]
             /\ (j <= k /\ k < j + len) => c[k] = argv[k - (j - i)]
             /\ (k < i \/ j + len <= k \/ (i + len <= k /\ k < j)) => c[k] = argv[k]
  <2>1. c[k] = IF k \in i..i + len - 1 THEN argv[k + (j - i)]
               ELSE IF k \in j..j + len - 1 THEN argv[k - (j - i)] ELSE argv[k]
    BY <1>1
  <2> HIDE DEF c
  <2>2. QED
    BY <2>1
<1>3. c \in [1..N -> 1..N]
  BY <1>1, <1>2
<1> HIDE DEF c
<1>4. IsSwap(N, argv, c, i, j, len)
  BY <1>2, <1>3 DEF IsSwap
<1>5. QED
  BY <1>4 DEF c

(* What a round does to argv and to its block, and to what will be left.    *)
BlockOK ==
  /\ block \in [bottom : Nat, middle : Nat, top : Nat, after : {"host", "skip", "rest"}]
  /\ 1 <= block.bottom /\ block.bottom <= block.middle
  /\ block.middle <= block.top /\ block.top <= Size + 1

LEMMA RoundRotates ==
  ASSUME Size \in Nat, Onto(Size, argv), BlockOK, ExchangeRound
  PROVE  /\ Onto(Size, argv')
         /\ \A k \in 1..Size : k >= block.top => argv'[k] = argv[k]
         /\ block' \in [bottom : Nat, middle : Nat, top : Nat, after : {"host", "skip", "rest"}]
         /\ block'.middle = block.middle /\ block'.after = block.after
         /\ block.bottom <= block'.bottom /\ block'.bottom <= block'.middle
         /\ block'.middle <= block'.top /\ block'.top <= block.top
         /\ \A k \in 1..Size : argv'[Source(block', k)] = argv[Source(block, k)]
<1> DEFINE w == block.middle - block.bottom
           o == block.top - block.middle
           b == block.bottom
<1>1. /\ b \in Nat /\ w \in Nat /\ o \in Nat /\ 1 <= b /\ 1 <= w /\ 1 <= o
      /\ b + w + o <= Size + 1
      /\ block.bottom = b /\ block.middle = b + w /\ block.top = b + w + o
  BY DEF ExchangeRound, BlockOK
<1>2. argv \in [1..Size -> 1..Size]
  BY DEF Onto
<1>3. CASE o > w
  <2>1. argv' = Swapped(b, block.top - w, w) /\ block' = [block EXCEPT !.top = @ - w]
    BY <1>3 DEF ExchangeRound
  <2>2. block.top - w = b + o
    BY <1>1
  <2>3. /\ block'.bottom = b /\ block'.middle = b + w /\ block'.top = b + o
        /\ block'.after = block.after
        /\ block' \in [bottom : Nat, middle : Nat, top : Nat, after : {"host", "skip", "rest"}]
    BY <1>1, <1>3, <2>1 DEF BlockOK
  <2> HIDE DEF b, w, o
  <2>4. b + o - (b + w) = o - w /\ b + w + o - (b + w) = o /\ b + w - b = w
    BY <1>1
  <2>5. \A k : Source(block, k) = Rotated(b, w, o, k)
    BY <1>1, <2>4 DEF Source
  <2>6. \A k : Source(block', k) = Rotated(b, w, o - w, k)
    <3>1. block'.middle - block'.bottom = w /\ block'.top - block'.middle = o - w
      BY <1>1, <2>3, <2>4
    <3>2. QED
      BY <2>3, <3>1, Zenon DEF Source
  <2>7. IsSwap(Size, argv, argv', b, b + o, w)
    <3>1. argv' = Swapped(b, b + o, w)
      BY <2>1, <2>2
    <3>2. b + w <= b + o /\ b + o + w <= Size + 1 /\ b + o \in Nat
      BY <1>1, <1>3
    <3>3. IsSwap(Size, argv, Swapped(b, b + o, w), b, b + o, w)
      BY <1>1, <1>2, <3>2, SwappedIsSwap
    <3>4. QED
      BY <3>1, <3>3
  <2>8. Onto(Size, argv')
    BY <1>1, <1>3, <2>7, SwapKeepsAll
  <2>9. \A k \in 1..Size : k >= b + w + o => argv'[k] = argv[k]
    BY <1>1, <2>7 DEF IsSwap
  <2>10. \A k \in 1..Size : argv'[Rotated(b, w, o - w, k)] = argv[Rotated(b, w, o, k)]
    BY <1>1, <1>3, <2>7, RoundOfWords
  <2>11. QED
    BY <1>1, <1>3, <2>3, <2>5, <2>6, <2>8, <2>9, <2>10 DEF b
<1>4. CASE ~(o > w)
  <2>1. argv' = Swapped(b, block.middle, o) /\ block' = [block EXCEPT !.bottom = @ + o]
    BY <1>4 DEF ExchangeRound
  <2>3. /\ block'.bottom = b + o /\ block'.middle = b + w /\ block'.top = b + w + o
        /\ block'.after = block.after
        /\ block' \in [bottom : Nat, middle : Nat, top : Nat, after : {"host", "skip", "rest"}]
    BY <1>1, <1>4, <2>1 DEF BlockOK
  <2> HIDE DEF b, w, o
  <2>4. b + w - (b + o) = w - o /\ b + w - b = w /\ b + w + o - (b + w) = o
    BY <1>1
  <2>5. \A k : Source(block, k) = Rotated(b, w, o, k)
    BY <1>1, <2>4 DEF Source
  <2>6. \A k : Source(block', k) = Rotated(b + o, w - o, o, k)
    <3>1. block'.middle - block'.bottom = w - o /\ block'.top - block'.middle = o
      BY <1>1, <2>3, <2>4
    <3>2. QED
      BY <2>3, <3>1, Zenon DEF Source
  <2>7. IsSwap(Size, argv, argv', b, b + w, o)
    <3>1. argv' = Swapped(b, b + w, o)
      BY <1>1, <2>1
    <3>2. b + o <= b + w /\ b + w + o <= Size + 1 /\ b + w \in Nat
      BY <1>1, <1>4
    <3>3. IsSwap(Size, argv, Swapped(b, b + w, o), b, b + w, o)
      BY <1>1, <1>2, <3>2, SwappedIsSwap
    <3>4. QED
      BY <3>1, <3>3
  <2>8. Onto(Size, argv')
    BY <1>1, <1>4, <2>7, SwapKeepsAll
  <2>9. \A k \in 1..Size : k >= b + w + o => argv'[k] = argv[k]
    BY <1>1, <2>7 DEF IsSwap
  <2>10. \A k \in 1..Size : argv'[Rotated(b + o, w - o, o, k)] = argv[Rotated(b, w, o, k)]
    <3>1. 1 <= b /\ o <= w /\ b + w + o <= Size + 1
      BY <1>1, <1>4
    <3>2. QED
      BY <1>1, <2>7, <3>1, RoundOfOptions
  <2>11. QED
    BY <1>1, <1>4, <2>3, <2>5, <2>6, <2>8, <2>9, <2>10 DEF b
<1>5. QED
  BY <1>3, <1>4

-----------------------------------------------------------------------------
(* The invariant holds at the start and through every step.                 *)

LEMMA InitIInv == Init => IInv
<1> SUFFICES ASSUME Init PROVE IInv
  OBVIOUS
<1>1. line \in CommandLines /\ Size \in Nat
  BY LineType DEF Init, Size
<1>2. TypeOK /\ Onto(Size, argv) /\ Untouched
  BY <1>1 DEF Init, TypeOK, Onto, Untouched, Size, argc, NoBlock
<1>3. Types /\ WordsInv
  BY <1>1 DEF Init, Types, WordsInv, NoBlock
<1>4. QED
  BY <1>2, <1>3 DEF IInv

(* What the invariant says of the indexes.                                  *)
LEMMA Ranges ==
  ASSUME IInv
  PROVE  /\ Size \in Nat /\ argc = Size + 1 /\ Len(line) = Size
         /\ argv \in [1..Size -> 1..Size]
         /\ optind \in Nat /\ 1 <= optind /\ optind <= Size + 1
         /\ first_nonopt \in Nat /\ 1 <= first_nonopt /\ first_nonopt <= Size + 1
         /\ last_nonopt \in Nat /\ 1 <= last_nonopt /\ last_nonopt <= Size + 1
         /\ Len(aside) \in Nat /\ aside \in Seq(1..Size)
         /\ \A i \in 1..Size : argv[i] \in 1..Size /\ At(i) \in ArgumentType
<1>1. Size \in Nat /\ argc = Size + 1 /\ Len(line) = Size
  BY LineType DEF IInv, Types, Size, argc
<1>2. aside \in Seq(1..Size)
  BY DEF IInv, Types
<1>3. argv \in [1..Size -> 1..Size]
  BY DEF IInv, Onto
<1>4. \A i \in 1..Size : argv[i] \in 1..Size /\ At(i) \in ArgumentType
  BY <1>3, LineType DEF IInv, Types, At, Size
<1>5. QED
  BY <1>1, <1>2, <1>3, <1>4 DEF IInv, TypeOK

LEMMA NextLetterStep == IInv /\ NextLetter => IInv'
<1> SUFFICES ASSUME IInv, NextLetter PROVE IInv'
  OBVIOUS
<1>r. Size \in Nat /\ argc = Size + 1 /\ Len(line) = Size
  BY Ranges
<1>s. Size' = Size /\ argc' = argc /\ line' = line /\ ordering' = ordering /\ function' = function
  BY DEF NextLetter, setting, Size, argc
<1>1. Onto(Size, argv)' /\ Untouched'
  BY <1>s, Ranges DEF NextLetter, IInv, Onto, Untouched, indexes, history
<1>2. TypeOK'
  BY <1>s, Ranges DEF NextLetter, IInv, TypeOK, WordsInv, Between, IsWord, At, indexes, history
<1>3. Types'
  BY <1>s, Ranges DEF NextLetter, IInv, Types, indexes, history
<1>4. WordsInv'
  BY <1>s, Ranges DEF NextLetter, IInv, WordsInv, Types, Between, Held, ToBeHeld, indexes, history
<1>5. QED
  BY <1>1, <1>2, <1>3, <1>4 DEF IInv

LEMMA NextArgumentStep == IInv /\ NextArgument => IInv'
<1> SUFFICES ASSUME IInv, NextArgument PROVE IInv'
  OBVIOUS
<1>r. Size \in Nat /\ argc = Size + 1 /\ Len(line) = Size
  BY Ranges
<1>s. Size' = Size /\ argc' = argc /\ line' = line /\ ordering' = ordering /\ function' = function
  BY DEF NextArgument, Lower, setting, Size, argc
<1>1. Onto(Size, argv)' /\ Untouched'
  BY <1>s, Ranges DEF NextArgument, Lower, IInv, Onto, Untouched, indexes, history
<1>2. TypeOK'
  BY <1>s, Ranges DEF NextArgument, Lower, IInv, TypeOK, WordsInv, Between, IsWord, At, indexes, history
<1>3. Types'
  BY <1>s, Ranges DEF NextArgument, Lower, IInv, Types, indexes, history
<1>4. WordsInv'
  BY <1>s, Ranges, SMTT(30)
  DEF NextArgument, Lower, IInv, WordsInv, Types, Between, Held, ToBeHeld, indexes, history
<1>5. QED
  BY <1>1, <1>2, <1>3, <1>4 DEF IInv

LEMMA SkipEndsStep == IInv /\ SkipEnds => IInv'
<1> SUFFICES ASSUME IInv, SkipEnds PROVE IInv'
  OBVIOUS
<1>r. Size \in Nat /\ argc = Size + 1 /\ Len(line) = Size
  BY Ranges
<1>s. Size' = Size /\ argc' = argc /\ line' = line /\ ordering' = ordering /\ function' = function
  BY DEF SkipEnds, setting, Size, argc
<1>1. Onto(Size, argv)' /\ Untouched'
  BY <1>s, Ranges DEF SkipEnds, IInv, Onto, Untouched, indexes, history
<1>2. TypeOK'
  BY <1>s, Ranges DEF SkipEnds, IInv, TypeOK, WordsInv, Between, IsWord, At, indexes, history
<1>3. Types'
  BY <1>s, Ranges DEF SkipEnds, IInv, Types, indexes, history
<1>4. WordsInv'
  BY <1>s, Ranges DEF SkipEnds, IInv, WordsInv, Types, Between, Held, ToBeHeld, indexes, history
<1>5. QED
  BY <1>1, <1>2, <1>3, <1>4 DEF IInv

(* The arguments that are left, as a sequence.                              *)
LEMMA Remaining ==
  ASSUME IInv, NEW i \in 1..Size + 1
  PROVE  /\ In(From(i, argc)) \in Seq(1..Size) /\ Len(In(From(i, argc))) = argc - i
         /\ \A j \in 1..argc - i : In(From(i, argc))[j] = argv[i + j - 1]
<1>1. Size \in Nat /\ argc = Size + 1 /\ argv \in [1..Size -> 1..Size]
  BY Ranges
<1>2. DOMAIN From(i, argc) = 1..argc - i /\ \A j \in 1..argc - i : From(i, argc)[j] = i + j - 1
  BY <1>1 DEF From
<1>3. In(From(i, argc)) = [j \in 1..argc - i |-> argv[i + j - 1]]
  BY <1>2 DEF In
<1>4. argc - i \in Nat /\ \A j \in 1..argc - i : argv[i + j - 1] \in 1..Size
  BY <1>1
<1>5. In(From(i, argc)) \in Seq(1..Size)
  <2> DEFINE m == argc - i
             v(j) == argv[i + j - 1]
  <2>1. m \in Nat /\ \A j \in 1..m : v(j) \in 1..Size
    BY <1>4
  <2> HIDE DEF m, v
  <2>2. [j \in 1..m |-> v(j)] \in Seq(1..Size)
    BY <2>1
  <2>3. QED
    BY <1>3, <2>2 DEF m, v
<1>6. QED
  BY <1>3, <1>4, <1>5

LEMMA PermuteStep == IInv /\ Permute => IInv'
<1> SUFFICES ASSUME IInv, Permute PROVE IInv'
  OBVIOUS
<1>r. Size \in Nat /\ argc = Size + 1 /\ Len(line) = Size
  BY Ranges
<1>s. Size' = Size /\ argc' = argc /\ line' = line /\ ordering' = ordering /\ function' = function
  BY DEF Permute, setting, Size, argc
<1>e. /\ pc = "permute" /\ Between /\ nextchar' = Null
      /\ argv' = argv /\ optind' = optind /\ last_nonopt' = last_nonopt /\ aside' = aside
      /\ given' = given
  BY DEF Permute, IInv, Types, WordsInv, history
<1>1. Onto(Size, argv)' /\ Untouched'
  BY <1>s, <1>e, Ranges DEF IInv, Onto, Untouched
<1>p. \/ /\ pc' = "exchange" /\ first_nonopt' = first_nonopt
         /\ block' = [bottom |-> first_nonopt, middle |-> last_nonopt, top |-> optind,
                      after |-> "skip"]
      \/ pc' = "skip" /\ first_nonopt' \in {first_nonopt, optind}
  BY DEF Permute, Exchange
<1>f. first_nonopt <= last_nonopt /\ last_nonopt <= optind
  BY <1>e DEF Between
<1>2. TypeOK'
  BY <1>s, <1>e, <1>p, <1>f, Ranges DEF TypeOK
<1>3. Types'
  BY <1>s, Ranges DEF Permute, Exchange, IInv, Types, history
<1>4. WordsInv'
  <2>1. CASE first_nonopt # last_nonopt /\ last_nonopt # optind
    <3>1. /\ pc' = "exchange" /\ first_nonopt' = first_nonopt
          /\ block' = [bottom |-> first_nonopt, middle |-> last_nonopt, top |-> optind,
                       after |-> "skip"]
      BY <2>1 DEF Permute, Exchange
    <3>2. ASSUME NEW j \in 1..Len(aside)
          PROVE  argv[Source(block', first_nonopt + (optind - last_nonopt) + j - 1)] = aside[j]
      <4> DEFINE k == first_nonopt + (optind - last_nonopt) + j - 1
      <4>1. Source(block', k)
              = Rotated(first_nonopt, last_nonopt - first_nonopt, optind - last_nonopt, k)
        BY <3>1 DEF Source
      <4>2. Rotated(first_nonopt, last_nonopt - first_nonopt, optind - last_nonopt, k)
              = first_nonopt + j - 1
        <5>1. j \in 1..last_nonopt - first_nonopt
          BY <1>e DEF Between
        <5>2. first_nonopt \in Nat /\ last_nonopt \in Nat /\ optind \in Nat
          BY Ranges
        <5>3. QED
          BY <1>f, <5>1, <5>2, RotatedWord
      <4>3. QED
        BY <1>e, <4>1, <4>2 DEF Between, Held
    <3>3. ToBeHeld(first_nonopt + (optind - last_nonopt))'
      BY <1>e, <3>1, <3>2 DEF ToBeHeld
    <3>4. first_nonopt + (optind - last_nonopt) + Len(aside) = optind
      BY <1>e, Ranges DEF Between
    <3>5. QED
      BY <1>e, <3>1, <3>3, <3>4 DEF WordsInv
  <2>2. CASE ~(first_nonopt # last_nonopt /\ last_nonopt # optind)
    <3>1. /\ pc' = "skip" /\ block' = block
          /\ first_nonopt' = IF last_nonopt # optind THEN optind ELSE first_nonopt
      BY <2>2 DEF Permute
    <3>2. first_nonopt' + Len(aside) = optind
      BY <1>e, <2>2, <3>1, Ranges DEF Between
    <3>3. Held(first_nonopt)'
      BY <1>e, <2>2, <3>1, Ranges DEF Between, Held
    <3>4. QED
      BY <1>e, <3>1, <3>2, <3>3 DEF WordsInv
  <2>3. QED
    BY <2>1, <2>2
<1>9. QED
  BY <1>1, <1>2, <1>3, <1>4 DEF IInv

LEMMA ExchangedStep == IInv /\ Exchanged => IInv'
<1> SUFFICES ASSUME IInv, Exchanged PROVE IInv'
  OBVIOUS
<1>r. Size \in Nat /\ argc = Size + 1 /\ Len(line) = Size
  BY Ranges
<1>s. Size' = Size /\ argc' = argc /\ line' = line /\ ordering' = ordering /\ function' = function
  BY DEF Exchanged, setting, Size, argc
<1> DEFINE f == first_nonopt + (optind - last_nonopt)
<1>e. /\ pc = "exchange" /\ argv' = argv /\ optind' = optind /\ aside' = aside
      /\ given' = given /\ block' = block /\ nextchar' = Null
      /\ first_nonopt' = f /\ last_nonopt' = optind
      /\ pc' = block.after /\ block.after \in {"skip", "rest"}
  BY DEF Exchanged, IInv, TypeOK, Types, WordsInv, history
<1>k. /\ block.bottom \in Nat /\ block.middle \in Nat /\ block.top \in Nat
      /\ first_nonopt <= block.bottom /\ block.bottom <= block.middle
      /\ block.middle <= block.top /\ block.top <= optind /\ block.middle = last_nonopt
  BY <1>e DEF IInv, TypeOK, Types
<1>o. f \in 1..Size + 1
  BY Ranges, <1>k
<1>m. block.bottom = block.middle \/ block.middle = block.top
  BY <1>k DEF Exchanged
<1>b. \A k \in Int : Source(block, k) = k
  BY <1>k, <1>m, NothingToRotate DEF Source
<1>1. Onto(Size, argv)' /\ Untouched'
  BY <1>s, <1>e, Ranges DEF IInv, Onto, Untouched
<1>2. TypeOK'
  BY <1>s, <1>e, <1>o, Ranges DEF TypeOK
<1>3. Types'
  BY <1>s, <1>e, Ranges DEF IInv, Types
<1>4. WordsInv'
  <2>1. f + Len(aside) = (IF block.after = "rest" THEN argc ELSE optind) /\ ToBeHeld(f)
    BY <1>e DEF IInv, WordsInv
  <2>2. Held(first_nonopt)'
    <3>1. ASSUME NEW j \in 1..Len(aside) PROVE argv[f + j - 1] = aside[j]
      <4>1. f + j - 1 \in Int
        BY <1>o
      <4>2. QED
        BY <1>b, <2>1, <4>1 DEF ToBeHeld
    <3>2. QED
      BY <1>e, <3>1 DEF Held
  <2>3. QED
    BY <1>s, <1>e, <2>1, <2>2 DEF WordsInv
<1>9. QED
  BY <1>1, <1>2, <1>3, <1>4 DEF IInv

LEMMA ExchangeRoundStep == IInv /\ ExchangeRound => IInv'
<1> SUFFICES ASSUME IInv, ExchangeRound PROVE IInv'
  OBVIOUS
<1>r. Size \in Nat /\ argc = Size + 1 /\ Len(line) = Size
  BY Ranges
<1>s. Size' = Size /\ argc' = argc /\ line' = line /\ ordering' = ordering /\ function' = function
  BY DEF ExchangeRound, setting, Size, argc
<1>e. /\ pc = "exchange" /\ pc' = "exchange" /\ optind' = optind /\ aside' = aside
      /\ given' = given /\ nextchar' = Null /\ nextchar = Null
      /\ first_nonopt' = first_nonopt /\ last_nonopt' = last_nonopt
  BY DEF ExchangeRound, indexes, history, IInv, Types
<1>k. /\ block \in [bottom : Nat, middle : Nat, top : Nat, after : {"host", "skip", "rest"}]
      /\ first_nonopt <= block.bottom /\ block.bottom <= block.middle
      /\ block.middle <= block.top /\ block.top <= optind /\ block.middle = last_nonopt
      /\ block.after \in {"skip", "rest"}
  BY <1>e DEF IInv, TypeOK, Types
<1>b. BlockOK
  BY <1>k, Ranges DEF BlockOK
<1>g. /\ Onto(Size, argv')
      /\ \A k \in 1..Size : k >= block.top => argv'[k] = argv[k]
      /\ block' \in [bottom : Nat, middle : Nat, top : Nat, after : {"host", "skip", "rest"}]
      /\ block'.middle = block.middle /\ block'.after = block.after
      /\ block.bottom <= block'.bottom /\ block'.bottom <= block'.middle
      /\ block'.middle <= block'.top /\ block'.top <= block.top
      /\ \A k \in 1..Size : argv'[Source(block', k)] = argv[Source(block, k)]
  BY <1>b, <1>r, RoundRotates DEF IInv
<1>1. Onto(Size, argv)' /\ Untouched'
  <2>1. Onto(Size, argv)'
    BY <1>g, <1>s DEF Onto
  <2>2. ASSUME NEW i \in optind..Size PROVE argv'[i] = given[i]
    <3>1. argv[i] = given[i]
      BY <1>e DEF IInv, Untouched
    <3>2. i \in 1..Size /\ i >= block.top
      BY <1>k, Ranges
    <3>3. QED
      BY <1>g, <3>1, <3>2
  <2>3. QED
    BY <1>e, <1>s, <2>1, <2>2 DEF Untouched
<1>2. TypeOK'
  <2>1. argv' \in [1..Size -> 1..Size]
    BY <1>g DEF Onto
  <2>2. /\ block'.middle = last_nonopt /\ block'.after \in {"skip", "rest"}
        /\ first_nonopt <= block'.bottom /\ block'.bottom <= block'.middle
        /\ block'.middle <= block'.top /\ block'.top <= optind
    BY <1>g, <1>k, Ranges
  <2>3. QED
    BY <1>e, <1>s, <2>1, <2>2, Ranges DEF TypeOK
<1>3. Types'
  BY <1>e, <1>g, <1>s DEF IInv, Types
<1>4. WordsInv'
  <2> DEFINE f == first_nonopt + (optind - last_nonopt)
  <2>1. /\ f + Len(aside) = (IF block.after = "rest" THEN argc ELSE optind)
        /\ ToBeHeld(f)
    BY <1>e DEF IInv, WordsInv
  <2>2. ASSUME NEW j \in 1..Len(aside) PROVE argv'[Source(block', f + j - 1)] = aside[j]
    <3>1. f + j - 1 \in 1..Size
      <4>1. f \in Nat /\ 1 <= f
        BY <1>k, Ranges
      <4>2. f + Len(aside) <= Size + 1
        BY <2>1, Ranges
      <4> HIDE DEF f
      <4>3. QED
        BY <1>r, <4>1, <4>2, Ranges
    <3>2. QED
      BY <1>g, <2>1, <3>1 DEF ToBeHeld
  <2>3. QED
    BY <1>e, <1>g, <1>s, <2>1, <2>2 DEF WordsInv, ToBeHeld
<1>9. QED
  BY <1>1, <1>2, <1>3, <1>4 DEF IInv

LEMMA SkipWordStep == IInv /\ SkipWord => IInv'
<1> SUFFICES ASSUME IInv, SkipWord PROVE IInv'
  OBVIOUS
<1>r. Size \in Nat /\ argc = Size + 1 /\ Len(line) = Size
  BY Ranges
<1>s. Size' = Size /\ argc' = argc /\ line' = line /\ ordering' = ordering /\ function' = function
  BY DEF SkipWord, setting, Size, argc
<1>e. /\ pc = "skip" /\ pc' = "skip" /\ argv' = argv /\ optind # argc /\ optind' = optind + 1
      /\ aside' = Append(aside, argv[optind]) /\ given' = given /\ block' = block
      /\ nextchar' = Null /\ first_nonopt' = first_nonopt /\ last_nonopt' = last_nonopt
  BY DEF SkipWord, IInv, Types
<1>o. optind \in 1..Size
  BY <1>e, Ranges
<1>1. Onto(Size, argv)' /\ Untouched'
  <2>1. Onto(Size, argv)'
    BY <1>s, <1>e DEF IInv, Onto
  <2>2. \A i \in optind..Size : argv[i] = given[i]
    BY <1>e DEF IInv, Untouched
  <2>3. \A i \in optind + 1..Size : argv[i] = given[i]
    BY <1>o, <1>r, <2>2
  <2>4. QED
    BY <1>s, <1>e, <2>1, <2>3 DEF Untouched
<1>2. TypeOK'
  BY <1>s, <1>e, <1>o, Ranges DEF TypeOK
<1>3. Types'
  BY <1>s, <1>e, <1>o, Ranges DEF IInv, Types
<1>4. WordsInv'
  <2>1. first_nonopt + Len(aside) = optind /\ Held(first_nonopt)
    BY <1>e DEF IInv, WordsInv
  <2>2. /\ Len(aside') = Len(aside) + 1
        /\ \A j \in 1..Len(aside) : aside'[j] = aside[j]
        /\ aside'[Len(aside) + 1] = argv[optind]
    BY <1>e, <1>o, Ranges
  <2>3. ASSUME NEW j \in 1..Len(aside') PROVE argv[first_nonopt + j - 1] = aside'[j]
    <3>1. CASE j \in 1..Len(aside)
      BY <2>1, <2>2, <3>1 DEF Held
    <3>2. CASE j = Len(aside) + 1
      <4>1. first_nonopt + j - 1 = optind
        BY <2>1, <3>2, Ranges
      <4>2. QED
        BY <2>2, <3>2, <4>1
    <3>3. QED
      <4>1. Len(aside) \in Nat
        BY Ranges
      <4>2. QED
        BY <2>2, <3>1, <3>2, <4>1
  <2>4. Held(first_nonopt)'
    BY <1>e, <2>3 DEF Held
  <2>5. first_nonopt' + Len(aside') = optind'
    BY <1>e, <2>1, <2>2, Ranges
  <2>6. QED
    BY <1>e, <2>4, <2>5 DEF WordsInv
<1>9. QED
  BY <1>1, <1>2, <1>3, <1>4 DEF IInv

LEMMA RestAreWordsStep == IInv /\ RestAreWords => IInv'
<1> SUFFICES ASSUME IInv, RestAreWords PROVE IInv'
  OBVIOUS
<1>r. Size \in Nat /\ argc = Size + 1 /\ Len(line) = Size
  BY Ranges
<1>s. Size' = Size /\ argc' = argc /\ line' = line /\ ordering' = ordering /\ function' = function
  BY DEF RestAreWords, setting, Size, argc
<1>e. /\ pc = "rest" /\ pc' = "end" /\ argv' = argv /\ optind' = argc /\ last_nonopt' = argc
      /\ aside' = aside /\ given' = given /\ block' = block
      /\ nextchar' = Null /\ first_nonopt' = first_nonopt
  BY DEF RestAreWords, IInv, Types, history
<1>1. Onto(Size, argv)' /\ Untouched'
  BY <1>s, <1>e, Ranges DEF IInv, Onto, Untouched
<1>2. TypeOK'
  BY <1>s, <1>e, Ranges DEF TypeOK
<1>3. Types'
  BY <1>s, <1>e, Ranges DEF IInv, Types
<1>4. WordsInv'
  BY <1>s, <1>e, Ranges DEF IInv, WordsInv, Held
<1>9. QED
  BY <1>1, <1>2, <1>3, <1>4 DEF IInv

LEMMA DashesSeenStep == IInv /\ DashesSeen => IInv'
<1> SUFFICES ASSUME IInv, DashesSeen PROVE IInv'
  OBVIOUS
<1>r. Size \in Nat /\ argc = Size + 1 /\ Len(line) = Size
  BY Ranges
<1>s. Size' = Size /\ argc' = argc /\ line' = line /\ ordering' = ordering /\ function' = function
  BY DEF DashesSeen, setting, Size, argc
<1> DEFINE rest == In(From(optind + 1, argc))
<1>e. /\ pc = "dashes" /\ argv' = argv /\ optind' = optind + 1
      /\ aside' = aside \o rest /\ given' = given
      /\ nextchar' = Null /\ last_nonopt' = last_nonopt /\ Between
  BY DEF DashesSeen, IInv, Types, WordsInv
<1>o. optind \in 1..Size
  BY Ranges DEF DashesSeen, AtDashes
<1>f. first_nonopt <= last_nonopt /\ last_nonopt <= optind
  BY <1>e DEF Between
<1>t. /\ rest \in Seq(1..Size) /\ Len(rest) = argc - (optind + 1)
      /\ \A j \in 1..argc - (optind + 1) : rest[j] = argv[optind + 1 + j - 1]
  <2>1. optind + 1 \in 1..Size + 1
    BY <1>o, <1>r
  <2>2. QED
    BY <2>1, Remaining
<1> HIDE DEF rest
<1>a. /\ aside' \in Seq(1..Size) /\ Len(aside') = Len(aside) + (argc - (optind + 1))
      /\ \A j \in 1..Len(aside) : aside'[j] = aside[j]
      /\ \A j \in 1..argc - (optind + 1) : aside'[Len(aside) + j] = argv[optind + 1 + j - 1]
  <2>1. aside \in Seq(1..Size) /\ rest \in Seq(1..Size) /\ Len(aside) \in Nat
    BY <1>t, Ranges
  <2>2. /\ aside \o rest \in Seq(1..Size) /\ Len(aside \o rest) = Len(aside) + Len(rest)
        /\ \A j \in 1..Len(aside) : (aside \o rest)[j] = aside[j]
        /\ \A j \in 1..Len(rest) : (aside \o rest)[Len(aside) + j] = rest[j]
    BY <2>1
  <2>3. QED
    BY <1>e, <1>t, <2>2
<1>p. \/ /\ first_nonopt # last_nonopt /\ pc' = "exchange" /\ first_nonopt' = first_nonopt
         /\ block' = [bottom |-> first_nonopt, middle |-> last_nonopt, top |-> optind + 1,
                      after |-> "rest"]
      \/ /\ first_nonopt = last_nonopt /\ pc' = "rest" /\ first_nonopt' = optind + 1
         /\ block' = block
  BY <1>f, Ranges DEF DashesSeen, Exchange
<1>1. Onto(Size, argv)' /\ Untouched'
  <2>1. Onto(Size, argv)'
    BY <1>s, <1>e DEF IInv, Onto
  <2>2. \A i \in optind..Size : argv[i] = given[i]
    BY <1>e DEF IInv, Untouched
  <2>3. \A i \in optind + 1..Size : argv[i] = given[i]
    BY <1>o, <1>r, <2>2
  <2>4. QED
    BY <1>s, <1>e, <2>1, <2>3 DEF Untouched
<1>2. TypeOK'
  BY <1>s, <1>e, <1>f, <1>o, <1>p, Ranges DEF TypeOK
<1>3. Types'
  <2>1. block' \in [bottom : Nat, middle : Nat, top : Nat, after : {"host", "skip", "rest"}]
    BY <1>p, Ranges DEF IInv, Types
  <2>2. QED
    BY <1>s, <1>e, <1>a, <1>p, <2>1 DEF IInv, Types
<1>4. WordsInv'
  <2>n. Len(aside) \in Nat /\ Len(aside) = last_nonopt - first_nonopt
    BY <1>e, Ranges DEF Between
  <2>1. CASE first_nonopt # last_nonopt
    <3> DEFINE t == optind + 1
               f == first_nonopt + (t - last_nonopt)
    <3>1. /\ pc' = "exchange" /\ first_nonopt' = first_nonopt /\ optind' = t
          /\ block'.bottom = first_nonopt /\ block'.middle = last_nonopt
          /\ block'.top = t /\ block'.after = "rest"
      BY <1>e, <1>p, <2>1
    <3>2. /\ t \in Nat /\ t <= argc /\ last_nonopt <= t /\ first_nonopt <= last_nonopt
          /\ first_nonopt \in Nat /\ last_nonopt \in Nat
      BY <1>f, <1>o, <1>r, Ranges
    <3>a. /\ Len(aside') = Len(aside) + (argc - t)
          /\ \A j \in 1..argc - t : aside'[Len(aside) + j] = argv[t + j - 1]
      BY <1>a
    <3> HIDE DEF t
    <3>3. \A k : Source(block', k)
                  = Rotated(first_nonopt, last_nonopt - first_nonopt, t - last_nonopt, k)
      BY <3>1, Zenon DEF Source
    <3>4. ASSUME NEW j \in 1..Len(aside') PROVE argv[Source(block', f + j - 1)] = aside'[j]
      <4>1. CASE j \in 1..Len(aside)
        <5>1. j \in 1..last_nonopt - first_nonopt
          BY <2>n, <4>1
        <5>2. Source(block', f + j - 1) = first_nonopt + j - 1
          <6>1. Rotated(first_nonopt, last_nonopt - first_nonopt, t - last_nonopt,
                        first_nonopt + (t - last_nonopt) + j - 1) = first_nonopt + j - 1
            BY <3>2, <5>1, RotatedWord
          <6>2. QED
            BY <3>3, <6>1
        <5>3. argv[first_nonopt + j - 1] = aside[j]
          BY <1>e, <4>1 DEF Between, Held
        <5>4. QED
          BY <1>a, <4>1, <5>2, <5>3
      <4>2. CASE j \notin 1..Len(aside)
        <5>1. PICK i \in 1..argc - t : j = Len(aside) + i
          <6>1. j - Len(aside) \in 1..argc - t
            BY <1>r, <2>n, <3>2, <3>a, <4>2
          <6>2. QED
            BY <2>n, <6>1
        <5>2. f + j - 1 = t + i - 1 /\ t + i - 1 \in Nat /\ t <= t + i - 1
          BY <1>r, <2>n, <3>2, <5>1
        <5>3. Rotated(first_nonopt, last_nonopt - first_nonopt, t - last_nonopt, t + i - 1)
                = t + i - 1
          BY <3>2, <5>2, RotatedBehind
        <5>4. QED
          BY <3>3, <3>a, <5>1, <5>2, <5>3
      <4>3. QED
        BY <4>1, <4>2
    <3>5. f + Len(aside') = argc
      BY <1>r, <2>n, <3>2, <3>a
    <3>6. /\ first_nonopt' + (optind' - last_nonopt') = f /\ argc' = argc
          /\ argv' = argv /\ block'.after = "rest" /\ pc' = "exchange"
      BY <1>e, <1>s, <3>1
    <3> HIDE DEF f
    <3>7. \A j \in 1..Len(aside') :
            argv'[Source(block', first_nonopt' + (optind' - last_nonopt') + j - 1)] = aside'[j]
      BY <3>4, <3>6
    <3>8. ToBeHeld(first_nonopt + (optind - last_nonopt))'
      BY <3>7 DEF ToBeHeld
    <3>9. QED
      BY <3>5, <3>6, <3>8 DEF WordsInv
  <2>2. CASE first_nonopt = last_nonopt
    <3>1. pc' = "rest" /\ first_nonopt' = optind + 1
      BY <1>p, <2>2
    <3>2. Len(aside) = 0 /\ Len(aside') = argc - (optind + 1)
      BY <1>a, <1>o, <1>r, <2>n, <2>2, Ranges
    <3>3. ASSUME NEW j \in 1..Len(aside') PROVE argv[optind + 1 + j - 1] = aside'[j]
      <4>1. j \in 1..argc - (optind + 1) /\ Len(aside) + j = j
        BY <1>o, <1>r, <3>2
      <4>2. QED
        BY <1>a, <4>1
    <3>4. Held(first_nonopt)'
      BY <1>e, <3>1, <3>3 DEF Held
    <3>5. first_nonopt' + Len(aside') = argc
      BY <1>o, <1>r, <3>1, <3>2
    <3>6. QED
      BY <1>s, <3>1, <3>4, <3>5 DEF WordsInv
  <2>3. QED
    BY <2>1, <2>2
<1>9. QED
  BY <1>1, <1>2, <1>3, <1>4 DEF IInv

LEMMA ScanEndsStep == IInv /\ ScanEnds => IInv'
<1> SUFFICES ASSUME IInv, ScanEnds PROVE IInv'
  OBVIOUS
<1>r. Size \in Nat /\ argc = Size + 1 /\ Len(line) = Size
  BY Ranges
<1>s. Size' = Size /\ argc' = argc /\ line' = line /\ ordering' = ordering /\ function' = function
  BY DEF ScanEnds, Ends, setting, Size, argc
<1>1. CASE pc = "dashes"
  <2>e. /\ pc' = "end" /\ optind = argc /\ argv' = argv /\ optind' = optind /\ aside' = aside
        /\ given' = given /\ block' = block /\ nextchar' = Null /\ Between
        /\ first_nonopt' = first_nonopt /\ last_nonopt' = last_nonopt
        /\ ordering = "PERMUTE" => last_nonopt = optind
    BY <1>1 DEF ScanEnds, indexes, history, IInv, Types, WordsInv
  <2>1. Onto(Size, argv)' /\ Untouched'
    <3>1. Onto(Size, argv)'
      BY <1>s, <2>e DEF IInv, Onto
    <3>2. \A i \in optind..Size : argv[i] = given[i]
      BY <1>1 DEF IInv, Untouched
    <3>3. QED
      BY <1>s, <2>e, <3>1, <3>2 DEF Untouched
  <2>2. TypeOK'
    BY <1>s, <2>e, Ranges DEF TypeOK
  <2>3. Types'
    BY <1>s, <2>e DEF IInv, Types
  <2>4. WordsInv'
    BY <1>s, <2>e, Ranges DEF WordsInv, Between, Held
  <2>5. QED
    BY <2>1, <2>2, <2>3, <2>4 DEF IInv
<1>2. CASE pc = "end"
  <2>e. /\ pc' = "done" /\ argv' = argv /\ aside' = aside
        /\ given' = given /\ block' = block /\ nextchar' = Null
        /\ first_nonopt' = first_nonopt /\ last_nonopt' = last_nonopt
        /\ optind' = IF first_nonopt # last_nonopt THEN first_nonopt ELSE optind
    BY <1>2 DEF ScanEnds, Ends, IInv, Types
  <2>1. Onto(Size, argv)' /\ Untouched'
    BY <1>s, <2>e DEF IInv, Onto, Untouched
  <2>2. TypeOK'
    BY <1>s, <2>e, Ranges DEF TypeOK
  <2>3. Types'
    BY <1>s, <2>e DEF IInv, Types
  <2>4. WordsInv'
    <3>1. CASE ordering = "PERMUTE"
      <4>1. /\ optind = argc /\ last_nonopt = argc
            /\ first_nonopt + Len(aside) = argc /\ Held(first_nonopt)
        BY <1>2, <3>1 DEF IInv, WordsInv
      <4>2. optind' = first_nonopt
        BY <2>e, <4>1
      <4>3. Held(optind)' /\ optind' + Len(aside') = argc'
        BY <1>s, <2>e, <4>1, <4>2 DEF Held
      <4>4. QED
        BY <2>e, <4>3 DEF WordsInv
    <3>2. CASE ordering # "PERMUTE"
      BY <1>s, <2>e, <3>2 DEF WordsInv
    <3>3. QED
      BY <3>1, <3>2
  <2>5. QED
    BY <2>1, <2>2, <2>3, <2>4 DEF IInv
<1>3. QED
  BY <1>1, <1>2 DEF ScanEnds

LEMMA WordMetStep == IInv /\ WordMet => IInv'
<1> SUFFICES ASSUME IInv, WordMet PROVE IInv'
  OBVIOUS
<1>r. Size \in Nat /\ argc = Size + 1 /\ Len(line) = Size
  BY Ranges
<1>s. Size' = Size /\ argc' = argc /\ line' = line /\ ordering' = ordering /\ function' = function
  BY DEF WordMet, Ends, setting, Size, argc
<1>e. /\ pc = "dashes" /\ argv' = argv /\ aside' = aside
      /\ given' = given /\ block' = block /\ nextchar' = Null
      /\ first_nonopt' = first_nonopt /\ last_nonopt' = last_nonopt
      /\ \/ pc' = "done" /\ optind' = optind /\ ordering # "PERMUTE"
         \/ pc' = "host" /\ optind' = optind + 1
      /\ optind # argc /\ Between
  BY DEF WordMet, Ends, IInv, Types, WordsInv
<1>o. optind \in 1..Size
  BY <1>e, Ranges
<1>1. Onto(Size, argv)' /\ Untouched'
  <2>1. Onto(Size, argv)'
    BY <1>s, <1>e DEF IInv, Onto
  <2>2. \A i \in optind..Size : argv[i] = given[i]
    BY <1>e DEF IInv, Untouched
  <2>3. \A i \in optind + 1..Size : argv[i] = given[i]
    BY <1>o, <1>r, <2>2
  <2>4. QED
    BY <1>s, <1>e, <2>1, <2>3 DEF Untouched
<1>2. TypeOK'
  BY <1>s, <1>e, <1>o, Ranges DEF TypeOK
<1>3. Types'
  BY <1>s, <1>e DEF IInv, Types
<1>4. WordsInv'
  <2>1. pc' = "host" => Between'
    BY <1>e, Ranges DEF Between, Held
  <2>2. QED
    BY <1>s, <1>e, <2>1 DEF WordsInv
<1>9. QED
  BY <1>1, <1>2, <1>3, <1>4 DEF IInv

LEMMA OptionMetStep == IInv /\ OptionMet => IInv'
<1> SUFFICES ASSUME IInv, OptionMet PROVE IInv'
  OBVIOUS
<1>r. Size \in Nat /\ argc = Size + 1 /\ Len(line) = Size
  BY Ranges
<1>s. Size' = Size /\ argc' = argc /\ line' = line /\ ordering' = ordering /\ function' = function
  BY DEF OptionMet, setting, Size, argc
<1>e. /\ pc = "dashes" /\ pc' = "option" /\ argv' = argv /\ aside' = aside
      /\ given' = given /\ block' = block /\ nextchar' = 1 /\ optind' = optind
      /\ first_nonopt' = first_nonopt /\ last_nonopt' = last_nonopt
      /\ optind # argc /\ ~IsWord(optind) /\ At(optind).kind # "dashes" /\ Between
  BY DEF OptionMet, AtDashes, history, IInv, WordsInv
<1>o. optind \in 1..Size
  BY <1>e, Ranges
<1>k. At(optind).kind \in {"short", "long"} /\ At(optind) \in ArgumentType
  BY <1>e, <1>o, Ranges DEF IsWord, ArgumentType
<1>l. At(optind).letters # <<>>
  BY <1>k, <1>o, LineType, Ranges DEF At, IInv, Types, Size
<1>c. Len(Characters(function, At(optind))) \in Nat /\ Len(Characters(function, At(optind))) >= 1
  BY <1>k, <1>l, CharactersType
<1>1. Onto(Size, argv)' /\ Untouched'
  BY <1>s, <1>e DEF IInv, Onto, Untouched
<1>2. TypeOK'
  <2>1. At(optind)' = At(optind) /\ IsWord(optind)' = IsWord(optind)
    BY <1>s, <1>e DEF At, IsWord
  <2>2. 1 \in 1..Len(Characters(function, At(optind)))
    BY <1>c
  <2>3. 1 \in 1..Len(Characters(function, At(optind)))'
    BY <1>s, <2>1, <2>2 DEF Characters
  <2>4. QED
    BY <1>s, <1>e, <1>o, <2>1, <2>3, Ranges DEF TypeOK
<1>3. Types'
  BY <1>s, <1>e DEF IInv, Types, Null
<1>4. WordsInv'
  BY <1>s, <1>e DEF WordsInv, Between, Held
<1>9. QED
  BY <1>1, <1>2, <1>3, <1>4 DEF IInv

LEMMA OptionReadStep == IInv /\ OptionRead => IInv'
<1> SUFFICES ASSUME IInv, OptionRead PROVE IInv'
  OBVIOUS
<1>r. Size \in Nat /\ argc = Size + 1 /\ Len(line) = Size
  BY Ranges
<1>s. Size' = Size /\ argc' = argc /\ line' = line /\ ordering' = ordering /\ function' = function
  BY DEF OptionRead, setting, Size, argc
<1>o. /\ pc = "option" /\ optind \in 1..Size /\ ~IsWord(optind)
      /\ nextchar \in 1..Len(Characters(function, At(optind)))
  BY Ranges DEF OptionRead, IInv, Types, TypeOK
<1>g. \E r \in {OptionAt(function, At(optind), optind, nextchar, argc)} :
        optind' = r.optind /\ nextchar' = r.nextchar
  BY DEF OptionRead
<1>h. GoesOn(OptionAt(function, At(optind), optind, nextchar, argc), optind,
             Characters(function, At(optind)), argc)
  <2>1. optind \in Nat /\ argc \in Nat /\ optind < argc /\ At(optind) \in ArgumentType
    BY <1>o, <1>r, Ranges
  <2>2. QED
    BY <1>o, <2>1, OptionAtGoesOn
<1>i. /\ optind' \in optind..argc
      /\ nextchar' # Null => /\ optind' = optind
                             /\ nextchar' \in 1..Len(Characters(function, At(optind)))
  BY <1>g, <1>h, <1>o, <1>r DEF GoesOn
<1>e. /\ pc' = "host" /\ argv' = argv /\ aside' = aside /\ given' = given /\ block' = block
      /\ first_nonopt' = first_nonopt /\ last_nonopt' = last_nonopt /\ Between
  BY <1>o DEF OptionRead, IInv, WordsInv
<1>1. Onto(Size, argv)' /\ Untouched'
  <2>1. Onto(Size, argv)'
    BY <1>s, <1>e DEF IInv, Onto
  <2>2. \A i \in optind..Size : argv[i] = given[i]
    BY <1>o DEF IInv, Untouched
  <2>3. \A i \in optind'..Size : argv[i] = given[i]
    BY <1>i, <1>o, <1>r, <2>2
  <2>4. QED
    BY <1>s, <1>e, <2>1, <2>3 DEF Untouched
<1>2. TypeOK'
  <2>1. nextchar' # Null => At(optind)' = At(optind) /\ IsWord(optind)' = IsWord(optind)
    BY <1>s, <1>e, <1>i DEF At, IsWord
  <2>2. nextchar' # Null => (nextchar \in 1..Len(Characters(function, At(optind))))'
    BY <1>s, <1>i, <2>1 DEF Characters
  <2>3. optind' \in 1..argc
    BY <1>i, <1>o, <1>r
  <2>4. nextchar' # Null => optind' < argc
    BY <1>i, <1>o, <1>r
  <2>5. QED
    BY <1>s, <1>e, <1>o, <2>1, <2>2, <2>3, <2>4, Ranges DEF TypeOK
<1>3. Types'
  BY <1>s, <1>e DEF IInv, Types
<1>4. WordsInv'
  <2>1. Between'
    BY <1>e, <1>i, <1>o, Ranges DEF Between, Held
  <2>2. QED
    BY <1>e, <2>1 DEF WordsInv
<1>9. QED
  BY <1>1, <1>2, <1>3, <1>4 DEF IInv

LEMMA ScanAgainStep == \A index \in {0, 1} : IInv /\ ScanAgain(index) => IInv'
<1> SUFFICES ASSUME NEW index \in {0, 1}, IInv, ScanAgain(index) PROVE IInv'
  OBVIOUS
<1>r. Size \in Nat /\ argc = Size + 1 /\ Len(line) = Size
  BY Ranges
<1>s. Size' = Size /\ argc' = argc /\ line' = line /\ ordering' = ordering /\ function' = function
  BY DEF ScanAgain, setting, Size, argc
<1>e. /\ pc' = "host" /\ argv' = argv /\ aside' = <<>> /\ given' = argv /\ block' = block
      /\ nextchar' = Null /\ optind' = 1
      /\ first_nonopt' \in {1, first_nonopt} /\ last_nonopt' \in {1, last_nonopt}
  BY DEF ScanAgain, IInv, Types, Null
<1>1. Onto(Size, argv)' /\ Untouched'
  BY <1>s, <1>e DEF IInv, Onto, Untouched
<1>2. TypeOK'
  BY <1>s, <1>e, Ranges DEF TypeOK
<1>3. Types'
  BY <1>s, <1>e DEF IInv, Types
<1>4. WordsInv'
  BY <1>s, <1>e DEF WordsInv
<1>9. QED
  BY <1>1, <1>2, <1>3, <1>4 DEF IInv

LEMMA NextIInv == IInv /\ [Next]_vars => IInv'
<1> SUFFICES ASSUME IInv, [Next]_vars PROVE IInv'
  OBVIOUS
<1>1. CASE Scan
  BY <1>1, NextLetterStep, NextArgumentStep, PermuteStep, ExchangeRoundStep, ExchangedStep,
     SkipWordStep, SkipEndsStep, DashesSeenStep, RestAreWordsStep, ScanEndsStep, WordMetStep,
     OptionMetStep, OptionReadStep
     DEF Scan
<1>2. CASE \E index \in {0, 1} : ScanAgain(index)
  BY <1>2, ScanAgainStep
<1>3. CASE UNCHANGED vars
  <2>1. /\ line' = line /\ function' = function /\ ordering' = ordering /\ argv' = argv
        /\ optind' = optind /\ nextchar' = nextchar /\ first_nonopt' = first_nonopt
        /\ last_nonopt' = last_nonopt /\ pc' = pc /\ block' = block
        /\ given' = given /\ aside' = aside
    BY <1>3 DEF vars, setting, indexes, history
  <2>2. TypeOK'
    BY <2>1 DEF IInv, TypeOK, argc, IsWord, At, Characters
  <2>3. Onto(Size, argv)' /\ Untouched'
    BY <2>1 DEF IInv, Onto, Untouched, Size
  <2>4. Types'
    BY <2>1 DEF IInv, Types, Size
  <2>5. WordsInv'
    BY <2>1 DEF IInv, WordsInv, Between, Held, ToBeHeld, Source, argc
  <2>6. QED
    BY <2>2, <2>3, <2>4, <2>5 DEF IInv
<1>4. QED
  BY <1>1, <1>2, <1>3 DEF Next

(***************************************************************************)
(* No call reaches outside argv: the indexes stay between 1 and argc, the  *)
(* blocks of exchange_a inside what was scanned, and nextchar inside the   *)
(* argument at optind, for any line, options and number of scans.          *)
(***************************************************************************)
THEOREM IndexesInRange == Spec => []TypeOK
<1>1. IInv => TypeOK
  BY DEF IInv
<1>2. QED
  BY <1>1, InitIInv, NextIInv, PTL DEF Spec

(***************************************************************************)
(* The permutation of argv loses and doubles no argument, and touches none *)
(* that the scan has not reached.                                          *)
(***************************************************************************)
THEOREM PermutationKeepsAll == Spec => []NothingLost
<1>1. IInv => NothingLost
  <2> SUFFICES ASSUME IInv PROVE NothingLost
    OBVIOUS
  <2>1. /\ argv \in [1..Size -> 1..Size] /\ \A v \in 1..Size : \E k \in 1..Size : argv[k] = v
    BY DEF IInv, Onto
  <2>2. {argv[i] : i \in DOMAIN argv} = 1..Size
    BY <2>1
  <2>3. QED
    BY <2>2 DEF IInv, Untouched, NothingLost, Size
<1>2. QED
  BY <1>1, InitIInv, NextIInv, PTL DEF Spec

(***************************************************************************)
(* exchange_a keeps the words it moves together and in order, so that at   *)
(* the end of a permuting scan argv has, from optind on, just the words    *)
(* that were passed.                                                       *)
(***************************************************************************)
THEOREM OperandsInOrder == Spec => []OperandsKept
<1>1. IInv => OperandsKept
  <2> SUFFICES ASSUME IInv PROVE OperandsKept
    OBVIOUS
  <2>1. ASSUME NEW i \in Nat, NEW j \in Nat, 1 <= i, j <= Size + 1,
               i + Len(aside) = j, Held(i)
        PROVE  In(From(i, j)) = aside
    <3>1. DOMAIN From(i, j) = 1..Len(aside)
          /\ \A k \in 1..Len(aside) : From(i, j)[k] = i + k - 1
      BY <2>1, Ranges DEF From
    <3>2. In(From(i, j)) = [k \in 1..Len(aside) |-> argv[i + k - 1]]
      BY <3>1 DEF In
    <3>3. aside = [k \in 1..Len(aside) |-> aside[k]]
      BY Ranges
    <3>4. QED
      BY <2>1, <3>2, <3>3 DEF Held
  <2>2. CASE pc \in {"permute", "dashes", "option"}
    <3>1. Between
      BY <2>2 DEF IInv, WordsInv
    <3>2. In(From(first_nonopt, last_nonopt)) = aside
      <4>1. first_nonopt + Len(aside) = last_nonopt /\ Held(first_nonopt)
        BY <3>1, Ranges DEF Between
      <4>2. QED
        BY <2>1, <4>1, Ranges
    <3>3. QED
      BY <2>2, <3>2 DEF OperandsKept
  <2>3. CASE pc = "done" /\ ordering = "PERMUTE"
    <3>1. optind + Len(aside) = argc /\ Held(optind)
      BY <2>3 DEF IInv, WordsInv
    <3>2. In(From(optind, argc)) = aside
      BY <2>1, <3>1, Ranges
    <3>3. QED
      BY <2>3, <3>2 DEF OperandsKept
  <2>4. QED
    BY <2>2, <2>3 DEF OperandsKept
<1>2. QED
  BY <1>1, InitIInv, NextIInv, PTL DEF Spec

-----------------------------------------------------------------------------
(* The refinement of GetoptReading: the words are together (WordsInv), and  *)
(* all other arguments that were scanned are still in the order of given.   *)

Outside(i, from, to) == i < from \/ to <= i
InOrder(N, g, a, from, to) ==
  \A i, j \in 1..N :
    i < j /\ Outside(i, from, to) /\ Outside(j, from, to)
      => \E k, l \in 1..N : k < l /\ g[k] = a[i] /\ g[l] = a[j]
Ordered(from, to) == InOrder(Size, given, argv, from, to)

(* argv as exchange_a will leave it, and where optind goes back to.         *)
Target == [k \in 1..Size |-> argv[Source(block, k)]]
Operands == IF first_nonopt # last_nonopt THEN first_nonopt ELSE optind

Fresh == optind = 1 /\ nextchar = Null /\ aside = <<>> /\ argv = given

OrderInv ==
  /\ Onto(Size, given)
  /\ pc = "host" => (Between /\ Ordered(first_nonopt, last_nonopt)) \/ Fresh
  /\ pc \in {"permute", "dashes", "option"} => Ordered(first_nonopt, last_nonopt)
  /\ pc = "skip" => Ordered(first_nonopt, optind)
  /\ pc = "exchange" =>
       LET f == first_nonopt + (optind - last_nonopt)
       IN  InOrder(Size, given, Target, f, f + Len(aside))
  /\ pc = "rest" => Ordered(first_nonopt, argc)
  /\ pc = "end" => Ordered(Operands, argc)
  /\ pc = "done" => Ordered(optind, argc)

(* What only a permuting scan does, and what the end finds.                 *)
ModeInv ==
  /\ ordering \in Orderings
  /\ pc \in {"permute", "skip"} => ordering = "PERMUTE"
  /\ pc = "exchange" => block.after = "rest" \/ ordering = "PERMUTE"
  /\ (pc = "dashes" /\ ordering = "PERMUTE") => optind = argc \/ ~IsWord(optind)
  /\ (ordering # "PERMUTE" /\ pc \in {"host", "dashes", "option"}) => aside = <<>>
  /\ pc = "end" =>
       \/ last_nonopt = argc /\ first_nonopt + Len(aside) = argc /\ Held(first_nonopt)
       \/ first_nonopt = last_nonopt /\ aside = <<>>

(* What the scan has returned: the end is told once, with all the words.    *)
IsSeq(s) == \E S : s \in Seq(S)
Latest(s) == s[Len(s)]
ToldInv ==
  /\ IsSeq(returned)
  /\ pc # "done" => \A i \in DOMAIN returned : returned[i].option # "end"
  /\ pc = "done" => /\ returned # <<>> /\ Latest(returned).option = "end"
                    /\ Latest(returned).operands = In(From(optind, argc))

(***************************************************************************)
(* The inductive invariant behind the refinement.                          *)
(***************************************************************************)
RInv == IInv /\ OrderInv /\ ModeInv /\ ToldInv

LEMMA InOrderInside ==
  ASSUME NEW N \in Nat, NEW g, NEW a, NEW f, NEW t, NEW from, NEW to,
         InOrder(N, g, a, f, t),
         \A i \in 1..N : Outside(i, from, to) => Outside(i, f, t)
  PROVE  InOrder(N, g, a, from, to)
BY DEF InOrder

LEMMA GivenInOrder ==
  ASSUME NEW N \in Nat, NEW g, NEW from, NEW to
  PROVE  InOrder(N, g, g, from, to)
BY DEF InOrder

(* What is around the words keeps its order when they are moved.            *)
LEMMA RotatedInOrder ==
  ASSUME NEW N \in Nat, NEW g, NEW a, NEW f \in Nat, NEW l \in Nat, NEW t \in Nat, NEW to \in Nat,
         1 <= f, f <= l, l <= t, t <= to, to <= N + 1, InOrder(N, g, a, f, l),
         NEW c, \A k \in 1..N : c[k] = a[Rotated(f, l - f, t - l, k)]
  PROVE  InOrder(N, g, c, f + (t - l), to)
<1> DEFINE r(k) == Rotated(f, l - f, t - l, k)
<1>1. ASSUME NEW i \in 1..N, NEW j \in 1..N, i < j,
             Outside(i, f + (t - l), to), Outside(j, f + (t - l), to)
      PROVE  \E k, m \in 1..N : k < m /\ g[k] = c[i] /\ g[m] = c[j]
  <2>1. r(i) \in 1..N /\ r(j) \in 1..N /\ r(i) < r(j)
        /\ Outside(r(i), f, l) /\ Outside(r(j), f, l)
    BY <1>1 DEF Rotated, Outside
  <2> HIDE DEF r
  <2>2. \E k, m \in 1..N : k < m /\ g[k] = a[r(i)] /\ g[m] = a[r(j)]
    BY <2>1 DEF InOrder
  <2>3. c[i] = a[r(i)] /\ c[j] = a[r(j)]
    BY DEF r
  <2>4. QED
    BY <2>2, <2>3
<1>2. QED
  BY <1>1 DEF InOrder

LEMMA Appended ==
  ASSUME NEW s, IsSeq(s), NEW e
  PROVE  /\ IsSeq(Append(s, e)) /\ Len(s) \in Nat /\ DOMAIN s = 1..Len(s)
         /\ Len(Append(s, e)) = Len(s) + 1 /\ DOMAIN Append(s, e) = 1..Len(s) + 1
         /\ Append(s, e)[Len(s) + 1] = e
         /\ \A i \in 1..Len(s) : Append(s, e)[i] = s[i]
<1>1. PICK S : s \in Seq(S)
  BY DEF IsSeq
<1> DEFINE T == S \cup {e}
<1>2. s \in Seq(T) /\ e \in T
  BY <1>1
<1> HIDE DEF T
<1>3. Append(s, e) \in Seq(T)
  BY <1>2
<1>4. QED
  BY <1>2, <1>3 DEF IsSeq

(* No option is told as the end, and an option's argument is in the argument*)
(* at optind or in the next one.                                            *)
LEMMA LeastOf ==
  ASSUME NEW S, S \subseteq Nat, S # {}
  PROVE  LET n == CHOOSE i \in S : \A j \in S : i <= j IN n \in S
<1> DEFINE R == OpToRel(<, Nat)
<1>1. R = {ss \in Nat \X Nat : ss[1] < ss[2]}
  BY DEF OpToRel
<1>2. IsWellFoundedOn(R, Nat)
  BY NatLessThanWellFounded
<1> HIDE DEF R
<1>3. PICK x \in S : \A y \in S : ~(<<y, x>> \in R)
  BY <1>2, WFMin
<1>4. \A j \in S : x <= j
  <2>1. \A j \in S : ~(j < x)
    BY <1>1, <1>3
  <2>2. QED
    BY <1>3, <2>1
<1>5. QED
  BY <1>3, <1>4

LEMMA LongOptionFound ==
  ASSUME NEW f, NEW name
  PROVE  LongOption(f, name) \in DOMAIN LongOptions \cup {NotFound, Ambiguous}
<1> DEFINE matches == {i \in DOMAIN LongOptions : IsPrefix(name, LongOptions[i].name)}
           exact == {i \in matches : LongOptions[i].name = name}
           FirstOf(S) == CHOOSE i \in S : \A j \in S : i <= j
<1>1. DOMAIN LongOptions \subseteq Nat
  BY OptionsAssumption
<1>2. ASSUME NEW S, S \subseteq DOMAIN LongOptions, S # {} PROVE FirstOf(S) \in DOMAIN LongOptions
  <2>1. S \subseteq Nat
    BY <1>1, <1>2
  <2>2. FirstOf(S) \in S
    BY <1>2, <2>1, LeastOf
  <2>3. QED
    BY <1>2, <2>2
<1>3. exact # {} => FirstOf(exact) \in DOMAIN LongOptions
  <2>1. exact \subseteq DOMAIN LongOptions
    OBVIOUS
  <2> HIDE DEF exact, FirstOf
  <2>2. QED
    BY <1>2, <2>1
<1>4. matches # {} => FirstOf(matches) \in DOMAIN LongOptions
  <2>1. matches \subseteq DOMAIN LongOptions
    OBVIOUS
  <2> HIDE DEF matches, FirstOf
  <2>2. QED
    BY <1>2, <2>1
<1>5. QED
  BY <1>3, <1>4 DEF LongOption

IsAnswer(r, i, end) ==
  /\ r.option # "end"
  /\ r.arg # NoArg => r.arg[1] \in i..end - 1

LEMMA TakesNextAnswers ==
  ASSUME NEW o, o # "end", NEW i \in Nat, NEW end \in Nat, i < end
  PROVE  IsAnswer(TakesNext(o, i, end), i, end)
BY DEF IsAnswer, TakesNext, Result, Unknown, NoArg

LEMMA OptionAtAnswers ==
  ASSUME NEW f, NEW a \in ArgumentType, NEW i \in Nat, NEW end \in Nat, i < end, NEW k
  PROVE  IsAnswer(OptionAt(f, a, i, k, end), i, end)
<1>1. \A o, n, m : o # "end" => IsAnswer(Result(o, NoArg, n, m), i, end)
  BY DEF IsAnswer, Result
<1>2. \A o, p, n, m : o # "end" => IsAnswer(Result(o, <<i, p>>, n, m), i, end)
  BY DEF IsAnswer, Result, NoArg
<1>3. \A o : o # "end" => IsAnswer(TakesNext(o, i, end), i, end)
  BY TakesNextAnswers
<1>4. Unknown # "end"
  BY DEF Unknown
<1>5. \A letters : IsAnswer(ShortResult(letters, i, k, end), i, end)
  <2> TAKE letters
  <2>1. letters[k] \in DOMAIN ShortOptions => letters[k] # "end"
    BY OptionsAssumption
  <2>2. QED
    BY <1>1, <1>2, <1>3, <1>4, <2>1 DEF ShortResult
<1>6. ASSUME NEW found \in DOMAIN LongOptions \cup {NotFound, Ambiguous}
      PROVE  IsAnswer(LongResult(found, a, i, end), i, end)
  <2>1. found \notin {NotFound, Ambiguous} => LongOptions[found].val # "end"
    BY OptionsAssumption
  <2>2. QED
    BY <1>1, <1>2, <1>3, <1>4, <2>1 DEF LongResult
<1>7. QED
  BY <1>5, <1>6, LongOptionFound DEF OptionAt

(* What the invariant says, in one place.                                   *)
LEMMA Facts ==
  ASSUME RInv
  PROVE  /\ IInv /\ Size \in Nat /\ argc = Size + 1 /\ Len(line) = Size
         /\ given \in [1..Size -> 1..Size] /\ Onto(Size, given)
         /\ IsSeq(returned) /\ Len(returned) \in Nat /\ DOMAIN returned = 1..Len(returned)
         /\ ordering \in {"PERMUTE", "REQUIRE_ORDER", "RETURN_IN_ORDER"}
<1>1. IsSeq(returned) /\ Len(returned) \in Nat /\ DOMAIN returned = 1..Len(returned)
  BY Appended DEF RInv, ToldInv
<1>2. ordering \in {"PERMUTE", "REQUIRE_ORDER", "RETURN_IN_ORDER"}
  BY OrderingsAssumption DEF RInv, ModeInv
<1>3. QED
  BY <1>1, <1>2, Ranges DEF RInv, OrderInv, Onto

LEMMA InitRInv == Init => RInv
<1> SUFFICES ASSUME Init PROVE RInv
  OBVIOUS
<1>1. IInv
  BY InitIInv
<1>2. Onto(Size, argv) /\ given = argv
  BY <1>1 DEF Init, IInv
<1>3. OrderInv
  BY <1>2 DEF Init, OrderInv, Fresh
<1>4. ModeInv
  BY DEF Init, ModeInv
<1>5. ToldInv
  <2>1. returned \in Seq({})
    BY DEF Init
  <2>2. QED
    BY <2>1 DEF Init, ToldInv, IsSeq
<1>6. QED
  BY <1>1, <1>3, <1>4, <1>5 DEF RInv

(* Calls that return nothing.                                               *)
LEMMA NothingTold ==
  ASSUME RInv, pc # "done", pc' # "done", returned' = returned
  PROVE  ToldInv'
BY DEF RInv, ToldInv

(* The end of a scan.                                                       *)
LEMMA EndTold ==
  ASSUME RInv, pc # "done", NEW index, Ends(index)
  PROVE  ToldInv'
<1>1. returned' = Append(returned, Answer("end", NoArg, In(From(index, argc))))
  BY DEF Ends, Returns
<1>2. IsSeq(returned') /\ returned' # <<>>
      /\ Latest(returned') = Answer("end", NoArg, In(From(index, argc)))
  <2>1. IsSeq(returned) /\ Len(returned) \in Nat
    BY Facts
  <2>2. /\ IsSeq(returned') /\ Len(returned') = Len(returned) + 1
        /\ returned'[Len(returned) + 1] = Answer("end", NoArg, In(From(index, argc)))
    BY <1>1, <2>1, Appended
  <2>3. returned' # <<>>
    BY <2>1, <2>2
  <2>4. QED
    BY <2>2, <2>3 DEF Latest
<1>3. In(From(optind, argc))' = In(From(index, argc))
  BY DEF Ends, In, From, argc, setting
<1>4. pc' = "done"
  BY DEF Ends
<1>5. QED
  BY <1>2, <1>3, <1>4 DEF ToldInv, IsSeq, Latest, Answer

(* A scan step that returns an option or a word.                            *)
LEMMA AnswerTold ==
  ASSUME RInv, pc # "done", pc' # "done", NEW option, option # "end", NEW arg,
         Returns(option, arg, <<>>)
  PROVE  ToldInv'
<1> DEFINE e == Answer(option, arg, <<>>)
<1>1. returned' = Append(returned, e) /\ e.option # "end"
  BY DEF Returns, Answer
<1> HIDE DEF e
<1>2. /\ IsSeq(returned) /\ Len(returned) \in Nat /\ DOMAIN returned = 1..Len(returned)
      /\ \A i \in 1..Len(returned) : returned[i].option # "end"
  BY Facts DEF RInv, ToldInv
<1>3. /\ IsSeq(returned') /\ DOMAIN returned' = 1..Len(returned) + 1
      /\ returned'[Len(returned) + 1] = e
      /\ \A i \in 1..Len(returned) : returned'[i] = returned[i]
  BY <1>1, <1>2, Appended
<1>4. ASSUME NEW i \in DOMAIN returned' PROVE returned'[i].option # "end"
  <2>1. CASE i \in 1..Len(returned)
    BY <1>2, <1>3, <2>1
  <2>2. CASE i = Len(returned) + 1
    BY <1>1, <1>3, <2>2
  <2>3. QED
    BY <1>2, <1>3, <2>1, <2>2
<1>5. QED
  BY <1>3, <1>4 DEF ToldInv, IsSeq

-----------------------------------------------------------------------------
(* The invariant of the refinement through every step.                      *)

LEMMA NextLetterR == RInv /\ NextLetter => RInv'
<1> SUFFICES ASSUME RInv, NextLetter PROVE RInv'
  OBVIOUS
<1>1. /\ pc = "host" /\ pc' = "option" /\ nextchar # Null /\ argv' = argv /\ aside' = aside
      /\ Size' = Size /\ given' = given /\ first_nonopt' = first_nonopt
      /\ last_nonopt' = last_nonopt /\ ordering' = ordering /\ returned' = returned
  BY DEF NextLetter, setting, indexes, history, Size
<1>2. IInv'
  BY NextLetterStep DEF RInv
<1>3. OrderInv'
  BY <1>1 DEF RInv, OrderInv, Fresh, Ordered, Onto
<1>4. ModeInv'
  BY <1>1 DEF RInv, ModeInv
<1>5. ToldInv'
  BY <1>1, NothingTold
<1>6. QED
  BY <1>2, <1>3, <1>4, <1>5 DEF RInv

LEMMA NextArgumentR == RInv /\ NextArgument => RInv'
<1> SUFFICES ASSUME RInv, NextArgument PROVE RInv'
  OBVIOUS
<1>1. /\ pc = "host" /\ pc' = (IF ordering = "PERMUTE" THEN "permute" ELSE "dashes")
      /\ argv' = argv /\ aside' = aside
      /\ Size' = Size /\ given' = given /\ first_nonopt' = Lower(first_nonopt, optind)
      /\ last_nonopt' = Lower(last_nonopt, optind) /\ ordering' = ordering
      /\ returned' = returned
  BY DEF NextArgument, setting, history, Size
<1>2. IInv'
  BY NextArgumentStep DEF RInv
<1>3. Ordered(first_nonopt, last_nonopt)'
  <2>1. CASE Between /\ Ordered(first_nonopt, last_nonopt)
    <3>1. first_nonopt' = first_nonopt /\ last_nonopt' = last_nonopt
      BY <1>1, <2>1, Facts, Ranges DEF Between, Lower
    <3>2. QED
      BY <1>1, <2>1, <3>1 DEF Ordered
  <2>2. CASE Fresh
    BY <1>1, <2>2, Facts, GivenInOrder DEF Fresh, Ordered
  <2>3. QED
    BY <1>1, <2>1, <2>2 DEF RInv, OrderInv
<1>4. OrderInv'
  BY <1>1, <1>3 DEF RInv, OrderInv, Onto
<1>5. ModeInv'
  BY <1>1 DEF RInv, ModeInv
<1>6. ToldInv'
  BY <1>1, NothingTold
<1>7. QED
  BY <1>2, <1>4, <1>5, <1>6 DEF RInv

LEMMA PermuteR == RInv /\ Permute => RInv'
<1> SUFFICES ASSUME RInv, Permute PROVE RInv'
  OBVIOUS
<1>1. /\ pc = "permute" /\ argv' = argv /\ aside' = aside /\ optind' = optind
      /\ Size' = Size /\ given' = given /\ ordering' = ordering
      /\ last_nonopt' = last_nonopt /\ returned' = returned
      /\ \/ /\ pc' = "exchange" /\ first_nonopt' = first_nonopt
            /\ block' = [bottom |-> first_nonopt, middle |-> last_nonopt, top |-> optind,
                         after |-> "skip"]
         \/ /\ pc' = "skip" /\ (first_nonopt = last_nonopt \/ last_nonopt = optind)
            /\ first_nonopt' = IF last_nonopt # optind THEN optind ELSE first_nonopt
  BY DEF Permute, Exchange, setting, history, Size
<1>2. IInv' /\ Between /\ Ordered(first_nonopt, last_nonopt) /\ ordering = "PERMUTE"
  BY <1>1, PermuteStep DEF RInv, IInv, WordsInv, OrderInv, ModeInv
<1>3. OrderInv'
  <2>1. CASE pc' = "exchange"
    <3>1. /\ first_nonopt' = first_nonopt
          /\ block' = [bottom |-> first_nonopt, middle |-> last_nonopt, top |-> optind,
                       after |-> "skip"]
      BY <1>1, <2>1
    <3>2. \A k \in 1..Size :
            Target'[k] = argv[Rotated(first_nonopt, last_nonopt - first_nonopt,
                                      optind - last_nonopt, k)]
      BY <1>1, <3>1 DEF Target, Source
    <3>3. /\ first_nonopt \in Nat /\ last_nonopt \in Nat /\ optind \in Nat /\ 1 <= first_nonopt
          /\ first_nonopt <= last_nonopt /\ last_nonopt <= optind /\ optind <= Size + 1
          /\ optind <= optind
          /\ first_nonopt + (optind - last_nonopt) + Len(aside) = optind
      BY <1>2, Facts, Ranges DEF Between
    <3>4. InOrder(Size, given, Target', first_nonopt + (optind - last_nonopt), optind)
      <4> DEFINE c == Target'
      <4>1. \A k \in 1..Size : c[k] = argv[Rotated(first_nonopt, last_nonopt - first_nonopt,
                                                    optind - last_nonopt, k)]
        BY <3>2
      <4>2. Size \in Nat /\ InOrder(Size, given, argv, first_nonopt, last_nonopt)
        BY <1>2, Facts DEF Ordered
      <4> HIDE DEF c
      <4>3. InOrder(Size, given, c, first_nonopt + (optind - last_nonopt), optind)
        BY <3>3, <4>1, <4>2, RotatedInOrder
      <4>4. QED
        BY <4>3 DEF c
    <3>5. QED
      BY <1>1, <2>1, <3>1, <3>3, <3>4 DEF RInv, OrderInv, Onto
  <2>2. CASE pc' = "skip"
    <3>1. \A i \in 1..Size : Outside(i, first_nonopt', optind)
                               => Outside(i, first_nonopt, last_nonopt)
      BY <1>1, <1>2, <2>2, Facts, Ranges DEF Between, Outside
    <3>2. Ordered(first_nonopt, optind)'
      BY <1>1, <1>2, <3>1, Facts, InOrderInside DEF Ordered
    <3>3. QED
      BY <1>1, <2>2, <3>2 DEF RInv, OrderInv, Onto
  <2>3. QED
    BY <1>1, <2>1, <2>2
<1>4. ModeInv'
  BY <1>1, <1>2 DEF RInv, ModeInv
<1>5. ToldInv'
  BY <1>1, NothingTold
<1>6. QED
  BY <1>2, <1>3, <1>4, <1>5 DEF RInv

LEMMA ExchangeRoundR == RInv /\ ExchangeRound => RInv'
<1> SUFFICES ASSUME RInv, ExchangeRound PROVE RInv'
  OBVIOUS
<1>1. /\ pc = "exchange" /\ pc' = "exchange" /\ optind' = optind /\ aside' = aside
      /\ Size' = Size /\ given' = given /\ ordering' = ordering /\ returned' = returned
      /\ first_nonopt' = first_nonopt /\ last_nonopt' = last_nonopt
  BY DEF ExchangeRound, setting, indexes, history, Size
<1>2. IInv' /\ IInv
  BY ExchangeRoundStep DEF RInv
<1>3. BlockOK /\ Onto(Size, argv)
  BY <1>1, <1>2, Facts, Ranges DEF IInv, TypeOK, Types, BlockOK
<1>4. /\ block'.after = block.after
      /\ \A k \in 1..Size : argv'[Source(block', k)] = argv[Source(block, k)]
  BY <1>3, Facts, RoundRotates
<1>5. Target' = Target
  BY <1>1, <1>4 DEF Target, Source
<1>6. OrderInv'
  BY <1>1, <1>5 DEF RInv, OrderInv, Onto
<1>7. ModeInv'
  BY <1>1, <1>4 DEF RInv, ModeInv
<1>8. ToldInv'
  BY <1>1, NothingTold
<1>9. QED
  BY <1>2, <1>6, <1>7, <1>8 DEF RInv

LEMMA ExchangedR == RInv /\ Exchanged => RInv'
<1> SUFFICES ASSUME RInv, Exchanged PROVE RInv'
  OBVIOUS
<1> DEFINE f == first_nonopt + (optind - last_nonopt)
<1>1. /\ pc = "exchange" /\ pc' = block.after /\ optind' = optind /\ aside' = aside
      /\ argv' = argv /\ argc' = argc
      /\ Size' = Size /\ given' = given /\ ordering' = ordering /\ returned' = returned
      /\ first_nonopt' = f /\ last_nonopt' = optind
  BY DEF Exchanged, setting, history, Size, argc
<1>2. IInv' /\ IInv
  BY ExchangedStep DEF RInv
<1>3. /\ block.bottom \in Nat /\ block.middle \in Nat /\ block.top \in Nat
      /\ block.bottom <= block.middle /\ block.middle <= block.top
      /\ block.after \in {"skip", "rest"}
      /\ block.bottom = block.middle \/ block.middle = block.top
  BY <1>1, <1>2 DEF IInv, TypeOK, Types, Exchanged
<1>4. \A k \in Int : Source(block, k) = k
  BY <1>3, NothingToRotate DEF Source
<1>5. Target = argv
  <2>1. argv \in [1..Size -> 1..Size]
    BY <1>2, Ranges
  <2>2. QED
    BY <1>4, <2>1 DEF Target
<1>6. f + Len(aside) = IF block.after = "rest" THEN argc ELSE optind
  BY <1>1, <1>2 DEF IInv, WordsInv
<1>7. InOrder(Size, given, argv, f, f + Len(aside))
  BY <1>1, <1>5 DEF RInv, OrderInv
<1>8. OrderInv'
  BY <1>1, <1>3, <1>6, <1>7 DEF RInv, OrderInv, Ordered, Onto
<1>9. ModeInv'
  BY <1>1, <1>3 DEF RInv, ModeInv
<1>10. ToldInv'
  BY <1>1, <1>3, NothingTold
<1>11. QED
  BY <1>2, <1>8, <1>9, <1>10 DEF RInv
LEMMA SkipWordR == RInv /\ SkipWord => RInv'
<1> SUFFICES ASSUME RInv, SkipWord PROVE RInv'
  OBVIOUS
<1>1. /\ pc = "skip" /\ pc' = "skip" /\ optind' = optind + 1 /\ argv' = argv
      /\ Size' = Size /\ given' = given /\ ordering' = ordering /\ returned' = returned
      /\ first_nonopt' = first_nonopt
  BY DEF SkipWord, setting, Size
<1>2. IInv'
  BY SkipWordStep DEF RInv
<1>3. OrderInv'
  <2>1. \A i \in 1..Size : Outside(i, first_nonopt, optind + 1) => Outside(i, first_nonopt, optind)
    BY Facts, Ranges DEF Outside
  <2>2. InOrder(Size, given, argv, first_nonopt, optind + 1)
    BY <1>1, <2>1, Facts, InOrderInside DEF RInv, OrderInv, Ordered
  <2>3. QED
    BY <1>1, <2>2 DEF RInv, OrderInv, Ordered, Onto
<1>4. ModeInv'
  BY <1>1 DEF RInv, ModeInv
<1>5. ToldInv'
  BY <1>1, NothingTold
<1>6. QED
  BY <1>2, <1>3, <1>4, <1>5 DEF RInv

LEMMA SkipEndsR == RInv /\ SkipEnds => RInv'
<1> SUFFICES ASSUME RInv, SkipEnds PROVE RInv'
  OBVIOUS
<1>1. /\ pc = "skip" /\ pc' = "dashes" /\ optind' = optind /\ argv' = argv /\ line' = line
      /\ Size' = Size /\ argc' = argc
      /\ given' = given /\ ordering' = ordering /\ returned' = returned
      /\ first_nonopt' = first_nonopt /\ last_nonopt' = optind
      /\ optind # argc => ~IsWord(optind)
  BY DEF SkipEnds, setting, history, Size, argc
<1>2. IInv'
  BY SkipEndsStep DEF RInv
<1>3. OrderInv'
  BY <1>1 DEF RInv, OrderInv, Ordered, Onto
<1>4. ModeInv'
  BY <1>1 DEF RInv, ModeInv, IsWord, At
<1>5. ToldInv'
  BY <1>1, NothingTold
<1>6. QED
  BY <1>2, <1>3, <1>4, <1>5 DEF RInv

LEMMA DashesSeenR == RInv /\ DashesSeen => RInv'
<1> SUFFICES ASSUME RInv, DashesSeen PROVE RInv'
  OBVIOUS
<1>1. /\ pc = "dashes" /\ optind' = optind + 1 /\ argv' = argv
      /\ Size' = Size /\ argc' = argc
      /\ given' = given /\ ordering' = ordering /\ returned' = returned
      /\ last_nonopt' = last_nonopt /\ optind # argc
      /\ \/ /\ pc' = "exchange" /\ first_nonopt' = first_nonopt
            /\ block' = [bottom |-> first_nonopt, middle |-> last_nonopt, top |-> optind + 1,
                         after |-> "rest"]
         \/ /\ pc' = "rest" /\ (first_nonopt = last_nonopt \/ last_nonopt = optind + 1)
            /\ first_nonopt' = IF first_nonopt = last_nonopt THEN optind + 1 ELSE first_nonopt
  BY DEF DashesSeen, AtDashes, Exchange, setting, Size, argc
<1>2. IInv' /\ Between /\ Ordered(first_nonopt, last_nonopt)
  BY <1>1, DashesSeenStep DEF RInv, IInv, WordsInv, OrderInv
<1>3. /\ first_nonopt \in Nat /\ last_nonopt \in Nat /\ optind \in Nat /\ 1 <= first_nonopt
      /\ first_nonopt <= last_nonopt /\ last_nonopt <= optind /\ optind + 1 <= argc
      /\ argc = Size + 1 /\ Size \in Nat
  BY <1>1, <1>2, Facts, Ranges DEF Between
<1>4. OrderInv'
  <2>1. CASE pc' = "exchange"
    <3> DEFINE c == Target'
               t == optind + 1
               f == first_nonopt + (t - last_nonopt)
    <3>1. /\ first_nonopt' = first_nonopt
          /\ block'.bottom = first_nonopt /\ block'.middle = last_nonopt
          /\ block'.top = t /\ block'.after = "rest"
      BY <1>1, <2>1
    <3>2. first_nonopt' + (optind' - last_nonopt') = f
      BY <1>1, <3>1
    <3>3. t \in Nat /\ last_nonopt <= t /\ t <= argc /\ argc \in Nat /\ argc <= Size + 1
      BY <1>3
    <3>4. f + Len(aside)' = argc
      <4>1. block'.after = "rest" /\ pc' = "exchange"
        BY <2>1, <3>1
      <4>2. first_nonopt' + (optind' - last_nonopt') + Len(aside)' = argc'
        BY <1>2, <4>1 DEF IInv, WordsInv
      <4>3. QED
        BY <1>1, <3>2, <4>2
    <3>5. \A k \in 1..Size : c[k] = argv[Rotated(first_nonopt, last_nonopt - first_nonopt,
                                                  t - last_nonopt, k)]
      BY <1>1, <3>1 DEF Target, Source
    <3>6. InOrder(Size, given, argv, first_nonopt, last_nonopt)
      BY <1>2 DEF Ordered
    <3> HIDE DEF c, t
    <3>7. InOrder(Size, given, c, first_nonopt + (t - last_nonopt), argc)
      BY <1>3, <3>3, <3>5, <3>6, RotatedInOrder
    <3>8. InOrder(Size, given, c, f, f + Len(aside)')
      BY <3>4, <3>7
    <3>9. QED
      BY <1>1, <2>1, <3>2, <3>8 DEF RInv, OrderInv, Onto, c
  <2>2. CASE pc' = "rest"
    <3>1. first_nonopt = last_nonopt /\ first_nonopt' = optind + 1
      BY <1>1, <1>3, <2>2
    <3>2. \A i \in 1..Size : Outside(i, optind + 1, argc) => Outside(i, first_nonopt, last_nonopt)
      BY <1>3, <3>1 DEF Outside
    <3>3. InOrder(Size, given, argv, optind + 1, argc)
      BY <1>2, <1>3, <3>2, InOrderInside DEF Ordered
    <3>4. QED
      BY <1>1, <2>2, <3>1, <3>3 DEF RInv, OrderInv, Ordered, Onto
  <2>3. QED
    BY <1>1, <2>1, <2>2
<1>5. ModeInv'
  BY <1>1 DEF RInv, ModeInv
<1>6. ToldInv'
  BY <1>1, NothingTold
<1>7. QED
  BY <1>2, <1>4, <1>5, <1>6 DEF RInv

LEMMA RestAreWordsR == RInv /\ RestAreWords => RInv'
<1> SUFFICES ASSUME RInv, RestAreWords PROVE RInv'
  OBVIOUS
<1>1. /\ pc = "rest" /\ pc' = "end" /\ optind' = argc /\ argv' = argv /\ aside' = aside
      /\ Size' = Size /\ argc' = argc
      /\ given' = given /\ ordering' = ordering /\ returned' = returned
      /\ last_nonopt' = argc /\ first_nonopt' = first_nonopt
  BY DEF RestAreWords, setting, history, Size, argc
<1>2. IInv' /\ first_nonopt + Len(aside) = argc /\ Held(first_nonopt)
      /\ Ordered(first_nonopt, argc)
  BY <1>1, RestAreWordsStep DEF RInv, IInv, WordsInv, OrderInv
<1>3. OrderInv'
  <2>1. Operands' = first_nonopt
    BY <1>1 DEF Operands
  <2>2. QED
    BY <1>1, <1>2, <2>1 DEF RInv, OrderInv, Ordered, Onto
<1>4. ModeInv'
  BY <1>1, <1>2 DEF RInv, ModeInv, Held
<1>5. ToldInv'
  BY <1>1, NothingTold
<1>6. QED
  BY <1>2, <1>3, <1>4, <1>5 DEF RInv

LEMMA ScanEndsR == RInv /\ ScanEnds => RInv'
<1> SUFFICES ASSUME RInv, ScanEnds PROVE RInv'
  OBVIOUS
<1>1. IInv'
  BY ScanEndsStep DEF RInv
<1>2. CASE pc = "dashes"
  <2>1. /\ pc' = "end" /\ optind = argc /\ optind' = optind /\ argv' = argv /\ aside' = aside
        /\ Size' = Size /\ argc' = argc
        /\ given' = given /\ ordering' = ordering /\ returned' = returned
        /\ last_nonopt' = last_nonopt /\ first_nonopt' = first_nonopt
    BY <1>2 DEF ScanEnds, setting, indexes, history, Size, argc
  <2>2. /\ Between /\ Ordered(first_nonopt, last_nonopt)
        /\ ordering = "PERMUTE" => last_nonopt = optind
        /\ ordering # "PERMUTE" => aside = <<>>
    BY <1>2 DEF RInv, IInv, WordsInv, OrderInv, ModeInv
  <2>3. OrderInv'
    <3>1. \A i \in 1..Size : Outside(i, Operands, argc) => Outside(i, first_nonopt, last_nonopt)
      BY <2>1, <2>2, Facts, Ranges DEF Between, Outside, Operands
    <3>2. InOrder(Size, given, argv, Operands, argc)
      BY <2>2, <3>1, Facts, InOrderInside DEF Ordered
    <3>3. Operands' = Operands
      BY <2>1 DEF Operands
    <3>4. QED
      BY <2>1, <3>2, <3>3 DEF RInv, OrderInv, Ordered, Onto
  <2>4. ModeInv'
    <3>1. CASE ordering = "PERMUTE"
      <4>1. last_nonopt = argc /\ first_nonopt + Len(aside) = argc /\ Held(first_nonopt)
        BY <2>1, <2>2, <3>1, Facts, Ranges DEF Between
      <4>2. QED
        BY <2>1, <4>1 DEF RInv, ModeInv, Held
    <3>2. CASE ordering # "PERMUTE"
      <4>1. aside = <<>> /\ Len(aside) = 0
        BY <2>2, <3>2
      <4>2. first_nonopt = last_nonopt
        BY <2>2, <4>1, Facts, Ranges DEF Between
      <4>3. QED
        BY <2>1, <4>1, <4>2 DEF RInv, ModeInv
    <3>3. QED
      BY <3>1, <3>2
  <2>5. ToldInv'
    BY <1>2, <2>1, NothingTold
  <2>6. QED
    BY <1>1, <2>3, <2>4, <2>5 DEF RInv
<1>3. CASE pc = "end"
  <2>1. Ends(Operands)
    BY <1>3 DEF ScanEnds, Operands
  <2>2. /\ pc' = "done" /\ optind' = Operands /\ argv' = argv
        /\ Size' = Size /\ argc' = argc /\ given' = given /\ ordering' = ordering
    BY <2>1 DEF Ends, setting, Size, argc
  <2>3. OrderInv'
    BY <1>3, <2>2 DEF RInv, OrderInv, Ordered, Onto
  <2>4. ModeInv'
    BY <2>2 DEF RInv, ModeInv
  <2>5. ToldInv'
    BY <1>3, <2>1, EndTold
  <2>6. QED
    BY <1>1, <2>3, <2>4, <2>5 DEF RInv
<1>4. QED
  BY <1>2, <1>3 DEF ScanEnds

LEMMA WordMetR == RInv /\ WordMet => RInv'
<1> SUFFICES ASSUME RInv, WordMet PROVE RInv'
  OBVIOUS
<1>1. IInv' /\ pc = "dashes" /\ Between /\ Ordered(first_nonopt, last_nonopt)
      /\ ordering # "PERMUTE" /\ aside = <<>>
  BY WordMetStep DEF RInv, WordMet, IInv, WordsInv, OrderInv, ModeInv
<1>2. /\ Size' = Size /\ given' = given /\ ordering' = ordering /\ argv' = argv /\ aside' = aside
      /\ argc' = argc /\ first_nonopt' = first_nonopt /\ last_nonopt' = last_nonopt
  BY DEF WordMet, Ends, setting, Size, argc
<1>3. CASE ordering = "REQUIRE_ORDER"
  <2>1. Ends(optind)
    BY <1>3 DEF WordMet
  <2>2. pc' = "done" /\ optind' = optind
    BY <2>1 DEF Ends
  <2>3. InOrder(Size, given, argv, optind, argc)
    <3>1. Len(aside) = 0
      BY <1>1
    <3>2. \A i \in 1..Size : Outside(i, optind, argc) => Outside(i, first_nonopt, last_nonopt)
      BY <1>1, <3>1, Facts, Ranges DEF Between, Outside
    <3>3. QED
      BY <1>1, <3>2, Facts, InOrderInside DEF Ordered
  <2>4. OrderInv'
    BY <1>2, <2>2, <2>3 DEF RInv, OrderInv, Ordered, Onto
  <2>5. ModeInv'
    BY <1>2, <2>2 DEF RInv, ModeInv
  <2>6. ToldInv'
    BY <1>1, <2>1, EndTold
  <2>7. QED
    BY <1>1, <2>4, <2>5, <2>6 DEF RInv
<1>4. CASE ordering # "REQUIRE_ORDER"
  <2>1. pc' = "host" /\ Returns("word", <<argv[optind], 0>>, <<>>) /\ optind' = optind + 1
    BY <1>4 DEF WordMet
  <2>2. Between' /\ Ordered(first_nonopt, last_nonopt)'
    BY <1>1, <1>2, <2>1, Facts, Ranges DEF Between, Held, Ordered
  <2>3. OrderInv'
    BY <1>2, <2>1, <2>2 DEF RInv, OrderInv, Onto
  <2>4. ModeInv'
    BY <1>1, <1>2, <2>1 DEF RInv, ModeInv
  <2>5. ToldInv'
    BY <1>1, <2>1, AnswerTold
  <2>6. QED
    BY <1>1, <2>3, <2>4, <2>5 DEF RInv
<1>5. QED
  BY <1>3, <1>4

LEMMA OptionMetR == RInv /\ OptionMet => RInv'
<1> SUFFICES ASSUME RInv, OptionMet PROVE RInv'
  OBVIOUS
<1>1. /\ pc = "dashes" /\ pc' = "option" /\ optind' = optind /\ argv' = argv /\ aside' = aside
      /\ Size' = Size /\ given' = given /\ ordering' = ordering /\ returned' = returned
      /\ last_nonopt' = last_nonopt /\ first_nonopt' = first_nonopt
  BY DEF OptionMet, setting, history, Size
<1>2. IInv'
  BY OptionMetStep DEF RInv
<1>3. OrderInv' /\ ModeInv'
  BY <1>1 DEF RInv, OrderInv, ModeInv, Ordered, Onto
<1>4. ToldInv'
  BY <1>1, NothingTold
<1>5. QED
  BY <1>2, <1>3, <1>4 DEF RInv

LEMMA OptionReadR == RInv /\ OptionRead => RInv'
<1> SUFFICES ASSUME RInv, OptionRead PROVE RInv'
  OBVIOUS
<1>1. /\ pc = "option" /\ pc' = "host" /\ argv' = argv /\ aside' = aside
      /\ Size' = Size /\ given' = given /\ ordering' = ordering
      /\ last_nonopt' = last_nonopt /\ first_nonopt' = first_nonopt
  BY DEF OptionRead, setting, Size
<1> DEFINE r == OptionAt(function, At(optind), optind, nextchar, argc)
<1>2. IInv' /\ Between /\ Ordered(first_nonopt, last_nonopt)
      /\ (ordering # "PERMUTE" => aside = <<>>)
  BY <1>1, OptionReadStep DEF RInv, IInv, WordsInv, OrderInv, ModeInv
<1>3. /\ Returns(r.option, Placed(r.arg), <<>>)
      /\ optind' = r.optind
  BY DEF OptionRead
<1>4. IsAnswer(r, optind, argc) /\ optind' \in Nat /\ optind <= optind'
  <2>1. /\ optind \in Nat /\ argc \in Nat /\ optind < argc /\ At(optind) \in ArgumentType
        /\ nextchar \in 1..Len(Characters(function, At(optind)))
    <3>1. optind \in Nat /\ argc \in Nat
      BY Ranges DEF RInv
    <3>2. QED
      BY <1>1, <3>1, Facts, Ranges, SMTT(30) DEF RInv, IInv, Types, TypeOK
  <2>2. GoesOn(r, optind, Characters(function, At(optind)), argc)
    BY <2>1, OptionAtGoesOn
  <2>3. IsAnswer(r, optind, argc)
    BY <2>1, OptionAtAnswers
  <2> HIDE DEF r
  <2>4. QED
    BY <1>3, <2>1, <2>2, <2>3 DEF GoesOn
<1> HIDE DEF r
<1>5. Between' /\ Ordered(first_nonopt, last_nonopt)'
  <2>1. last_nonopt <= optind'
    BY <1>2, <1>4, Facts, Ranges DEF Between
  <2>2. QED
    BY <1>1, <1>2, <2>1 DEF Between, Held, Ordered
<1>6. OrderInv' /\ ModeInv'
  BY <1>1, <1>2, <1>5 DEF RInv, OrderInv, ModeInv, Onto
<1>7. ToldInv'
  BY <1>1, <1>3, <1>4, AnswerTold DEF IsAnswer
<1>8. QED
  BY <1>2, <1>6, <1>7 DEF RInv

LEMMA ScanAgainR == \A index \in {0, 1} : RInv /\ ScanAgain(index) => RInv'
<1> SUFFICES ASSUME NEW index \in {0, 1}, RInv, ScanAgain(index) PROVE RInv'
  OBVIOUS
<1>1. /\ pc = "done" /\ pc' = "host" /\ optind' = 1 /\ argv' = argv /\ aside' = <<>>
      /\ Size' = Size /\ given' = argv /\ ordering' = ordering /\ returned' = <<>>
  BY DEF ScanAgain, setting, Size
<1>2. IInv' /\ nextchar' = Null
  <2>1. IInv'
    BY ScanAgainStep DEF RInv
  <2>2. nextchar = Null
    BY <1>1 DEF RInv, IInv, Types
  <2>3. QED
    BY <2>1, <2>2 DEF ScanAgain
<1>3. OrderInv'
  <2>1. Onto(Size, argv)
    BY DEF RInv, IInv
  <2>2. QED
    BY <1>1, <1>2, <2>1 DEF OrderInv, Fresh, Onto
<1>4. ModeInv'
  BY <1>1 DEF RInv, ModeInv
<1>5. ToldInv'
  <2>1. returned' \in Seq({})
    BY <1>1
  <2>2. QED
    BY <1>1, <2>1 DEF ToldInv, IsSeq
<1>6. QED
  BY <1>2, <1>3, <1>4, <1>5 DEF RInv

LEMMA NextRInv == RInv /\ [Next]_vars => RInv'
<1> SUFFICES ASSUME RInv, [Next]_vars PROVE RInv'
  OBVIOUS
<1>1. CASE Scan
  BY <1>1, NextLetterR, NextArgumentR, PermuteR, ExchangeRoundR, ExchangedR, SkipWordR,
     SkipEndsR, DashesSeenR, RestAreWordsR, ScanEndsR, WordMetR, OptionMetR, OptionReadR
     DEF Scan
<1>2. CASE \E index \in {0, 1} : ScanAgain(index)
  BY <1>2, ScanAgainR
<1>3. CASE UNCHANGED vars
  <2>1. /\ line' = line /\ function' = function /\ ordering' = ordering /\ argv' = argv
        /\ optind' = optind /\ nextchar' = nextchar /\ first_nonopt' = first_nonopt
        /\ last_nonopt' = last_nonopt /\ pc' = pc /\ block' = block
        /\ given' = given /\ aside' = aside /\ returned' = returned
    BY <1>3 DEF vars, setting, indexes, history
  <2>2. IInv'
    BY <1>3, NextIInv DEF RInv
  <2>3. Size' = Size /\ argc' = argc
    BY <2>1 DEF Size, argc
  <2>4. OrderInv'
    BY <2>1, <2>3 DEF RInv, OrderInv, Onto, Ordered, Operands, Target, Source, Fresh,
                      Between, Held
  <2>5. ModeInv'
    BY <2>1, <2>3 DEF RInv, ModeInv, IsWord, At, Held
  <2>6. ToldInv'
    BY <2>1, <2>3 DEF RInv, ToldInv, In, From
  <2>7. QED
    BY <2>2, <2>4, <2>5, <2>6 DEF RInv
<1>4. QED
  BY <1>1, <1>2, <1>3 DEF Next

-----------------------------------------------------------------------------
(* Every step is one of the reader or none.                                 *)

Place == IF pc \in {"rest", "done"} \/ (pc = "exchange" /\ block.after = "rest")
         THEN argc ELSE optind
Reads == Reading!Next \/ UNCHANGED Reading!vars

(* The reader and the scan share what one argument says.                    *)
LEMMA SameText ==
  /\ Reading!Null = Null /\ Reading!NoArg = NoArg
  /\ \A f, a, i, k, end : Reading!OptionAt(f, a, i, k, end) = OptionAt(f, a, i, k, end)
<1>1. Reading!Null = Null /\ Reading!NoArg = NoArg
  BY DEF Reading!Null, Reading!NoArg, Null, NoArg
<1>2. \A o, g, i, n : Reading!Result(o, g, i, n) = Result(o, g, i, n)
  BY DEF Reading!Result, Result
<1>3. \A f, n : Reading!LongOption(f, n) = LongOption(f, n)
  BY DEF Reading!LongOption, LongOption, Reading!IsPrefix, IsPrefix, Reading!NotFound, NotFound,
         Reading!Ambiguous, Ambiguous
<1>4. \A f, a : Reading!Characters(f, a) = Characters(f, a)
  BY DEF Reading!Characters, Characters
<1>5. \A o, i, end : Reading!TakesNext(o, i, end) = TakesNext(o, i, end)
  BY <1>1, <1>2 DEF Reading!TakesNext, TakesNext, Reading!Unknown, Unknown
<1>6. \A found, a, i, end : Reading!LongResult(found, a, i, end) = LongResult(found, a, i, end)
  BY <1>1, <1>2, <1>5 DEF Reading!LongResult, LongResult, Reading!Unknown, Unknown,
     Reading!NotFound, NotFound, Reading!Ambiguous, Ambiguous
<1>7. \A letters, i, k, end :
        Reading!ShortResult(letters, i, k, end) = ShortResult(letters, i, k, end)
  BY <1>1, <1>2, <1>5 DEF Reading!ShortResult, ShortResult, Reading!Unknown, Unknown
<1>8. \A f, a : Reading!TriesName(f, a) = TriesName(f, a)
  BY DEF Reading!TriesName, TriesName
<1>9. \A f, a, i, k, end : Reading!OptionAt(f, a, i, k, end) = OptionAt(f, a, i, k, end)
  BY <1>3, <1>4, <1>6, <1>7, <1>8 DEF Reading!OptionAt, OptionAt, Reading!NotFound, NotFound
<1>10. QED
  BY <1>1, <1>9

LEMMA ReadsNothing ==
  ASSUME UNCHANGED <<setting, given, nextchar, aside, returned, scans, before>>, Place' = Place
  PROVE  Reads
<1>1. UNCHANGED Reading!vars
  BY DEF Reading!vars, Reading!setting, setting, Place, argc
<1>2. QED
  BY <1>1 DEF Reads

LEMMA NextLetterReads == NextLetter => Reads
<1> SUFFICES ASSUME NextLetter PROVE Reads
  OBVIOUS
<1>1. UNCHANGED <<setting, given, nextchar, aside, returned, scans, before>>
      /\ Place = optind /\ Place' = optind
  BY DEF NextLetter, Place, indexes, history
<1>2. QED
  BY <1>1, ReadsNothing

LEMMA NextArgumentReads == NextArgument => Reads
<1> SUFFICES ASSUME NextArgument PROVE Reads
  OBVIOUS
<1>1. UNCHANGED <<setting, given, nextchar, aside, returned, scans, before>>
      /\ Place = optind /\ Place' = optind
  BY DEF NextArgument, Place, history
<1>2. QED
  BY <1>1, ReadsNothing

LEMMA PermuteReads == Permute => Reads
<1> SUFFICES ASSUME Permute PROVE Reads
  OBVIOUS
<1>1. UNCHANGED <<setting, given, nextchar, aside, returned, scans, before>>
      /\ Place = optind /\ Place' = optind
  BY DEF Permute, Exchange, Place, history
<1>2. QED
  BY <1>1, ReadsNothing

LEMMA ExchangeRoundReads == RInv /\ ExchangeRound => Reads
<1> SUFFICES ASSUME RInv, ExchangeRound PROVE Reads
  OBVIOUS
<1>1. UNCHANGED <<setting, indexes, given, aside, returned, scans, before>>
      /\ pc = "exchange" /\ pc' = "exchange" /\ argc' = argc
  BY DEF ExchangeRound, setting, history, argc
<1>2. block'.after = block.after
  <2>1. BlockOK /\ Onto(Size, argv)
    BY <1>1, Facts, Ranges DEF RInv, IInv, TypeOK, Types, BlockOK
  <2>2. QED
    BY <2>1, Facts, RoundRotates
<1>3. UNCHANGED <<setting, given, nextchar, aside, returned, scans, before>> /\ Place' = Place
  BY <1>1, <1>2 DEF indexes, Place
<1>4. QED
  BY <1>3, ReadsNothing

LEMMA ExchangedReads == RInv /\ Exchanged => Reads
<1> SUFFICES ASSUME RInv, Exchanged PROVE Reads
  OBVIOUS
<1>1. block.after \in {"skip", "rest"} /\ argc' = argc
  BY DEF Exchanged, RInv, IInv, TypeOK, setting, argc
<1>2. UNCHANGED <<setting, given, nextchar, aside, returned, scans, before>> /\ Place' = Place
  BY <1>1 DEF Exchanged, Place, history
<1>3. QED
  BY <1>2, ReadsNothing

LEMMA SkipEndsReads == SkipEnds => Reads
<1> SUFFICES ASSUME SkipEnds PROVE Reads
  OBVIOUS
<1>1. UNCHANGED <<setting, given, nextchar, aside, returned, scans, before>>
      /\ Place = optind /\ Place' = optind
  BY DEF SkipEnds, Place, history
<1>2. QED
  BY <1>1, ReadsNothing

LEMMA RestAreWordsReads == RestAreWords => Reads
<1> SUFFICES ASSUME RestAreWords PROVE Reads
  OBVIOUS
<1>1. UNCHANGED <<setting, given, nextchar, aside, returned, scans, before>>
      /\ Place = argc /\ Place' = argc
  BY DEF RestAreWords, Place, history
<1>2. QED
  BY <1>1, ReadsNothing

(* What the reader sees at optind is what the scan sees there.              *)
LEMMA ReaderSees ==
  ASSUME RInv, pc # "done"
  PROVE  /\ Reading!Scanning /\ Reading!argc = argc
         /\ \A i \in optind..Size : given[i] = argv[i] /\ Reading!At(i) = At(i)
         /\ optind # argc => optind \in 1..Size /\ optind < argc
         /\ At(optind).kind = "word" <=> IsWord(optind)
<1>1. Reading!Scanning
  BY DEF RInv, ToldInv, Reading!Scanning
<1>2. \A i \in optind..Size : given[i] = argv[i]
  BY DEF RInv, IInv, Untouched
<1>3. QED
  BY <1>1, <1>2, Facts, Ranges DEF Reading!argc, Reading!At, At, argc, IsWord

LEMMA SkipWordReads == RInv /\ SkipWord => Reads
<1> SUFFICES ASSUME RInv, SkipWord PROVE Reads
  OBVIOUS
<1>1. /\ pc = "skip" /\ pc' = "skip" /\ nextchar = Null /\ ordering = "PERMUTE"
      /\ optind # argc /\ IsWord(optind)
      /\ optind' = optind + 1 /\ aside' = Append(aside, argv[optind])
      /\ UNCHANGED <<setting, given, nextchar, returned, scans, before>>
  BY DEF SkipWord, RInv, IInv, Types, ModeInv
<1>2. /\ Reading!Scanning /\ Reading!argc = argc /\ optind \in 1..Size /\ optind < argc
      /\ given[optind] = argv[optind] /\ Reading!Kind(optind) = "word"
  <2>1. Reading!Scanning /\ Reading!argc = argc /\ optind \in 1..Size /\ optind < argc
    BY <1>1, Facts, Ranges, ReaderSees
  <2>2. given[optind] = argv[optind] /\ Reading!At(optind) = At(optind)
    BY <1>1, <2>1, Facts, Ranges, ReaderSees
  <2>3. Reading!Kind(optind) = "word"
    BY <1>1, <2>2 DEF Reading!Kind, IsWord
  <2>4. QED
    BY <2>1, <2>2, <2>3
<1>3. Reading!SetAside
  BY <1>1, <1>2, SameText DEF Reading!SetAside, Reading!setting, setting
<1>4. QED
  BY <1>3 DEF Reads, Reading!Next

LEMMA OptionMetReads == RInv /\ OptionMet => Reads
<1> SUFFICES ASSUME RInv, OptionMet PROVE Reads
  OBVIOUS
<1>1. /\ pc = "dashes" /\ pc' = "option" /\ nextchar = Null /\ nextchar' = 1
      /\ optind # argc /\ ~IsWord(optind) /\ At(optind).kind # "dashes" /\ optind' = optind
      /\ UNCHANGED <<setting, given, aside, returned, scans, before>>
  BY DEF OptionMet, RInv, IInv, Types, AtDashes, history
<1>2. /\ Reading!Scanning /\ Reading!argc = argc /\ optind \in 1..Size /\ optind < argc
      /\ Reading!Kind(optind) \in {"short", "long"}
  <2>1. Reading!Scanning /\ Reading!argc = argc /\ optind \in 1..Size /\ optind < argc
        /\ Reading!At(optind) = At(optind)
    BY <1>1, Facts, Ranges, ReaderSees
  <2>2. At(optind).kind \in {"short", "long"}
    BY <1>1, <2>1, Facts, Ranges DEF IsWord, ArgumentType
  <2>3. QED
    BY <2>1, <2>2 DEF Reading!Kind
<1>3. Reading!BeginOption
  BY <1>1, <1>2, SameText DEF Reading!BeginOption, Reading!setting, setting
<1>4. QED
  BY <1>3 DEF Reads, Reading!Next

LEMMA OptionReadReads == RInv /\ OptionRead => Reads
<1> SUFFICES ASSUME RInv, OptionRead PROVE Reads
  OBVIOUS
<1> DEFINE r == OptionAt(function, At(optind), optind, nextchar, argc)
<1>1. /\ pc = "option" /\ pc' = "host" /\ nextchar # Null
      /\ Returns(r.option, Placed(r.arg), <<>>)
      /\ optind' = r.optind /\ nextchar' = r.nextchar
      /\ UNCHANGED <<setting, given, aside, scans, before>>
  BY DEF OptionRead, RInv, IInv, Types
<1>2. /\ optind \in 1..Size /\ optind < argc /\ At(optind) \in ArgumentType /\ argc \in Nat
  <2>1. optind < argc
    BY <1>1 DEF RInv, IInv, TypeOK
  <2>2. QED
    BY <2>1, Facts, Ranges
<1>3. /\ Reading!Scanning /\ Reading!argc = argc /\ Reading!At(optind) = At(optind)
      /\ \A i \in optind..Size : given[i] = argv[i]
  BY <1>1, <1>2, Facts, Ranges, ReaderSees
<1>4. IsAnswer(r, optind, argc)
  BY <1>2, OptionAtAnswers
<1> HIDE DEF r
<1>5. Placed(r.arg) = IF r.arg = NoArg THEN NoArg ELSE <<given[r.arg[1]], r.arg[2]>>
  <2>1. r.arg # NoArg => given[r.arg[1]] = argv[r.arg[1]]
    BY <1>2, <1>3, <1>4, Facts DEF IsAnswer
  <2>2. QED
    BY <2>1 DEF Placed
<1>6. r = Reading!OptionAt(function, Reading!At(optind), optind, nextchar, Reading!argc)
  BY <1>3, SameText DEF r
<1>7. Reading!ReadOption
  BY <1>1, <1>3, <1>5, <1>6, SameText
     DEF Reading!ReadOption, Reading!Returns, Reading!Answer, Reading!setting, setting, Returns,
         Answer
<1>8. QED
  BY <1>7 DEF Reads, Reading!Next

(* The rest of what was given is the rest of argv.                          *)
LEMMA RestOf ==
  ASSUME RInv, pc # "done", NEW i \in optind..Size + 1
  PROVE  Reading!Rest(i) = In(From(i, argc))
<1>1. Size \in Nat /\ argc = Size + 1 /\ Len(line) = Size /\ i \in 1..Size + 1
      /\ given \in Seq(1..Size)
  <2>1. Size \in Nat /\ argc = Size + 1 /\ Len(line) = Size
        /\ given \in [1..Size -> 1..Size] /\ i \in 1..Size + 1
    BY Facts, Ranges
  <2>2. given \in Seq(1..Size)
    BY <2>1
  <2>3. QED
    BY <2>1, <2>2
<1> DEFINE s == SubSeq(given, i, Size)
           t == In(From(i, argc))
<1>2. t \in Seq(1..Size) /\ Len(t) = argc - i /\ \A j \in 1..argc - i : t[j] = argv[i + j - 1]
  BY <1>1, Remaining DEF RInv
<1>3. s \in Seq(1..Size) /\ Len(s) = argc - i /\ \A j \in 1..argc - i : s[j] = given[i + j - 1]
  <2>1. Len(given) = Size
    BY <1>1, Facts
  <2>2. s \in Seq(1..Size) /\ Len(s) = (IF i <= Size THEN Size - i + 1 ELSE 0)
        /\ \A j \in 1..Size - i + 1 : s[j] = given[i + j - 1]
    BY <1>1, <2>1, SubSeqProperties
  <2>3. QED
    BY <1>1, <2>2
<1>4. \A j \in 1..argc - i : given[i + j - 1] = argv[i + j - 1]
  BY <1>1, Ranges DEF RInv, IInv, Untouched
<1> HIDE DEF s, t
<1>5. s = t
  BY <1>2, <1>3, <1>4
<1>6. QED
  BY <1>1, <1>5 DEF Reading!Rest, s, t

LEMMA DashesSeenReads == RInv /\ DashesSeen => Reads
<1> SUFFICES ASSUME RInv, DashesSeen PROVE Reads
  OBVIOUS
<1>1. /\ pc = "dashes" /\ nextchar = Null /\ nextchar' = nextchar
      /\ optind # argc /\ At(optind).kind = "dashes"
      /\ aside' = aside \o In(From(optind + 1, argc))
      /\ UNCHANGED <<setting, given, returned, scans, before>> /\ argc' = argc
  BY DEF DashesSeen, RInv, IInv, Types, AtDashes, setting, argc
<1>2. pc' = "rest" \/ (pc' = "exchange" /\ block'.after = "rest")
  BY DEF DashesSeen, Exchange
<1>3. /\ Reading!Scanning /\ Reading!argc = argc /\ optind \in 1..Size /\ optind < argc
      /\ optind + 1 \in optind..Size + 1
  BY <1>1, Facts, Ranges, ReaderSees
<1>4. Reading!Kind(optind) = "dashes"
  BY <1>1, <1>3, Facts, Ranges, ReaderSees DEF Reading!Kind
<1>5. aside' = aside \o Reading!Rest(optind + 1)
  BY <1>1, <1>3, RestOf
<1>6. Reading!PassDashes
  BY <1>1, <1>2, <1>3, <1>4, <1>5, SameText DEF Reading!PassDashes, Reading!setting, setting
<1>7. QED
  BY <1>6 DEF Reads, Reading!Next

(* What is left at the end are the words that were passed, or what follows. *)
LEMMA OperandsFrom ==
  ASSUME RInv, NEW i \in 1..Size + 1, i + Len(aside) = argc, Held(i)
  PROVE  In(From(i, argc)) = aside
<1>1. /\ aside \in Seq(1..Size) /\ Size \in Nat /\ argc = Size + 1
      /\ Len(aside) \in Nat /\ argc - i = Len(aside)
  BY Facts, Ranges
<1> DEFINE t == In(From(i, argc))
<1>2. t \in Seq(1..Size) /\ Len(t) = argc - i /\ \A j \in 1..argc - i : t[j] = argv[i + j - 1]
  BY Remaining DEF RInv
<1> HIDE DEF t
<1>3. t = aside
  <2>1. Len(t) = Len(aside) /\ \A j \in 1..Len(aside) : t[j] = aside[j]
    BY <1>1, <1>2 DEF Held
  <2>2. t \in Seq(1..Size) /\ aside \in Seq(1..Size)
    BY <1>1, <1>2
  <2>3. QED
    BY <2>1, <2>2, SeqEqual
<1>4. QED
  BY <1>3 DEF t

LEMMA NothingFrom ==
  ASSUME RInv
  PROVE  In(From(argc, argc)) = <<>> /\ aside \o <<>> = aside /\ <<>> \o aside = aside
<1>1. argc \in 1..Size + 1 /\ aside \in Seq(1..Size)
  BY Facts, Ranges
<1> DEFINE t == In(From(argc, argc))
<1>2. t \in Seq(1..Size) /\ Len(t) = argc - argc
  BY <1>1, Remaining DEF RInv
<1> HIDE DEF t
<1>3. Len(t) = 0
  BY <1>1, <1>2, Facts
<1>4. t = <<>>
  BY <1>2, <1>3, EmptySeq
<1>5. aside \o <<>> = aside /\ <<>> \o aside = aside
  BY <1>1
<1>6. QED
  BY <1>4, <1>5 DEF t

LEMMA ScanEndsReads == RInv /\ ScanEnds => Reads
<1> SUFFICES ASSUME RInv, ScanEnds PROVE Reads
  OBVIOUS
<1>1. CASE pc = "dashes"
  <2>1. UNCHANGED <<setting, given, nextchar, aside, returned, scans, before>>
        /\ Place = optind /\ Place' = optind
    BY <1>1 DEF ScanEnds, Place, indexes, history
  <2>2. QED
    BY <2>1, ReadsNothing
<1>2. CASE pc = "end"
  <2>1. Ends(Operands) /\ optind = argc /\ nextchar = Null
    BY <1>2 DEF ScanEnds, Operands, RInv, IInv, WordsInv, Types
  <2>2. /\ pc' = "done" /\ nextchar' = nextchar /\ argc' = argc
        /\ returned' = Append(returned, Answer("end", NoArg, In(From(Operands, argc))))
        /\ UNCHANGED <<setting, given, aside, scans, before>>
    BY <2>1 DEF Ends, Returns, setting, argc
  <2>3. In(From(Operands, argc)) = aside
    <3>1. CASE last_nonopt = argc /\ first_nonopt + Len(aside) = argc /\ Held(first_nonopt)
      <4>1. Operands = first_nonopt
        BY <2>1, <3>1 DEF Operands
      <4>2. QED
        BY <3>1, <4>1, Facts, Ranges, OperandsFrom
    <3>2. CASE first_nonopt = last_nonopt /\ aside = <<>>
      <4>1. Operands = argc
        BY <2>1, <3>2 DEF Operands
      <4>2. QED
        BY <3>2, <4>1, NothingFrom
    <3>3. QED
      BY <1>2, <3>1, <3>2 DEF RInv, ModeInv
  <2>4. aside \o Reading!Rest(argc) = aside
    <3>1. argc \in optind..Size + 1
      BY <2>1, Facts, Ranges
    <3>2. Reading!Rest(argc) = <<>>
      BY <1>2, <3>1, RestOf, NothingFrom
    <3>3. QED
      BY <3>2, NothingFrom
  <2>5. Reading!Scanning /\ Reading!argc = argc
    BY <1>2, ReaderSees
  <2>6. Reading!End
    BY <1>2, <2>1, <2>2, <2>3, <2>4, <2>5, SameText
       DEF Reading!End, Reading!Returns, Reading!Answer, Reading!setting, setting, Answer
  <2>7. QED
    BY <2>6 DEF Reads, Reading!Next
<1>3. QED
  BY <1>1, <1>2 DEF ScanEnds

LEMMA WordMetReads == RInv /\ WordMet => Reads
<1> SUFFICES ASSUME RInv, WordMet PROVE Reads
  OBVIOUS
<1>1. /\ pc = "dashes" /\ nextchar = Null /\ nextchar' = nextchar
      /\ optind # argc /\ IsWord(optind) /\ ordering # "PERMUTE" /\ aside = <<>>
      /\ UNCHANGED <<setting, given, aside, scans, before>> /\ argc' = argc
  BY DEF WordMet, Ends, RInv, IInv, Types, ModeInv, setting, argc
<1>2. /\ Reading!Scanning /\ Reading!argc = argc /\ optind \in 1..Size /\ optind < argc
  BY <1>1, Facts, Ranges, ReaderSees
<1>3. given[optind] = argv[optind] /\ Reading!Kind(optind) = "word"
  <2>1. given[optind] = argv[optind] /\ Reading!At(optind) = At(optind)
    BY <1>1, <1>2, Facts, Ranges, ReaderSees
  <2>2. QED
    BY <1>1, <2>1 DEF Reading!Kind, IsWord
<1>4. CASE ordering = "REQUIRE_ORDER"
  <2>1. /\ pc' = "done"
        /\ returned' = Append(returned, Answer("end", NoArg, In(From(optind, argc))))
    BY <1>4 DEF WordMet, Ends, Returns
  <2>2. aside \o Reading!Rest(optind) = In(From(optind, argc))
    <3>1. optind \in optind..Size + 1 /\ optind \in 1..Size + 1
      BY <1>2, Facts
    <3>2. Reading!Rest(optind) = In(From(optind, argc))
      BY <1>1, <3>1, RestOf
    <3>3. In(From(optind, argc)) \in Seq(1..Size)
      BY <3>1, Remaining DEF RInv
    <3>4. QED
      BY <1>1, <3>2, <3>3
  <2>3. Reading!End
    BY <1>1, <1>2, <1>3, <1>4, <2>1, <2>2, SameText
       DEF Reading!End, Reading!Returns, Reading!Answer, Reading!setting, setting, Answer
  <2>4. QED
    BY <2>3 DEF Reads, Reading!Next
<1>5. CASE ordering # "REQUIRE_ORDER"
  <2>1. ordering = "RETURN_IN_ORDER"
    BY <1>1, <1>5, Facts
  <2>2. pc' = "host" /\ Returns("word", <<argv[optind], 0>>, <<>>) /\ optind' = optind + 1
    BY <1>5 DEF WordMet
  <2>3. Reading!ReturnWord
    BY <1>1, <1>2, <1>3, <2>1, <2>2, SameText
       DEF Reading!ReturnWord, Reading!Returns, Reading!Answer, Reading!setting, setting,
           Returns, Answer
  <2>4. QED
    BY <2>3 DEF Reads, Reading!Next
<1>6. QED
  BY <1>4, <1>5

LEMMA ScanAgainReads == \A index \in {0, 1} : RInv /\ ScanAgain(index) => Reads
<1> SUFFICES ASSUME NEW index \in {0, 1}, RInv, ScanAgain(index) PROVE Reads
  OBVIOUS
<1>1. /\ pc = "done" /\ pc' = "host" /\ optind' = 1 /\ aside' = <<>>
      /\ given' = argv /\ returned' = <<>> /\ before' = returned /\ scans' = scans + 1
      /\ UNCHANGED setting
  BY DEF ScanAgain
<1>2. nextchar' = nextchar
  <2>1. nextchar = Null
    BY <1>1 DEF RInv, IInv, Types
  <2>2. QED
    BY <2>1 DEF ScanAgain
<1> DEFINE operands == Latest(returned).operands
<1>3. ~Reading!Scanning /\ operands = In(From(optind, argc))
  <2>1. /\ returned # <<>> /\ Latest(returned).option = "end"
        /\ operands = In(From(optind, argc))
    BY <1>1 DEF RInv, ToldInv
  <2>2. Len(returned) \in DOMAIN returned
    <3>1. PICK S : returned \in Seq(S)
      BY Facts DEF IsSeq
    <3>2. QED
      BY <2>1, <3>1, EmptySeq
  <2>3. QED
    BY <2>1, <2>2 DEF Reading!Scanning, Latest
<1>4. /\ optind \in 1..Size + 1 /\ Size \in Nat /\ argc = Size + 1 /\ Len(line) = Size
      /\ argv \in [1..Size -> 1..Size] /\ given \in [1..Size -> 1..Size]
      /\ Onto(Size, argv) /\ Onto(Size, given)
  BY Facts, Ranges DEF RInv, IInv
<1> HIDE DEF operands
<1>5. /\ operands \in Seq(1..Size) /\ Len(operands) = argc - optind
      /\ \A j \in 1..argc - optind : operands[j] = argv[optind + j - 1]
  BY <1>3, <1>4, Remaining DEF RInv
<1>6. Size - Len(operands) = optind - 1 /\ DOMAIN operands = 1..Size - (optind - 1)
  BY <1>4, <1>5
<1>7. Reading!Moved(operands)
  <2>1. {given'[i] : i \in DOMAIN given'} = {given[i] : i \in DOMAIN given}
    <3>1. {argv[i] : i \in 1..Size} = 1..Size /\ {given[i] : i \in 1..Size} = 1..Size
      BY <1>4 DEF Onto
    <3>2. DOMAIN given' = 1..Size /\ DOMAIN given = 1..Size
      BY <1>1, <1>4
    <3>3. {given'[i] : i \in 1..Size} = 1..Size
      BY <1>1, <3>1
    <3>4. QED
      BY <3>1, <3>2, <3>3, Zenon
  <2>2. ASSUME NEW i \in 1..optind - 1, NEW j \in 1..optind - 1, i < j
        PROVE  Reading!Earlier(given'[i], given'[j])
    <3>1. InOrder(Size, given, argv, optind, argc)
      BY <1>1 DEF RInv, OrderInv, Ordered
    <3>2. i \in 1..Size /\ j \in 1..Size /\ Outside(i, optind, argc) /\ Outside(j, optind, argc)
      BY <1>4 DEF Outside
    <3>3. \E k, l \in 1..Size : k < l /\ given[k] = argv[i] /\ given[l] = argv[j]
      BY <2>2, <3>1, <3>2 DEF InOrder
    <3>4. QED
      BY <1>1, <1>4, <3>3 DEF Reading!Earlier
  <2>3. ASSUME NEW i \in DOMAIN operands PROVE given'[optind - 1 + i] = operands[i]
    <3>1. i \in 1..argc - optind /\ optind - 1 + i = optind + i - 1
      BY <1>4, <1>6
    <3>2. QED
      BY <1>1, <1>5, <3>1
  <2>4. QED
    BY <1>4, <1>6, <2>1, <2>2, <2>3 DEF Reading!Moved
<1>8. Reading!ScanAgain
  BY <1>1, <1>2, <1>3, <1>4, <1>7, SameText
     DEF Reading!ScanAgain, Reading!setting, setting, Latest, operands
<1>9. QED
  BY <1>8 DEF Reads, Reading!Next

LEMMA InitReads == Init => Reading!Init
BY SameText DEF Init, Reading!Init

LEMMA NextReads == RInv /\ [Next]_vars => [Reading!Next]_Reading!vars
<1> SUFFICES ASSUME RInv, [Next]_vars PROVE Reads
  BY DEF Reads
<1>1. CASE Scan
  BY <1>1, NextLetterReads, NextArgumentReads, PermuteReads, ExchangeRoundReads,
     ExchangedReads, SkipWordReads, SkipEndsReads, DashesSeenReads, RestAreWordsReads,
     ScanEndsReads, WordMetReads, OptionMetReads, OptionReadReads
     DEF Scan
<1>2. CASE \E index \in {0, 1} : ScanAgain(index)
  BY <1>2, ScanAgainReads
<1>3. CASE UNCHANGED vars
  <2>1. UNCHANGED <<setting, given, nextchar, aside, returned, scans, before>> /\ Place' = Place
    BY <1>3 DEF vars, setting, indexes, history, Place, argc
  <2>2. QED
    BY <2>1, ReadsNothing
<1>4. QED
  BY <1>1, <1>2, <1>3 DEF Next

(***************************************************************************)
(* With its permutation, the exchanges and the indexes it keeps between    *)
(* calls, the scan tells the host just what a reader would that goes from  *)
(* left to right and moves nothing: the options with their arguments in the*)
(* order given, and at the end all other words; and a further scan starts  *)
(* from the same arguments, options first, each part in its order.         *)
(***************************************************************************)
THEOREM ScanImplementsReading == Spec => ReadingImplemented
<1>1. Init => RInv /\ Reading!Init
  BY InitRInv, InitReads
<1>2. RInv /\ [Next]_vars => RInv' /\ [Reading!Next]_Reading!vars
  BY NextRInv, NextReads
<1>3. Spec => Reading!Spec
  BY <1>1, <1>2, PTL DEF Spec, Reading!Spec
<1>4. QED
  BY <1>3 DEF ReadingImplemented
=============================================================================
