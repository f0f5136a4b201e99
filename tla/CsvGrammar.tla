------------------------------- MODULE CsvGrammar -------------------------------
(***************************************************************************)
(* A reference definition of CSV text, by the parity of quotes instead of  *)
(* a scan: a character is protected when an odd number of quotes precedes  *)
(* it; unprotected ends of line cut a file into lines, and unprotected     *)
(* separators cut a line into fields. It says what LibCsv's reader should  *)
(* find in a well-formed file, and shares nothing with CsvText.            *)
(***************************************************************************)
EXTENDS Integers, Sequences, FiniteSets

CONSTANTS Quote, EndOfLine, Comma

Protected(f, k) == Cardinality({j \in 1..k - 1 : f[j] = Quote}) % 2 = 1

(* The positions of the unprotected characters c.                           *)
Ends(f, c) == {k \in DOMAIN f : f[k] = c /\ ~Protected(f, k)}

(* A set of positions, in order.                                            *)
InOrder(S) ==
  [i \in 1..Cardinality(S) |-> CHOOSE k \in S : Cardinality({j \in S : j < k}) = i - 1]

(* The pieces of f that end at an unprotected c, without it.                *)
Pieces(f, c) ==
  LET cut == InOrder(Ends(f, c))
  IN  [i \in DOMAIN cut |->
        SubSeq(f, IF i = 1 THEN 1 ELSE cut[i - 1] + 1, cut[i] - 1)]

(* The text of a piece: outer quotes dropped, one of each inner pair kept.  *)
Text(piece) ==
  IF piece = <<>> \/ piece[1] # Quote THEN piece
  ELSE LET inner == SubSeq(piece, 2, Len(piece) - 1)
           kept == InOrder({k \in DOMAIN inner :
                             inner[k] = Quote => ~Protected(inner, k)})
       IN  [i \in DOMAIN kept |-> inner[kept[i]]]

Fields(line, sep) ==
  LET pieces == Pieces(Append(line, sep), sep)
  IN  [i \in DOMAIN pieces |-> Text(pieces[i])]

Lines(f) == Pieces(f, EndOfLine)

(* The header is always separated by commas, the records by sep.            *)
Header(f) == IF Lines(f) = <<>> THEN <<>> ELSE Fields(Lines(f)[1], Comma)

Records(f, sep) ==
  LET lines == Lines(f)
  IN  [i \in 1..Len(lines) - 1 |-> Fields(lines[i + 1], sep)]

(* How many lines end within the first p characters.                        *)
LinesBefore(f, p) == Cardinality({k \in Ends(f, EndOfLine) : k <= p})
=============================================================================
