-------------------------------- MODULE CsvText --------------------------------
(***************************************************************************)
(* The CSV syntax of LibCsv: what CsviWriteField appends to a file for one *)
(* field and what CsviReadField makes of the characters it finds. A file   *)
(* is a sequence of characters; position p means that p are consumed.      *)
(*                                                                         *)
(* Operators take and return the object's fields they work on:             *)
(*   sep, always   the separator and the option AlwaysEnquoteFields        *)
(*   n, cur        dwNumberOfFields and dwCurrentField                     *)
(*   pos, eof, err llPosition, bEofReached and dwLastError                 *)
(***************************************************************************)
EXTENDS Integers, Sequences, SequencesExt

CONSTANTS
  Characters,                (* the values of a WCHAR                        *)
  Quote, EndOfLine, Comma,   (* CSV_QUOTE_CHAR, CSV_END_OF_LINE_CHAR and     *)
                             (* CSV_DEFAULT_SEPARATOR                        *)
  NullChar,                  (* what follows the last character of a mapping *)
  DwordValues,               (* how many values dwCurrentField has: 2^32     *)
  Unset                      (* a field buffer that is still a NULL pointer  *)

ASSUME CharactersDiffer ==
  /\ {Quote, EndOfLine, Comma, NullChar} \subseteq Characters
  /\ Quote \notin {EndOfLine, Comma, NullChar}
  /\ EndOfLine \notin {Comma, NullChar}
  /\ Comma # NullChar

ASSUME DwordAssumption == DwordValues \in Nat \ {0}

(* A NULL pointer is no text.                                                *)
ASSUME UnsetAssumption == Unset \notin Characters /\ Unset \notin Seq(Characters)

(* dwCurrentField after count more fields; it is a DWORD and wraps.          *)
Advanced(cur, count) == (cur + count) % DwordValues

(* Mutant: off by one.                                                      *)
IsLastFieldLate(o) == o.cur % o.n = 0

(* CSV_IS_LAST_FIELD: fields are counted over the whole file, not per record. *)
IsLastField(o) == Advanced(o.cur, 1) % o.n = 0

-----------------------------------------------------------------------------
(* Writing.                                                                 *)

NeedsQuotes(t, o) ==
  o.always \/ \E i \in DOMAIN t : t[i] \in {Quote, EndOfLine, o.sep}

(* Mutant: quotes inside a field are not doubled.                           *)
NotDoubled(t) == t

DoubleQuotes(t) ==
  FlattenSeq([i \in DOMAIN t |->
    IF t[i] = Quote THEN <<Quote, Quote>> ELSE <<t[i]>>])

(* What CsviWriteField appends: the field, enquoted and escaped when needed, *)
(* and its closing character.                                               *)
CsviWriteField(t, o) ==
  (IF NeedsQuotes(t, o) THEN <<Quote>> \o DoubleQuotes(t) \o <<Quote>> ELSE t)
    \o <<IF IsLastField(o) THEN EndOfLine ELSE o.sep>>

(* The fields of one record, each written with dwCurrentField one higher.   *)
EncodedFields(ts, o) ==
  [k \in DOMAIN ts |-> CsviWriteField(ts[k], [o EXCEPT !.cur = Advanced(@, k - 1)])]

-----------------------------------------------------------------------------
(* Reading.                                                                 *)

(* CSV_CONSUME_CHAR reads without comparing the position to the file size.  *)
CharAt(f, p) == IF p < Len(f) THEN f[p + 1] ELSE NullChar

(* CSV_API_RETURN_ERROR after p characters.                                 *)
Failed(o, p, error) ==
  [obj |-> [o EXCEPT !.pos = p, !.err = error], text |-> Unset]

(* Mutant: dwCurrentField is not advanced.                                  *)
FieldNotCounted(o, p, t, c, bHeaderKnown) ==
  [obj |-> [o EXCEPT !.pos = p,
                     !.err = IF ~bHeaderKnown /\ c = EndOfLine
                             THEN "END_OF_LINE" ELSE "NO_ERROR"],
   text |-> t]

(* The field t was read, and c ended it; in a header of unknown length the  *)
(* end of the line is reported as an error.                                 *)
Completed(o, p, t, c, bHeaderKnown) ==
  [obj |-> [o EXCEPT !.pos = p, !.cur = Advanced(@, 1),
                     !.err = IF ~bHeaderKnown /\ c = EndOfLine
                             THEN "END_OF_LINE" ELSE "NO_ERROR"],
   text |-> t]

(* A field that does not start with a quote runs to the first quote,        *)
(* separator or end of line.                                                *)
PlainField(f, o, bHeaderKnown) ==
  LET k == SelectInSubSeq(f, o.pos + 2, Len(f),
                          LAMBDA c : c \in {Quote, o.sep, EndOfLine})
  IN  IF k = 0 THEN Failed(o, Len(f), "UNEXPECTED_EOF")
      ELSE IF f[k] = Quote THEN Failed(o, k, "QUOTE_IN_FIELD")
      ELSE IF bHeaderKnown /\ (f[k] = EndOfLine) # IsLastField(o)
      THEN Failed(o, k, "FIELD_TERMINATOR")
      ELSE Completed(o, k, SubSeq(f, o.pos + 1, k - 1), f[k], bHeaderKnown)

Prefixed(c, r) == [r EXCEPT !.text = IF @ = Unset THEN @ ELSE <<c>> \o @]

(* Mutant: at the end of the file the field is given back for a retry.      *)
QuotedFieldRetries(f, o, bHeaderKnown) ==
  LET start == o.pos + 1
      llRemaining == Len(f) - start
      scan[w \in [i : 0..llRemaining, p : Nat]] ==
        LET c == CharAt(f, w.p)
            d == CharAt(f, w.p + 1)
            Then(count) == scan[[i |-> w.i + 1, p |-> w.p + count]]
        IN  IF w.i = llRemaining \/ (c = Quote /\ w.i + 1 >= llRemaining)
            THEN Failed(o, o.pos, "UNEXPECTED_EOF")
            ELSE IF c # Quote THEN Prefixed(c, Then(1))
            ELSE IF d = Quote THEN Prefixed(Quote, Then(2))
            ELSE IF d = o.sep \/ (d = EndOfLine /\ (~bHeaderKnown \/ IsLastField(o)))
            THEN Completed(o, w.p + 2, <<>>, d, bHeaderKnown)
            ELSE Failed(o, w.p + 2, "FIELD_TERMINATOR")
  IN  scan[[i |-> 0, p |-> start]]

(* An enquoted field: for (i = 0; i < llRemaining; i++), where a round that *)
(* meets a quote consumes a second character without advancing i.           *)
QuotedField(f, o, bHeaderKnown) ==
  LET start == o.pos + 1
      llRemaining == Len(f) - start
      scan[w \in [i : 0..llRemaining, p : Nat]] ==
        LET c == CharAt(f, w.p)
            d == CharAt(f, w.p + 1)
            Then(count) == scan[[i |-> w.i + 1, p |-> w.p + count]]
        IN  IF w.i = llRemaining THEN Failed(o, w.p, "UNEXPECTED_EOF")
            ELSE IF c # Quote THEN Prefixed(c, Then(1))
            ELSE IF w.i + 1 >= llRemaining
            THEN Failed(o, w.p + 1, "UNEXPECTED_EOF")
            ELSE IF d = Quote THEN Prefixed(Quote, Then(2))
            ELSE IF d = o.sep \/ (d = EndOfLine /\ (~bHeaderKnown \/ IsLastField(o)))
            THEN Completed(o, w.p + 2, <<>>, d, bHeaderKnown)
            ELSE Failed(o, w.p + 2, "FIELD_TERMINATOR")
  IN  scan[[i |-> 0, p |-> start]]

(* CsviReadField: the result has the object and the field, Unset on failure. *)
CsviReadField(f, o, bHeaderKnown) ==
  LET c == CharAt(f, o.pos)
      p == o.pos + 1
  IN  IF o.eof \/ o.pos >= Len(f)
      THEN Failed([o EXCEPT !.eof = TRUE], o.pos, "END_OF_FILE")
      ELSE IF c = EndOfLine /\ ~bHeaderKnown
      THEN Failed(o, p, "END_OF_LINE")
      ELSE IF c \in {EndOfLine, o.sep}
      THEN IF bHeaderKnown /\ (c = EndOfLine) # IsLastField(o)
           THEN Failed(o, p, "FIELD_TERMINATOR")
           ELSE Completed(o, p, <<>>, c, bHeaderKnown)
      ELSE IF p >= Len(f) THEN Failed(o, p, "UNEXPECTED_EOF")
      ELSE IF c = Quote THEN QuotedField(f, o, bHeaderKnown)
      ELSE PlainField(f, o, bHeaderKnown)

(* The results of reading field after field from o on.                      *)
FieldResults(f, o, bHeaderKnown, count) ==
  LET read[k \in 1..count] ==
        CsviReadField(f, IF k = 1 THEN o ELSE read[k - 1].obj, bHeaderKnown)
  IN  read

Stopped(r) == r.obj.err # "NO_ERROR"

(* CsviReadHeader: fields are read until one fails; the header is complete  *)
(* when that is for the end of the line. Every field consumes a character.  *)
CsviReadHeader(f, o) ==
  LET read == FieldResults(f, o, FALSE, Len(f) + 1)
      n == SelectInSeq(read, Stopped)
      last == read[n].obj
  IN  [obj |-> [last EXCEPT !.n = n,
                            !.err = IF @ = "END_OF_LINE" THEN "NO_ERROR" ELSE @],
       texts |-> [k \in 1..n |-> read[k].text]]

(* The record loop of CsvGetNextRecordW: it stops at the first field that   *)
(* fails.                                                                   *)
ReadRecord(f, o) ==
  LET read == FieldResults(f, o, TRUE, o.n)
      bad == SelectInSeq(read, Stopped)
  IN  [obj |-> read[IF bad = 0 THEN o.n ELSE bad].obj,
       texts |-> [k \in 1..o.n |-> IF bad = 0 \/ k < bad
                                   THEN read[k].text ELSE Unset]]
=============================================================================
