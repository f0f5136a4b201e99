------------------------------ MODULE MCCsvRecords ------------------------------
(***************************************************************************)
(* Small instances of CsvRecords: characters are model values, and the     *)
(* headers, fields and files of the runs are built from them here.         *)
(***************************************************************************)
EXTENDS CsvRecords

CONSTANTS Semicolon, Letter     (* another separator, any other character  *)

Alphabet == {Quote, EndOfLine, Comma, Semicolon, Letter, NullChar}

Words(characters, lengths) == UNION {[1..l -> characters] : l \in lengths}

(* Names of columns.                                                       *)
A == <<Letter>>
B == <<Quote, Comma>>

(* Texts to write.                                                         *)
Samples == {<<Letter>>, <<Quote, Semicolon>>}
Letters == {<<Letter>>}
Specials == {<<Quote, Comma>>}
ShortTexts == {<<EndOfLine>>, <<Letter, Quote>>}
                \cup Words({Quote, Comma}, 0..2)

OneColumn == {<<A>>}
TwoColumns == {<<B, A>>}
OneOrTwoColumns == {<<A>>, <<<<>>, B>>}
EmptyLastName == {<<A, <<>>>>}

(* Filtered sets: two names in another order than in the header, two of      *)
(* which one is no column, and one name twice.                               *)
OtherOrder == {<<B, <<>>>>}
TwoNames == {<<A, <<Semicolon>>>>, <<A, A>>}
None == {}

NoFile == {<<>>}

(* Any short text behind the line of a header of one or two columns.        *)
Garbage == {h \o t : h \in {<<Letter, EndOfLine>>,
                         <<Letter, Comma, Semicolon, EndOfLine>>},
                     t \in Words({Quote, EndOfLine, Comma, Letter}, 0..2)}
=============================================================================
