------------------------------- MODULE CsvStream -------------------------------
(***************************************************************************)
(* What LibCsv promises of a file: a header and a sequence of records. A   *)
(* file opened for writing or appending grows at its end; a file opened    *)
(* for reading gives its records in order, then says that it ends; a reset *)
(* starts with the first record again.                                     *)
(***************************************************************************)
EXTENDS Integers, Sequences

CONSTANTS Headers, Texts

VARIABLES
  header, records,   (* the contents of the file                             *)
  mode,              (* "closed", "read" or "write"                          *)
  cursor,            (* how many records a reader has passed                 *)
  result             (* of the last call: its kind and the record it is about *)

vars == <<header, records, mode, cursor, result>>

Nothing == [kind |-> "other", values |-> <<>>]

Init ==
  /\ header = <<>> /\ records = <<>>
  /\ mode = "closed" /\ cursor = 0 /\ result = Nothing

(* A file is created, and what it held before is gone.                      *)
Create ==
  /\ mode = "closed" /\ mode' = "write"
  /\ header' \in Headers
  /\ records' = <<>>
  /\ result' = Nothing
  /\ UNCHANGED cursor

Open ==
  /\ mode = "closed" /\ mode' \in {"read", "write"}
  /\ cursor' = 0
  /\ result' = Nothing
  /\ UNCHANGED <<header, records>>

Close ==
  /\ mode # "closed" /\ mode' = "closed"
  /\ cursor' = 0
  /\ result' = Nothing
  /\ UNCHANGED <<header, records>>

Write ==
  /\ mode = "write"
  /\ result'.kind = "written"
  /\ result'.values \in [DOMAIN header -> Texts]
  /\ records' = Append(records, result'.values)
  /\ UNCHANGED <<header, mode, cursor>>

Read ==
  /\ mode = "read" /\ cursor < Len(records)
  /\ cursor' = cursor + 1
  /\ result' = [kind |-> "read", values |-> records[cursor + 1]]
  /\ UNCHANGED <<header, records, mode>>

ReadAtEnd ==
  /\ mode = "read" /\ cursor = Len(records)
  /\ result' = [kind |-> "end", values |-> <<>>]
  /\ UNCHANGED <<header, records, mode, cursor>>

Reset ==
  /\ mode = "read"
  /\ cursor' = 0
  /\ result' = [kind |-> "reset", values |-> <<>>]
  /\ UNCHANGED <<header, records, mode>>

(* Options, queries and refused calls change nothing here.                  *)
Other ==
  /\ result' = Nothing
  /\ UNCHANGED <<header, records, mode, cursor>>

Next == Create \/ Open \/ Close \/ Write \/ Read \/ ReadAtEnd \/ Reset \/ Other

Spec == Init /\ [][Next]_vars
=============================================================================
