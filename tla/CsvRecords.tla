------------------------------- MODULE CsvRecords -------------------------------
(***************************************************************************)
(* LibCsv's view of one file through one handle at a time: a host program  *)
(* creates the file, appends to it, reads its records, resets the reader,  *)
(* sets options and asks for the last error. Each API call is one step; a  *)
(* file is not shared while it is open (FILE_SHARE_READ only).             *)
(***************************************************************************)
EXTENDS CsvText, FiniteSets

CONSTANTS
  Headers,             (* headers the host creates files with                 *)
  Texts,               (* fields it writes                                    *)
  Separators,          (* separators it sets                                  *)
  FilterSets,          (* filtered sets it opens files with                   *)
  InitialFiles,        (* what the file may hold at the start                 *)
  MaxRecords,          (* bound of the model: records written to the file     *)
  FailingWrites,       (* may a write stop in the middle?                     *)
  SameSeparator,       (* does the host set, before it reads or appends, the  *)
                       (* separator the file was written with?                *)
  RewritesReadFiles,   (* does it create a file again that it has read?       *)
  AnsiCalls            (* does it call CsvGetNextRecordA too?                 *)

ASSUME HostAssumption ==
  /\ MaxRecords \in Nat
  /\ {FailingWrites, SameSeparator, RewritesReadFiles, AnsiCalls} \subseteq BOOLEAN
  /\ Separators \subseteq Characters
  /\ Texts \cup InitialFiles \subseteq Seq(Characters)
  /\ Headers \subseteq Seq(Seq(Characters)) \ {<<>>}
  /\ FilterSets \subseteq Seq(Seq(Characters))

VARIABLES
  file,      (* the characters of the file                                    *)
  fileSep,   (* the separator of its records, Unset while it has none          *)
  written,   (* the header and records the host gave the library for the file  *)
  csv,       (* the CSV_OBJECT                                                *)
  mapped,    (* is a view of the file still mapped that nobody will unmap?     *)
  ret,       (* what the last call returned                                    *)
  failure,   (* how the last call that was not CsvGetLastError ended           *)
  process    (* "running", or "dead" after a NULL or wild pointer access       *)

vars == <<file, fileSep, written, csv, mapped, ret, failure, process>>

-----------------------------------------------------------------------------
(* A new object, as CsviOpenFile fills it in; "closed" stands for none.      *)
Opened(eFileOperation) ==
  [mode |-> eFileOperation, sep |-> Comma, always |-> FALSE,
   n |-> 0, cur |-> 0, pos |-> 0, eof |-> FALSE, err |-> "NO_ERROR",
   after |-> 0, records |-> 0, filter |-> <<>>]

NoObject == Opened("closed")

(* A call ends with the object o; ret keeps whether it succeeded, the record  *)
(* it was given or returned, its number, and the error code it left behind.  *)
(* Calls that no property tells apart are all called "other".                *)
Returns(call, o, ok, values, number) ==
  /\ csv' = o
  /\ ret' = [call |-> call, ok |-> ok, values |-> values, number |-> number,
             error |-> o.err]
  /\ failure' = o.err

Succeeds(call, o, values, number) ==
  Returns(call, [o EXCEPT !.err = "NO_ERROR"], TRUE, values, number)

(* An open fails, and the handle was closed again.                           *)
OpenFails(call, error) ==
  /\ csv' = NoObject
  /\ ret' = [call |-> call, ok |-> FALSE, values |-> <<>>, number |-> 0,
             error |-> error]
  /\ failure' = error

(* CSV_API_RETURN_ERROR on an object that is looked up first.                *)
Refused(call, error) ==
  /\ Returns(call, [csv EXCEPT !.err = error], FALSE, <<>>, 0)
  /\ UNCHANGED <<file, fileSep, written, mapped, process>>

Crash ==
  /\ process' = "dead"
  /\ UNCHANGED <<file, fileSep, written, csv, mapped, ret, failure>>

MayOpen == process = "running" /\ csv.mode = "closed"

(* CsviGetObjectByHandle succeeds, and resets the last error.                *)
MayUse == process = "running" /\ csv.mode # "closed"

(* The records of the file are separated by what the object expects.         *)
SeparatorFits == SameSeparator => fileSep \in {csv.sep, Unset}

(* dwNumberOfRecords > 0: the options cannot be changed any more.            *)
Started == csv.records > 0

-----------------------------------------------------------------------------
(* Opening.                                                                  *)

(* CREATE_ALWAYS fails on a file that is still mapped, and the error macro   *)
(* follows the NULL object; otherwise the header is written with the         *)
(* default options.                                                          *)
CsvOpenWriteW(h) ==
  /\ MayOpen
  /\ mapped => RewritesReadFiles
  /\ IF mapped THEN Crash
     ELSE LET o == [Opened("write") EXCEPT !.n = Len(h)]
          IN  /\ file' = FlattenSeq(EncodedFields(h, o))
              /\ fileSep' = Unset
              /\ written' = [header |-> h, records |-> <<>>]
              /\ Succeeds("other", [o EXCEPT !.cur = Advanced(@, Len(h))], <<>>, 0)
              /\ UNCHANGED <<mapped, process>>

(* The part CsvOpenReadW and CsvOpenAppendW share: a header that cannot be   *)
(* read closes the handle, and the error is written into the freed object,   *)
(* which goes unnoticed or kills the process; a header field that is a NULL  *)
(* pointer cannot be duplicated for the host.                                *)
OpenExisting(call, eFileOperation, bWantsHeader, pdwFilter) ==
  LET h == CsviReadHeader(file, Opened(eFileOperation))
      bNullField == \E k \in DOMAIN h.texts : h.texts[k] = Unset
      bRead == h.obj.err = "NO_ERROR"
  IN  \/ (bRead => bWantsHeader /\ bNullField) /\ Crash
      \/ /\ \/ /\ bRead /\ ~(bWantsHeader /\ bNullField)
               /\ Succeeds(call, [h.obj EXCEPT !.after = h.obj.pos,
                                               !.filter = pdwFilter],
                           h.texts, 0)
            \/ ~bRead /\ OpenFails(call, h.obj.err)
         /\ mapped' = (mapped \/ eFileOperation = "read")
         /\ UNCHANGED <<file, fileSep, written, process>>

CsvOpenReadW(bWantsHeader) ==
  /\ MayOpen /\ file # <<>>
  /\ OpenExisting("other", "read", bWantsHeader, <<>>)

CsvOpenAppendW(bWantsHeader) ==
  /\ MayOpen /\ file # <<>>
  /\ OpenExisting("other", "append", bWantsHeader, <<>>)

(* The fields of a filtered set are looked up in the header; the error macro *)
(* follows a NULL object when the set is empty or names a field twice, or    *)
(* when the file could not be opened. A field that is not found closes the   *)
(* handle, and the error is written into the freed object.                   *)
CsvOpenReadWithFilteredSetW(pptFilteredSet) ==
  LET h == CsviReadHeader(file, Opened("read"))
      index == [j \in DOMAIN pptFilteredSet |->
                 SelectInSeq(h.texts, LAMBDA t : t = pptFilteredSet[j])]
      bNullField == \E k \in DOMAIN h.texts : h.texts[k] = Unset
      bUsable == pptFilteredSet # <<>> /\ IsInjective(pptFilteredSet)
  IN  /\ MayOpen /\ file # <<>>
      /\ IF ~bUsable \/ h.obj.err # "NO_ERROR" \/ bNullField THEN Crash
         ELSE IF 0 \in {index[j] : j \in DOMAIN index}
         THEN \/ Crash
              \/ /\ OpenFails("other", "INVALID_PARAMETER")
                 /\ mapped' = TRUE
                 /\ UNCHANGED <<file, fileSep, written, process>>
         ELSE OpenExisting("other", "read", TRUE, index)

-----------------------------------------------------------------------------
(* Records.                                                                  *)

Given(ts) == [written EXCEPT !.records = Append(@, ts)]

(* Bound of the model.                                                       *)
MayWrite == Len(written.records) < MaxRecords

(* Every field of the record, then the count; the closing character of a     *)
(* field is chosen from dwCurrentField.                                      *)
CsvWriteNextRecordW(ts) ==
  LET o == [csv EXCEPT !.cur = Advanced(@, csv.n), !.records = @ + 1]
  IN  /\ MayUse
      /\ IF csv.mode = "read"
         THEN Refused("CsvWriteNextRecord", "INVALID_OPERATION")
         ELSE /\ SeparatorFits /\ MayWrite
              /\ file' = file \o FlattenSeq(EncodedFields(ts, csv))
              /\ fileSep' = csv.sep
              /\ written' = Given(ts)
              /\ Succeeds("CsvWriteNextRecord", o, ts, o.records)
              /\ UNCHANGED <<mapped, process>>

(* A write stops: some characters of the record are in the file, and only    *)
(* the fields that are complete are counted.                                 *)
WriteStops(ts) ==
  LET fields == EncodedFields(ts, csv)
      record == FlattenSeq(fields)
      whole(k) == Len(FlattenSeq(SubSeq(fields, 1, k)))
  IN  /\ FailingWrites /\ MayUse /\ csv.mode # "read"
      /\ SeparatorFits /\ MayWrite
      /\ \E count \in 0 .. Len(record) - 1 :
           /\ file' = file \o SubSeq(record, 1, count)
           /\ Returns("CsvWriteNextRecord",
                [csv EXCEPT
                  !.cur = Advanced(@, Cardinality({k \in 1..csv.n : whole(k) <= count})),
                  !.err = "WRITE_FAULT"], FALSE, <<>>, 0)
      /\ fileSep' = csv.sep
      /\ written' = Given(ts)
      /\ UNCHANGED <<mapped, process>>

(* A stub: it looks nothing up and says that the record was written.         *)
CsvWriteNextRecordWithTypes ==
  /\ MayUse
  /\ ret' = [call |-> "other", ok |-> TRUE,
             values |-> <<>>, number |-> 0, error |-> csv.err]
  /\ UNCHANGED <<file, fileSep, written, csv, mapped, failure, process>>

(* Mutant: the wanted field is stored at its own place in the record.        *)
FilteredInPlace(ts) ==
  [k \in DOMAIN ts |-> IF k = csv.filter[1] THEN ts[k] ELSE Unset]

(* The values of a filtered read: the first wanted field is stored in the    *)
(* first place, and nothing in the others.                                   *)
Filtered(ts) ==
  [k \in DOMAIN ts |-> IF k = 1 THEN ts[csv.filter[1]] ELSE Unset]

Stored(ts) == IF csv.filter = <<>> THEN ts ELSE Filtered(ts)

(* The conversion of an empty field fails and leaves a NULL pointer.         *)
Converted(ts) ==
  [k \in DOMAIN ts |-> IF Stored(ts)[k] = <<>> THEN Unset ELSE Stored(ts)[k]]

(* The end of CsvGetNextRecordW, and its loop. In a filtered read the j-th   *)
(* wanted field goes to pptCsvRecordValues[j]: the array of the host for the *)
(* first, and whatever follows that pointer in memory for the others.        *)
NextRecord(call, bAnsi) ==
  LET r == ReadRecord(file, csv)
      o == [r.obj EXCEPT !.records = @ + 1]
      tried == IF Stopped(r) THEN Cardinality({k \in 1..csv.n : r.texts[k] # Unset}) + 1
               ELSE csv.n
      values == IF bAnsi THEN Converted(r.texts) ELSE Stored(r.texts)
      wild == \E j \in DOMAIN csv.filter : j > 1 /\ csv.filter[j] <= tried
  IN  \/ wild /\ Crash
      \/ /\ IF Stopped(r) THEN Returns(call, r.obj, FALSE, <<>>, 0)
            ELSE Succeeds(call, o, values, o.records)
         /\ UNCHANGED <<file, fileSep, written, mapped, process>>

CsvGetNextRecordW ==
  /\ MayUse
  /\ IF csv.mode # "read"
     THEN Refused("CsvGetNextRecord", "INVALID_OPERATION")
     ELSE SeparatorFits /\ NextRecord("CsvGetNextRecord", FALSE)

(* On a handle opened for writing the array to convert was never assigned:   *)
(* its fields are read through an uninitialised pointer.                     *)
CsvGetNextRecordA ==
  /\ AnsiCalls /\ MayUse
  /\ IF csv.mode # "read"
     THEN Crash \/ Refused("CsvGetNextRecordA", "INVALID_OPERATION")
     ELSE SeparatorFits /\ NextRecord("CsvGetNextRecordA", TRUE)

-----------------------------------------------------------------------------
(* The other calls on a handle.                                              *)

(* Mutant: the position is kept at the end of the file.                      *)
ResetForgetsPosition ==
  /\ MayUse
  /\ IF csv.mode # "read" THEN Refused("other", "INVALID_OPERATION")
     ELSE /\ csv.records <= MaxRecords
          /\ Succeeds("CsvResetFile",
               [csv EXCEPT !.cur = 0, !.eof = FALSE], <<>>, 0)
          /\ UNCHANGED <<file, fileSep, written, mapped, process>>

(* Bound of the model: a reader that has counted enough is not reset.        *)
CsvResetFile ==
  /\ MayUse
  /\ IF csv.mode # "read" THEN Refused("other", "INVALID_OPERATION")
     ELSE /\ csv.records <= MaxRecords
          /\ Succeeds("CsvResetFile",
               [csv EXCEPT !.cur = 0, !.pos = csv.after, !.eof = FALSE], <<>>, 0)
          /\ UNCHANGED <<file, fileSep, written, mapped, process>>

(* Mutant: a quote is accepted as the separator.                             *)
SetOptionUnchecked(eCsvOption, value) ==
  /\ MayUse /\ ~Started
  /\ eCsvOption = "separator"
  /\ Succeeds("other", [csv EXCEPT !.sep = value], <<>>, 0)
  /\ UNCHANGED <<file, fileSep, written, mapped, process>>

(* The value is checked by CsviOptionSetFieldSeparator, whose refusal        *)
(* CsvSetOption ignores. Options that are unknown or not implemented are     *)
(* both "UNSUPPORTED".                                                       *)
CsvSetOption(eCsvOption, value) ==
  /\ MayUse
  /\ IF Started THEN Refused("other", "ALREADY_STARTED")
     ELSE IF eCsvOption \notin {"separator", "enquote"}
     THEN Refused("other", eCsvOption)
     ELSE /\ Succeeds("other",
               [csv EXCEPT
                 !.sep = IF /\ eCsvOption = "separator"
                            /\ value \notin {Quote, EndOfLine}
                         THEN value ELSE @,
                 !.always = @ \/ eCsvOption = "enquote"], <<>>, 0)
          /\ UNCHANGED <<file, fileSep, written, mapped, process>>

CsvUnsetOption(eCsvOption) ==
  /\ MayUse
  /\ IF Started THEN Refused("other", "ALREADY_STARTED")
     ELSE IF eCsvOption \notin {"separator", "enquote"}
     THEN Refused("other", eCsvOption)
     ELSE /\ Succeeds("other",
               IF eCsvOption = "separator" THEN [csv EXCEPT !.sep = Comma]
               ELSE [csv EXCEPT !.always = FALSE], <<>>, 0)
          /\ UNCHANGED <<file, fileSep, written, mapped, process>>

(* The handle is looked up by the function that resets dwLastError.          *)
CsvGetLastError ==
  LET o == [csv EXCEPT !.err = "NO_ERROR"]
  IN  /\ MayUse
      /\ csv' = o
      /\ ret' = [call |-> "CsvGetLastError", ok |-> TRUE, values |-> <<>>,
                 number |-> 0, error |-> o.err]
      /\ UNCHANGED <<file, fileSep, written, mapped, failure, process>>

CsvGetHeaderNumberOfFields ==
  /\ MayUse
  /\ Succeeds("other", csv, <<>>, csv.n)
  /\ UNCHANGED <<file, fileSep, written, mapped, process>>

CsvClose ==
  /\ MayUse
  /\ Succeeds("other", NoObject, <<>>, 0)
  /\ UNCHANGED <<file, fileSep, written, mapped, process>>

-----------------------------------------------------------------------------
Init ==
  /\ file \in InitialFiles /\ fileSep = Unset
  /\ written = [header |-> <<>>, records |-> <<>>]
  /\ csv = NoObject /\ mapped = FALSE
  /\ ret = [call |-> "other", ok |-> TRUE, values |-> <<>>, number |-> 0,
            error |-> "NO_ERROR"]
  /\ failure = "NO_ERROR"
  /\ process = "running"

Finished == process = "dead" /\ UNCHANGED vars

Opening ==
  \/ \E h \in Headers : CsvOpenWriteW(h)
  \/ \E b \in BOOLEAN : CsvOpenReadW(b) \/ CsvOpenAppendW(b)
  \/ \E s \in FilterSets : CsvOpenReadWithFilteredSetW(s)

Writing ==
  \/ CsvWriteNextRecordWithTypes
  \/ \E ts \in [1..csv.n -> Texts] :
       CsvWriteNextRecordW(ts) \/ WriteStops(ts)

Reading == CsvGetNextRecordW \/ CsvGetNextRecordA \/ CsvResetFile

Setting ==
  \/ \E c \in Separators : CsvSetOption("separator", c)
  \/ \E e \in {"enquote", "UNSUPPORTED"} :
       CsvSetOption(e, Comma)
  \/ \E e \in {"separator", "enquote", "UNSUPPORTED"} :
       CsvUnsetOption(e)

Next ==
  \/ Opening \/ Writing \/ Reading \/ Setting
  \/ CsvGetLastError \/ CsvGetHeaderNumberOfFields \/ CsvClose
  \/ Finished

Spec == Init /\ [][Next]_vars

-----------------------------------------------------------------------------
(* Properties.                                                               *)

Grammar == INSTANCE CsvGrammar

RecordSeparator == IF fileSep = Unset THEN Comma ELSE fileSep

Errors ==
  {"NO_ERROR", "END_OF_FILE", "END_OF_LINE", "UNEXPECTED_EOF",
   "QUOTE_IN_FIELD", "FIELD_TERMINATOR", "INVALID_OPERATION",
   "INVALID_PARAMETER", "ALREADY_STARTED", "UNSUPPORTED",
   "WRITE_FAULT"}

(* Type invariant: the fields of the object, the counters within the bounds  *)
(* of the model, and a separator that is never a quote or an end of line.    *)
TypeOK ==
  /\ written.header \in Headers \cup {<<>>}
  /\ \A k \in DOMAIN written.records :
       written.records[k] \in [1..Len(written.records[k]) -> Texts]
  /\ fileSep \in Separators \cup {Comma, Unset}
  /\ csv.mode \in {"closed", "read", "write", "append"}
  /\ csv.sep \in (Separators \cup {Comma}) \ {Quote, EndOfLine}
  /\ {csv.always, csv.eof, mapped, ret.ok} \subseteq BOOLEAN
  /\ {csv.n, csv.cur, csv.pos, csv.after, csv.records, ret.number} \subseteq Nat
  /\ csv.mode # "closed" => csv.n > 0
  /\ {csv.err, ret.error, failure} \subseteq Errors
  /\ process \in {"running", "dead"}

(* The reader never consumes a character behind the end of the mapped file.  *)
(* It consumes characters without looking, so this rests on the counting of  *)
(* rounds in CsviReadField ("end of the file (remaining=0) => end of the     *)
(* file, last record not properly enquoted & not terminated with a LF:       *)
(* ERROR").                                                                  *)
ReadsWithinFile == csv.mode = "read" => csv.pos <= Len(file)

(* The file holds, by the reference grammar, the header and the records that *)
(* the host wrote: quoting is complete, fields and lines end where they      *)
(* should, also after the file was closed and opened again for appending;    *)
(* each record has as many fields as the header.                             *)
FileHoldsRecords ==
  file # <<>> => /\ Grammar!Header(file) = written.header
                 /\ \A k \in DOMAIN written.records :
                      Len(written.records[k]) = Len(written.header)
                 /\ Grammar!Records(file, RecordSeparator) = written.records

(* The records a reader has passed.                                          *)
RecordsPassed ==
  IF csv.mode = "read" THEN Grammar!LinesBefore(file, csv.pos) - 1 ELSE 0

(* What a filtered read copies, of a set of any size: the first field of the *)
(* set, from the record it has passed, in the first place. No unwanted field *)
(* is copied, wherever the wanted one stands in the header, and no other     *)
(* wanted field either.                                                      *)
FirstFilteredFieldOnly ==
  ret.call = "CsvGetNextRecord" /\ ret.ok /\ csv.filter # <<>> =>
    LET record == written.records[RecordsPassed]
    IN  ret.values = [k \in DOMAIN record |->
                       IF k = 1 THEN record[csv.filter[1]] ELSE Unset]

(* CsvGetLastError tells how the call before it ended.                       *)
LastErrorTold == ret.call = "CsvGetLastError" => ret.error = failure

(* Whatever the file holds, a call of CsvGetNextRecord consumes a character  *)
(* or reports the end of the file: a loop until END_OF_FILE ends.            *)
ReadsProgress ==
  [][ret'.call = "CsvGetNextRecord" /\ csv'.mode = "read"
       /\ process' = "running"
     => csv'.pos > csv.pos \/ csv'.err = "END_OF_FILE"]_vars

(* The file is a stream of records: calls change it only by the record that  *)
(* was written, and a reader gets what the host wrote, one record after the  *)
(* other, and the end only after the last. What a filtered read leaves out   *)
(* of the record is FirstFilteredFieldOnly's matter.                         *)
Stream == INSTANCE CsvStream WITH
  header <- written.header,
  records <- written.records,
  cursor <- RecordsPassed,
  mode <- IF csv.mode = "append" THEN "write" ELSE csv.mode,
  result <-
    [kind |-> IF ret.call = "CsvWriteNextRecord" /\ ret.ok THEN "written"
              ELSE IF ret.call = "CsvResetFile" THEN "reset"
              ELSE IF ret.call # "CsvGetNextRecord" THEN "other"
              ELSE IF ret.ok THEN "read"
              ELSE IF ret.error = "END_OF_FILE" THEN "end"
              ELSE IF ret.error = "INVALID_OPERATION" THEN "other"
              ELSE "error",
     values |-> IF ret.call \notin {"CsvWriteNextRecord", "CsvGetNextRecord"}
                THEN <<>>
                ELSE IF ret.ok /\ csv.filter # <<>>
                THEN written.records[RecordsPassed]
                ELSE ret.values]

StreamImplemented == Stream!Spec
=============================================================================
