# TLA+ models of ADCP-libdev

ADCP-libdev is a set of C libraries for Windows used by the Active Directory
control-paths tools: CSV files, Json files, LDAP, a cache, a log and common
utilities. This directory holds TLA+ models of their core, the configurations
that model-check them with TLC, and proofs checked by TLAPS.

## 1. Inventory

All libraries are linked into a host program and called from its threads; they
keep their state in global variables and on private heaps. There are no
messages: components interact by calls, by the handles a library gives out and,
between threads, by shared global state.

| Component | State | Operations | What is hard | What must hold |
|---|---|---|---|---|
| **LibCsv, handle table** (`LibCsv/src/CsvLib.c`) | mutex, table `gs_sCsvHandleTable` (size, count, entries), heap, open files | `CsvLibInit`, opens, `CsvClose`, `CsvLibCleanup`, `CsviGetObjectByHandle` | threads; the mutex covers the table and not the objects; a double release; error paths | exact count, free slot found, one owner per handle, a handle names a live object until it is closed, every call returns |
| **LibCsv, reader and writer** | per object: file position, current field, EOF flag, record count, last error, options, header | `CsvGetNextRecord`, `CsvWriteNextRecord`, `CsvResetFile`, options, filtered sets, `CsvGetLastError` | field syntax at the end of a file, error states left half way, resets | what is written is read back; an error is reported and remembered; a reset starts again |
| **LibJson** (`JsonLib.c`, `JsonInternals.c`) | object table (no mutex), token array, cursor per object, a global last error | open, parse, get next object, foreach, restart, release | a cursor that moves while it searches; objects that refer to their parent's tokens; empty containers | each element visited once; a failed search changes nothing visible; no handle leaks |
| **LibLdap, connection** (`LdapLib.c`) | connection, session, root DSE | connect, bind, close | error paths that unbind and keep the pointer | a session is unbound once |
| **LibLdap, requests** | request, cookie, page, current entry | init request, next entry, release | paging, pages freed while an entry is current | each entry returned once; a page is freed once |
| **LibLdap, ranged attributes** (`LdapInternals.c`) | loop over ranges | extract attributes | a server that returns short or empty ranges | the values of all ranges, once each, in order; termination |
| **LibCache** (`CacheLib.c`) | AVL tables by name, shared heap | create, insert, lookup, destroy, cleanup | deletion during enumeration, an inverted guard | lookups find what was inserted; destroy empties |
| **LibLog** (`LogLib.c`) | log file, levels, formatting buffer | init, set file, set level, log, close | order of set and close | a message goes to the file open at the time |
| **LibUtils** (`UtilsLib.c`, `UtilsGetopt*.c`) | heaps; getopt scanner state | heap wrappers, string pairs, getopt | argument permutation | the permutation keeps every argument and the order within each kind |
| libxml2-static, headers, projects, `*.tmh` | none | none | vendored or generated | not modelled |

The heap wrappers of LibUtils never return NULL: a failed allocation ends the
process. All models rely on this (no allocation-failure branch).

The hazards, each at its source line, with the properties that watch it, are in
`PROJECT.json`.

## 2. Plan

Done: the CSV handle table (section 3), the CSV records (4), the Json library
(5), the LDAP library (6) and the complex getopt (7), in this order. Each
detailed model comes with an abstract one that it is shown to implement. The
abstract ones share only data types with the detailed ones, with one exception:
`GetoptReading` takes the parsing of a single option from `GetoptText`, as
`Getopt` does, so their comparison is about the order in which arguments are
read and says nothing of that parsing.

| Abstract | Detailed | The promise |
|---|---|---|
| `CsvRegistry` | `CsvHandles` | an atomic map that hands out the smallest free handle |
| `CsvStream` | `CsvRecords` | a stream of records that grows at its end and is read in order |
| `JsonWalk` (with `JsonGrammar`) | `JsonLib` | an iterator over the elements of a text |
| `LdapResults` | `LdapLib` | a cursor over the entries that exist |
| `GetoptReading` | `Getopt` | a reader that goes from left to right and moves nothing |

Left, in this order:

1. A proof that the tokens of a Json text are the elements that `JsonGrammar`
   finds in it (`GrammarAgrees`, a hypothesis of the last two Json theorems);
   and that the text of a container parses to its part of the tokens, so that
   `Untroubled` need only be asked of the texts of the host.
2. A header write that fails in `CsvOpenWrite`; ranges without values in LDAP.
3. Cache and log, if a property of theirs turns up that is worth the run.

## 3. The CSV handle table

### Modules

| Module | Models |
|---|---|
| `CsvHandleTypes` | the data of the table: slots, growth by `HeapReAlloc` with zeroed memory, the scan for a free slot, the handle check |
| `CsvHandles` | the detailed model: table, mutex, heap, files and the threads of the host |
| `CsvRegistry` | what the table promises: an atomic map from handles to objects that gives out the smallest free handle |
| `MCCsvHandles` | the instance for TLC (symmetry of threads and objects) |
| `CsvHandlesProofs` | theorems on the types, the mutex and the count, on the objects behind handles, the refinement, and the files that a cleanup closes |

### State and actions

`dwTableSize`, `dwEntryCount` and `pEntries` are the fields of
`gs_sCsvHandleTable`; `mutex` is the recursive Windows mutex with its owner and
recursion count; `heap` and `files` are the live `CSV_OBJECT` blocks and the
objects with an open OS file. `pc`, `op`, `hnd`, `obj`, `idx` are each thread's
program point, API call, handle, local `pCsv` and local `i`. `owned` is the
host's side: the handles a thread was given and has not closed. `process`
says what has killed the process: "table" for a NULL or wild pointer that the code
of the table follows, "null" for a failed open that has no object, "freed" for one
that writes into the object it has freed.

Steps are cut at every point another thread can notice: the wait for the mutex,
the guarded statements, each `ReleaseMutex`, and every use of `pCsv` after the
release.

| C function | actions |
|---|---|
| `CsvLibInit` | `CsvLibInit` |
| `CsvOpenReadW`, `CsvOpenWriteW`, `CsvOpenAppendW`, `CsviOpenFile`, `CsviNewObject`, `CsviExtendHandleTable` | `CsviOpenFile` or `CsviOpenFileFails`, `NewLock`, `CsviExtendHandleTable`, `NewScan`, `NewStore`, `NewUnlock`, `OpenInit`, then `OpenSucceeds`, `OpenLeaks` (the object stays registered) or `OpenHeaderFails` (close, then `OpenFailWrite` through the pointer to the freed object, which goes unnoticed or kills the process) |
| `CsviGetObjectByHandle` | `GetLock`, `GetLookup`, `GetUnlock`, `GetStamp` / `GetFail` |
| the calls that read or write an object | `CallUse`, the lookup, `Use` |
| `CsvClose`, `CsviReleaseObject` | `CallClose`, the lookup, `CloseFile` / `CloseFileFails`, `RelLock`, `RelFree`, `RelUnlock`, `RelExit` (the second release) |
| `CsvLibCleanup` | `CallCleanup`, `CleanLock`, `CleanCount`, `CleanLoop` (each entry goes through `CsvClose`), `CleanFree`, `CleanUnlock` |

### Assumptions about the host

A thread passes only handles it was given, or the invalid handle; it drops a
handle it passes to `CsvClose` unless the call fails; two threads do not share a
handle. With `CleanupQuiescent` the host calls `CsvLibCleanup` when no call is
running and starts none afterwards; without it the cleanup may run at any time.
`FailingCalls` lets headers be malformed and mappings, writes and closes fail;
`MissingFiles` lets `CreateFileW` fail. The library itself states none of these
rules; each run says which it uses.

### Runs

| Run | Instance | Shows |
|---|---|---|
| `csv_handles` | 2 threads, 2 objects, growth by 1, missing files, failing calls, quiescent cleanup | types, exact count, free slot at the unchecked store, exclusive handles, table = heap, never two threads in guarded sections; the last write of a failed open is the only use of a freed object, and no access of the table's own code kills the process; an owned handle keeps its object; the table implements `CsvRegistry`; every call returns, unless a failed open ends the process |
| `csv_cleanup` | 2 threads, 3 objects, growth by 2, no missing file, no failing call | the cleanup closes every file, in a table that has grown and has holes |
| `csv_cleanup_lost_lock` | violation | after its first `CsvClose` the cleanup no longer holds the mutex |

A thread that uses `pCsv` without the mutex is at one of the `UnlockedUses`, and
the last write of a failed open is one of them. `OnlyFailedOpenUsesFreed` says
what is right about all the others. A failed open ends the process where it
follows NULL and may end it where it follows the freed pointer; what a write
into a block that was given out again does to the object there is not modelled
(it changes `dwLastError`, which is part of `CsvRecords` and not of this model).

Bounds. `Objects` bounds the files open at the same time; `HeapHasRoom` is the
guard that applies it. A growth step of 1 makes every second open extend the
table, which the C value of 16 does after sixteen; with two objects the table is
extended twice, and a slot is freed and given out again between two others. Two
threads suffice for every pairwise race; that three behave no differently is
what the theorems say of all properties but `CallsReturn`. Nothing else is bounded: threads call for ever, so the
runs cover every length of history.

### Fairness

`Spec` assumes weak fairness of the steps of each call (a running thread keeps
running) and strong fairness of the waits for the mutex (the kernel serves the
waiters of a mutex in turn, so a thread that waits is not passed over for ever).
No fairness is assumed of the host: it need not call anything. `CallsReturn`
holds under it, the refused handle and the recursive acquisition in the cleanup
included. It allows the two ends of the process in a failed open and no other.

### Proofs

`CsvHandlesProofs` proves, for any set of threads and objects, any positive
growth step and either value of every switch:

| Theorem | Statement |
|---|---|
| `TypeCorrect` | `Spec => []TypeOK` |
| `TableIsExclusive` | `Spec => []TableExclusive` |
| `EntryCountIsExact` | `Spec => []EntryCountExact` |
| `StoreIsSafe` | `Spec => []StoreFindsFreeSlot` |

None of them needs the host's discipline. The first two share the inductive
invariant `LockIInv`: `TypeOK`, `UnloadedIdle` (no call runs before
`CsvLibInit`) and `LockInv`. Exclusion is not inductive by itself: the second
`ReleaseMutex` of `CsviReleaseObject` could give up a section somebody is in.
`LockInv` says that a thread at a guarded step owns the mutex; it is preserved
because a release acts only on the caller's own acquisitions, and every point
that follows a release is outside the guarded steps. The other
two use `CountIInv` on top of it: `CountInv` (the count is exact until the table
is freed) and `ScanInv` (a thread that scans found room, a thread about to store
points to a free slot). `ScanInv` needs exclusion, since another thread's
store would falsify it; the arithmetic of cardinalities is in `UsedSlotsFinite`,
`ExtendKeepsUsed` and the lemmas on finite sets of the TLAPS library.

Its second part adds what needs the host's discipline. Those theorems assume
`Disciplined`, which is `CleanupQuiescent`: a cleanup loses the mutex half way
(`csv_cleanup_lost_lock`) and keeps nobody out. Files may be missing or malformed
and calls may fail.

| Theorem | Statement |
|---|---|
| `HandlesStayExclusive` | `Spec => []HandlesAreExclusive` |
| `TableMatchesHeap` | `Spec => []TableIsHeap` |
| `OnlyFailedOpensMeetFreed` | `Spec => []OnlyFailedOpenUsesFreed` |
| `TableKillsNoProcess` | `Spec => []TableNeverCrashes` |
| `OwnedHandlesKeepObjects` | `Spec => OwnedHandlesStable` |
| `TableImplementsRegistry` | `Spec => RegistryImplemented` |
| `CleanupLeavesNoFile` | `Spec => []CleanupClosesFiles`, if no call fails |

None of the four invariants is inductive alone, and they need each other:
`TableIsHeap` after a release needs that the slot holds the thread's own object,
which needs that nobody else was given the handle. `ObjIInv` puts them together.
`ThreadInv` says of each thread which call a step belongs to, which steps work
on a handle of its own (`Claiming`), and at which ones `pCsv` must be the object
of that handle (`Pointing`); `Disjoint` says that no two threads claim the same
handle; `Quiet` is the discipline. A thread at the last write of a failed open
claims nothing any more. A process ends in a failed open only (`HowProcessesDie`),
which changes nothing else (`DeathStep`). Most steps are `Local`: they touch only their
thread's variables and claim nothing new, so `LocalStep` carries the whole
invariant over. Four steps change the table; `SharedStep` reduces three of them
(growth, store, release) to: no handle that another thread claims loses its
object. The fourth, the freeing of the table, happens when nobody is left.

For the refinement each step maps to one of `CsvRegistry` or to a stutter: a
store to `Register` (`StoreInv`: the scanned slot is the smallest free one, and
stays so until the store, because of exclusion), a release to `Release`, the end
of the cleanup to `Clear`, a lookup or a return to `Find`, the rest to no change.

`CleanupLeavesNoFile` is for a `Disciplined` host and no failing call (a failed
close leaves its file open). `LoopInv` says that no slot below the loop's index is in use, wherever in
the nested `CsvClose` the cleanup is; `FilesInv` says that open files belong to
live objects and that a file is closed before its object is freed. At the end of
the loop no slot is used, so by `TableIsHeap` no object is left and no file. The
loop is skipped when the count is 0, which is right because of `CountInv`.

Only model-checked: `CallsReturn` (liveness, out of the prover's reach).

### Defects met

`csv_cleanup_lost_lock`: `CsviReleaseObject` releases the mutex twice
(`CsvLib.c:579` and `583`), so `CsvLibCleanup` loses the lock it took after its
first close. Under the quiescent discipline this is harmless.

Two more defects are steps of the model, which the properties above name as
the only ones of their kind:

* `CsviOpenFileFails`: after a failed `CreateFileW` the error macro of
  `CsvOpenRead`, `CsvOpenWrite` and `CsvOpenAppend` (`CsvLib.c:672`, `901`, `950`)
  follows the NULL pointer that `CsviOpenFile` has left. The test of the library
  (`LibCsvTest.c:120`) expects an error there.
* `OpenFailWrite`: an open that fails on the header calls `CsvClose`, which
  frees the object, and then writes the error through `pCsv` (`681`, `960`, and
  `768` for a filtered set). The caller cannot learn the error, and another
  thread's object may get it.

### Left out

A second `CsvLibInit` after a cleanup (the table keeps its size with a freed
array), and handles shared between threads. The mapping of a file is in
`CsvRecords`.

## 4. The CSV records

### Modules

| Module | Models |
|---|---|
| `CsvText` | the syntax: `CsviWriteField` and `CsviReadField` as functions on sequences of characters, with the header and record loops around them |
| `CsvRecords` | the state machine: one file, one handle open at a time, each API call a step |
| `CsvGrammar` | a reference definition of CSV text by the parity of quotes; it shares nothing with `CsvText` |
| `CsvStream` | what the library promises: a stream of records that grows at its end and is read in order |
| `MCCsvRecords` | headers, fields and files for TLC |
| `CsvRecordsProofs` | theorems on the types and on the progress of reads, for any file |
| `CsvStreamProofs` | theorems on what is written and read back |

### State and actions

`file` is the text, `fileSep` the separator its records were written with and
`written` what the host gave the library for it: the last two are history, for
the properties and for the host's own discipline. `csv` is the `CSV_OBJECT`:
`cur`, `pos`, `eof`, `err`, `n`, `after`, `records`, `sep` and `always` are
`dwCurrentField`, `llPosition`, `bEofReached`, `dwLastError`,
`dwNumberOfFields`, `llPositionAfterHeader`, `dwNumberOfRecords`, `tSeparator`
and the option bit; `filter` is `pdwFilteredSetIndexes`, counted from 1.
`mapped` is true once a view was left that nobody unmaps. `ret` is what the last
call returned and `failure` how the last call before a `CsvGetLastError` ended.

There is one action per API function, under its name. `WriteStops` is the way
out of `CsvWriteNextRecordW` when `WriteFile` fails or is short: any proper
prefix of the record is in the file, and only complete fields are counted.
`CsvOpenReadWithFilteredSetW` includes the open it calls. A character read
behind the mapping is `NullChar`, which is what the rest of the last page holds.

Characters are model values: quote, end of line, comma, another separator and a
letter are all the code tells apart; `Characters` is the set of them, any set
that has at least the quote, the line end, the comma and `NullChar`. `CsvText` uses recursive functions and no
RECURSIVE operator, so that it can be used under proofs.

### Assumptions about the host

With `SameSeparator` the host sets the separator the file was written with
before it reads or appends (the file does not say it). Without
`RewritesReadFiles` it does not create a file again that it has read before.
It does not open files that are missing or empty. Filtered sets, ANSI calls and
failing writes are switched per run.

### Runs

| Run | Instance | Shows |
|---|---|---|
| `csv_records` | 1 or 2 columns (an empty name among them), 2 records, 2 separators and a refused one, a filtered set of two names in another order than the header | types; the file parses to what was written; a filtered read gives the first field of the set and no other; the library implements `CsvStream` |
| `csv_codec` | 2 columns, 1 record, all fields of up to 2 quotes and commas, and line ends | the file parses to what was written and is read back, for each placement of special characters |
| `csv_garbage` | any text of up to 2 characters behind a header line, records possibly cut off, filtered sets of two names, ANSI reads | a read consumes a character or reports the end |
| `csv_truncated` | violation | characters behind the mapping are consumed |

Bounds. `MaxRecords` bounds the records written to a file, in the guard of the
writes, and the resets of a reader. Two records are enough for a read, a reset
in the middle, an append after a reopening and the end of the file to occur in
every order; the number of calls is not bounded. `DwordValues` is the range of
`dwCurrentField`; its 64 values are never used up in the runs.
Fields of two characters contain every pair a scan can meet: the reader looks at
two characters at a time. No fairness is assumed, and no liveness stated: the
calls are steps, and `ReadsProgress` is the safety half of termination.

### Proofs

`CsvRecordsProofs` proves, for any characters, any headers, fields and files of
any length, any width of `dwCurrentField` and every switch of the host:

| Theorem | Statement |
|---|---|
| `TypesAreCorrect` | `Spec => []TypeOK` |
| `EveryReadProgresses` | `Spec => ReadsProgress` |

Both rest on what one call of `CsviReadField` does (`ReadFieldOutcome`): it
consumes at least one character, or it is at the end and says so. The field is
found by recursive functions over the places of the text. The library's
induction theorems cannot be used for them, so `Recursion` first shows that a
function with the given steps exists, and `Induction`, by the least number that
fails, that each value has the type that is claimed. The inductive invariant
`TypeInv` is stronger than `TypeOK`: an object that is open has at least one
field (`OkObject`), without which a read would loop over no field and consume
nothing, and its separator is neither the quote nor the end of a line, which the
checks of `CsvSetOption` guarantee.

`CsvStreamProofs` proves the round trip of texts, for any characters, headers,
fields, separators and any number of records, files and calls:

| Theorem | Statement |
|---|---|
| `StreamIsImplemented` | `Regular => (Spec => StreamImplemented)` |
| `FirstFilteredFieldIsCopied` | `Regular => (Spec => []FirstFilteredFieldOnly)` |
| `FileHoldsWhatWasWritten` | `Regular => (Spec => []FileHoldsRecords)` |

`Regular` is the host of `csv_records` and `csv_codec`, which satisfy it: it
begins with no file, sets the separator of the file, calls no ANSI variant, and
its writes are complete. It has two conditions on the data, each for a behaviour
described below: the last name of a header is not empty (the header could not be
opened again), and `MaxRecords + 1` lines have no more fields than
`dwCurrentField` counts (after a wrap in the middle of a record, records end at
the wrong place). Filtered sets are of any size.
`UnsetAssumption` of `CsvText` says that a NULL pointer is not a text.

The argument goes through a relation and not through functions. `FieldAt(f, p,
q, t, sep, c)` says that between the places p and q of the file lies the field t,
plain or enquoted, and its closing character c; for an enquoted field it has the
place of every character of t in the file (`Spread`). `WrittenFieldAt` shows that
`CsviWriteField` puts such a field at the end of a file, `FieldStays` that it is
still there when the file has grown, and `FieldRead` that `CsviReadField` finds
exactly it: `PlainRead` by the least place that ends the field, `QuotedRead` by
induction over the rounds of the scan. `RecordAt` and `FileAt` chain fields to
records and records to a file. The closing character depends on the count of all
fields of the file (`IsLastField`): `Counting` shows that it is the line end just
for the last field of a record, as long as the count starts at a multiple of the
record's length (`StartsRecord`).

The inductive invariant `StreamInv` says that the file is such a chain with some
places `mark` between its records (`Marked`), and that a reader stands at one of
them, with a count that a number of whole records explains (`PositionInv`); after
a reopening, a reset or a header the count starts again at a multiple that need
not be that of its place. `FileLines` connects the places with the reference
grammar: as many unprotected line ends precede `mark[k]` as k records and a
header have, so `RecordsPassed` is k. With that each call is one step of
`CsvStream` or a stutter, and `HoldingInv` adds for the other theorem that
the host's array keeps what was stored of the record that was passed.

`FileHoldsWhatWasWritten` needs no invariant beyond `StreamInv`: it says that
`CsvGrammar`, which looks at the whole file and knows no reader, finds in such a
chain what was written. `PiecesAt` is its bridge to a definition by sorting: the
cuts of a text are the places of the unprotected closing characters (`Cut`), one
behind the other, and there is one such enumeration (`RisingInOrder`). Line ends
of a file are the marks; the cuts of one line, taken alone, are the closing
characters of its fields, because every record begins unprotected (`RecordCut`,
`LineFields`); and `FieldText` undoes the quotes.

### Defects met

`csv_truncated`: characters behind the mapping are consumed in a file that
ends inside an escaped field (`CsvLib.c:324`).

`Filtered` and `NextRecord` have another one: the j-th wanted field is stored through
`pptCsvRecordValues[j]` and not in the array (`CsvLib.c:843`), so only the first
name of a set is served; for the others the code follows what lies behind the
host's variable. `NextRecord` lets this go unnoticed or kill the process.
`FirstFilteredFieldOnly` is what still holds of sets of any size.
As in section 3, an open that fails on the header or the set writes into the
object it has freed, and may kill the process there.

Other behaviour that the model has and that limits what the runs assume:
`CsvGetLastError` clears the error by looking its handle up (`1186`; see
`LastErrorTold`, which no run checks because of this); a header with an empty
last name can be written and crashes the reader (`274`, `690`); the record number
is 0 after the call that meets the end (`815`); a file that was read stays mapped, and creating it again crashes (`1080`, `900`);
a separator ends an enquoted last field (`393`); after `dwCurrentField` has
wrapped, records end at the wrong place when the number of fields does not
divide 2^32 (`536`); an interrupted write leaves the field count inside a record
(`1023`).

### Left out

A write that fails while `CsvOpenWrite` writes the header, an empty file (whose
mapping fails and leaves the handle registered, as `OpenLeaks` in
`CsvHandles`), failing `UnmapViewOfFile` calls, several handles on one file,
files with an odd number of bytes, and the text conversions of the A variants
other than `CsvGetNextRecordA`.

## 5. The Json library

### Modules

| Module | Models |
|---|---|
| `JsonText` | the tokenizer: `jsmn_parse` character by character, as the library builds it (without `JSMN_STRICT`), and `JsoniParseJS`, which enlarges the token array when it is full and resumes |
| `JsonCursor` | `JsoniBrowseJsonFile` with `SkipJsonTokenIfNeeded`: the cursor of a container and its states KEY, SKIP, PRINT, STOP |
| `JsonLib` | the state machine: the object table, the public objects of the host, opens, `JsonGetNextObject`, restart, release, both loops with their callbacks |
| `JsonGrammar` | a reference: the tree of a text by the nesting of brackets, without tokens |
| `JsonWalk` | what the library promises: each container gives its elements once and in order, a search that finds nothing moves nothing |
| `MCJsonLib` | texts, names and requests for TLC |
| `JsonTextProofs` | what the tokenizer and the cursor return, for every text |
| `JsonProofs` | the theorems |

### State and actions

`gs_sJsonHandleTable` and `gs_dwJsonLastError` have the names they have in C.
An entry of the table is a `JSON_OBJECT`: its type, its text, the parser with
the tokens, and the cursor (`idx`, `rem`, `state`). `objects` holds, for each
variable of the host, the public object that `JsonOpen...` or
`JsonGetNextObject` filled, `loop` the running `JsonForeachElement` or
`JsonObjectForeachRequestedElement`, and `told` what the last call returned. A
call is a step, since the library has no lock and is called from one thread;
a loop is cut at its callbacks, in which the host may use every other object.

A text is a sequence of characters. A character counts by what the tokenizer
makes of it; "bad" stands for those a primitive may not contain.

### Assumptions about the host

`CarefulHost`: a container whose first search found nothing is restarted before
it is read again (its cursor stands on the root token, which the next call takes
for an element), and a container that was not read is not restarted
(`JsonRestartParsing` does not parse). A variable is used again only after its
object was released.

### Runs

| Run | Instance | Shows |
|---|---|---|
| `json_walk` | nested, empty and malformed texts, searches with and without a name, three requests for the loop, failing opens and callbacks | types, exact count, one internal object per public object, resumed parses give the tokens of one parse, the cursor stands on the next element, an error is told after each failure but that of a missing file and after no success, no wild read, the library implements `JsonWalk` |
| `json_loops` | an object and an array in loops; callbacks that open, search, restart and release | one internal object per public object, a loop counts each element once, whatever its callbacks did to other objects |
| `json_empty_container` | violation: an array that begins with an empty array | the cursor passes over the element behind an empty container |

Bounds. `MaxEntries` bounds the internal objects, because an open leaves one
that nobody can release; four allow a container, its element and an element of
that at once. In `json_loops` there are five, and four variables: enough for two
open texts, the element of a loop and what its callback takes from the other
text, and for requested loops over the object to reach their end; it needs no failing
opens, and its texts are two short ones. `HandleTableDelta` of 2 makes the table grow in the middle of a
walk; `DefaultTokenCount` of 1 makes every parse resume. `MaxFailures` lets an
open fail only while fewer objects exist. The texts hold each kind of value, a
name with an escaped quote and a bracket, and containers in both places of a
member. No fairness is assumed: nothing here has to happen. Deadlock is not
checked, since the host stops after the cleanup or at the bounds.

### Proofs

`JsonProofs` proves, for any variables and requests of the host, any growth step
and any first size of the token array, and but for the last four theorems for any
texts and a careful host or not:

| Theorem | Statement |
|---|---|
| `CountIsExact` | `Spec => []EntryCountExact` |
| `HandlesStayExclusive` | `Spec => []HandlesAreExclusive` |
| `TypesHold` | `Spec => []TypeOK` |
| `TokensHold` | `Spec => []TokensAreOfText` |
| `OnlyMissingFilesGoUntold` | `Spec => []OnlyMissingFilesUntold` |
| `CursorStaysAtElements` | `Spec => []CursorAtElement`, for the hosts and texts below |
| `NothingCrashes` | `Spec => []NeverCrashes`, for the same hosts and texts |
| `LoopsCount` | `Spec => []LoopCountsEach`, for the same, if tokenizer and grammar agree |
| `WalkIsImplemented` | `Spec => WalkImplemented`, for the same, if tokenizer and grammar agree |

Of the constants they use that a text is a sequence of characters other than NUL
(`TextsAssumption`: `pvData` is a C string, and `jsmn_parse` stops at its end),
that the table grows by at least one entry, and that no type of an object is the
mark of an empty slot (`NullAssumption`).

The inductive invariant is `TableInv`. `TableOk` is the exact count, with a
table that is large enough for it, and `IsObject` for each entry in use;
`HoldersOk` says that each public object names a used entry that no other
public object names; `LoopOk` that a running loop holds its container and its
element in two different variables, both in use. The count needs the exclusion: a
release takes one from the count, and were the same entry released twice through
two public objects it would take two for one. Exclusion needs `LoopOk`: the loop
releases its element by itself, between two callbacks in which the host may
release what it holds.

`IsObject` is about what an entry holds: tokens that lie inside its text, an
empty parser until its first use, and after it the parser that one call of
`jsmn_parse` with enough room would have left. That each call keeps this is what
`JsonTextProofs` is for. Tokenizer and cursor are recursive functions over
parsers and walks. Their termination comes first: each step of `jsmn_parse` moves
`pos` on, and each round of `JsoniBrowseJsonFile` moves its index on or ends,
because behind the last token it reads tokens without children (`ParseUnrolls`,
`BrowseFacts`). Then the seam: a parse that ends for lack of room returns the
state it had before the token that did not fit, so that resuming it does what the
roomy parse does from that state on (`ParseResumes`, and `ParseJSFacts` over the
doublings). Last, what the tokens are: `Nested` says that tokens are in the order
of their starts, that two of them are one inside the other or apart, that the
super token is the last open one, and that each token has counted the tokens
right inside it; each step of the parser keeps it (`ParseKeepsNested`), and when no
token is open any more it gives the second part of `TokensAreOfText`
(`ChildrenCounted`).

`OnlyMissingFilesUntold` is inductive with `TableInv`. `ToldAs` says of the answers of
`JsonGetNextObjectW` that a refused call has an error, whether it comes from the
parse, the cursor or the type of the object, and that no other call has one.

`CursorStaysAtElements` and `NothingCrashes` do not hold for every text. An empty
container in front of a sibling breaks the first (see the finding); a token array
that the tokens fill to its last place lets the search for the next sibling run
behind the block, since it finds no unused token to stop at. And a container that
the host restarts before its first use has no tokens to read. So the two theorems
assume `CarefulHost`, and a set `W` of containers, each a type and a text, with

- `Untroubled(W)`: each parses to a root of its type that nothing follows, each
  container in it has children, a token of the text or an unused one lies behind
  it (`InReach`), and it is in `W` itself;
- `Roots(W)`: the containers that the texts of the host open to are in `W`.

Texts that do not parse, and roots without children, are within these bounds.
`MCJsonLib` states as an assumption that the containers of its documents are such
a `W`, and that those of the two texts above are not; TLC evaluates it.

Their inductive invariant is `CursorInv(W)`, on top of `TableInv`: each container
in use is in `W`; once it was read it has the tokens of its text and `CursorOk`,
the container of a running loop is not one whose first search found nothing, and
the process lives. `CursorOk` is `CursorAtElement` with the state of the cursor,
without which it is not inductive: the state says whether the next token is taken
for a key. Its core is in `JsonTextProofs`: `RoundStays` shows that a round of
`JsoniBrowseJsonFile` goes from a child of the root to the child behind it (by
`NextChild`, the first token that starts where this one has ended), and that the
count it takes along, which grows by the children of a container and falls by
one, is the number of children ahead; `BrowseKeepsCursor` carries this to the end
of the call, with or without a result.

`LoopsCount` and `WalkIsImplemented` compare the walk with what `JsonGrammar` finds
in the text, character by character. That tokenizer and grammar agree is a fact
about each text, which only an induction over texts would show for all; it is
the hypothesis `GrammarAgrees(W)`:

- a text of the host opens when it is a document of the grammar, and to its root;
- the elements of a container in `W` are those that its tokens tell
  (`TokenElements`: the children of the root token, in an object in pairs), and
  in an object every other child is a string (`KeysAndValues`).

It says nothing of cursors, searches, tables or loops, which are what the
theorems are about. `MCJsonLib` states it as an assumption for all its texts,
those with empty containers and exactly fitting tokens included, and TLC evaluates
it.

The first step is about one call. `Searched`, at the end of `JsonTextProofs`, says
of a walk that stands behind `a` elements that it ends on the first element behind
them with a wanted name, with that name and value, or finds that none is left.
`RoundFinds` carries it through a round of `JsoniBrowseJsonFile`; the states KEY,
SKIP and PRINT are what makes keys and values take turns (`Looking`). With
`CursorPassed`, which counts the children before the cursor as whole elements,
`SearchIs` turns it into a statement on `Walk!Elements`, and `AnswerIsTold` into
one on the answer of `JsonGetNextObjectW`: the element, the object made of it,
and where the container stands then.

The invariant of the two theorems is `WalkInv`, on top of `TableInv` and
`CursorInv(W)`. `Agree`: a public object and its internal one have the same type,
except that a string has none inside, so that what is refused by one is refused by
the other. `CountsIn`: what a loop has counted, and the element of the callback
that runs, are the requested elements between the one it started behind and the
cursor; `LoopCountsEach` is what this says when nothing is ahead. Each call is then
mapped to its action of `JsonWalk` by a lemma of its own, from `CleanupImplements` to
`ForeachNextImplements`. `OpenView` changes at one variable, or at two when an
element is kept (`ViewsMove`, `RepliedMoves`): the others keep their cursor
although the table may grow or reuse entries, which is what
`HandlesAreExclusive` is for.

### Defects met

`OpenFails` has one, which `OnlyMissingFilesUntold` names as the only failure that
passes for a success: `JsoniOpenFile` returns the last error of the library after
a failed `CreateFileW` (`JsonInternals.c:326`), which is the `NO_ERROR` of the
object made before. The test program (`TestCase/Main.c:42`) prints it as
the reason of that failure.

`json_empty_container`: `SkipJsonTokenIfNeeded` increments an index that is
already behind the container (`JsonInternals.c:284`): the sibling of an empty
container is never returned. The documents of `json_walk` have no empty container
in front of a sibling.

### Left out

The mapping of a file but for its failure (`OpenFails`), the ANSI variants (which
convert and forward), a callback that uses the element it was given or runs a
loop of its own, and threads: table and last error are plain globals.

## 6. The LDAP library

### Modules

| Module | Models |
|---|---|
| `LdapEntry` | an entry of a result: slots, the lookup of an attribute by name, what a server sends of an attribute in ranges, how values are appended |
| `LdapLib` | the state machine: connection, requests, `LdapGetNextEntry` with its pages, the extraction of plain and ranged attributes, and a directory that changes meanwhile |
| `LdapResults` | what the library promises: a cursor over the entries that exist |
| `MCLdapLib` | results and attribute lists for TLC |
| `LdapProofs` | the theorems: types, the life of session and pages, the refinement, the values of an entry |

### State and actions

`pConnection` is the connection with its session; "unbound" means that the
session was unbound and the pointer stays, as the error macros leave it. A
request has its attributes, its page, the count and index of the page and the
`position` which wldap32 and the server keep (external, modelled from its use).
`Freed` is the pointer to a page that was freed. `call` is the entry that is
being extracted: the attributes that are left, the slot of the one in ranges and
the first value of the range that is asked for. A call to the server is where
other things happen: `DirectoryChanges` adds or removes the last value of an
attribute or deletes an entry between two of them.

| C function | actions |
|---|---|
| `LdapConnectW`, `LdapBindExW`, `LdapCloseConnection` | `LdapConnect`, `LdapBind`, `LdapCloseConnection`, each with its failures |
| `LdapInitRequestEx`, `LdapReleaseRequest`, `LdapReleaseEntry` | the actions of these names |
| `LdapGetNextEntry` | `LdapGetNextEntry`: an entry (then the steps below), the end, or a failure that unbinds |
| `LdapExtractEntryDataFromLdapMsg` | `LdapExtractAttributes`, `LdapExtractRangedAttributes` with `RangeStep` and `RangeFails`, `NotLocated`, `EntryReturned` |

`process` becomes "dead" when a call uses an unbound session or frees a page
twice.

### Assumptions about the host and the server

`CarefulHost`: after a failed connect and after a failure of `LdapGetNextEntry`
that unbinds, the host gives the connection up (`HostGivesUp`), and it does not
call `LdapGetNextEntry` on a request that has ended or failed. Without it a run
finds a session unbound twice (`LdapLib.c:108`, `825`) and a page freed twice
(`800`). `SilentEnds` would let the server send empty pages before the last
entry, or `OPERATIONS_ERROR`, which the code takes for the end
(`LdapLib.c:807` to `842`); it is in the model and FALSE in the run, since
`LdapResults` is not implemented then.

### Run

`ldap_search`: two requests on one connection, two results (one with an
attribute that needs ranges), three attribute lists (all, two in the order
opposite to some answers, one with an option), failing servers. It shows types,
`NeverDies`, `AttributesComplete`, `CallsReturn` and `ResultsImplemented`.

Bounds. `RangeSize` of 1 makes every attribute with two values a ranged one;
`MaxChanges` of 1 lets the directory change at any point, and `MaxMembers` of 3
lets the longest attribute grow by a range. Two results are enough for a page to
be fetched while the one before is freed; the page size is 1 in the code
(`LdapLib.c:804`) and must stay so, as `ldap_next_entry` is given the page
(`851`).

Fairness: `WF_vars(Library)`. A call goes on by itself, because the server
answers or the connection is lost; `RangeFails`, the directory and the host are
outside, so that nothing forces a failure, a change or a call. `CallsReturn` rests
on it and on the bound of the changes: an attribute that grows for ever while it
is read keeps the loop busy for ever.

### Proofs

`LdapProofs` proves, for any results, requests, attribute lists and numbers of
values, any size of a range and any bound of the changes:

| Theorem | Statement | For |
|---|---|---|
| `TypesAreCorrect` | `Spec => []TypeOK` | every host and server |
| `CarefulHostNeverDies` | `Spec => []NeverDies` | `CarefulHost` |
| `SearchIsImplemented` | `Spec => ResultsImplemented` | a server without `SilentEnds` |
| `EntriesAreComplete` | `Spec => []AttributesComplete` | `DistinctLists` |

Of the constants they use the assumptions `LdapLib` names: a search
matches an entry once (`ResultsAssumption`), an attribute has at first no more
values than it may have (`MembersAssumption`), and the marks of the model are not
values (`MarksAssumption`).

`TypeInv`, the inductive invariant of the first, also says that a page is the one
entry the search stands on (`PageInv`), and that an extraction belongs to a
request that exists and fills the slots that this request asks for (`CallInv`);
the others use it. For `CarefulHostNeverDies`, `SafeInv` says that a session
that was unbound is one the host no longer trusts and that a request with a freed
page is over: each error path that leaves a pointer behind also leaves the mark
by which a careful host stays away from it. Without that host the run finds the
double unbind and the double free named above.

For the refinement, `ToldOf` says that the host waits for the entry that is being
extracted; then a fetched page is a `Fetch` of the cursor, and each step of
the extraction a stutter until the entry is handed over. `EntriesAreComplete`
is the statement that says most: whatever the ranges in which the server sends an
attribute, whatever changes in the directory between them and in whatever order
the attributes of an answer come, a returned slot has the values 1 to n of its
own attribute, with an n the attribute had at some time during the call or one
between two such. `Consistent` follows each slot from empty over partly filled
(up to the first value of the range that is asked for) to whole. Its hypothesis
`DistinctLists` is needed: the host requests no attribute twice in one list, since
`LdapLocateNamedAttr` finds only the first slot of a name and would leave the
second empty.

Only model-checked: `CallsReturn`, which is liveness.

### Left out

The options of a session, host and port, the content of the root DSE; the text
of a range option; sizes and bytes of values; an attribute that the server sends
twice in one message (`ppValues` is replaced while `dwValuesCount` adds up); a
range without values, for which the loop asks again for ever
(`LdapInternals.c:232` to `287`). `LdapBindA` frees `lpwBindingDn` on several
paths (`LdapLib.c:590` and after), as one of the conversions of the A variants
that are not modelled.

## 7. The complex getopt

### Modules

| Module | Models |
|---|---|
| `GetoptText` | what one argument says: letters, names and abbreviations, where an option's argument is |
| `Getopt` | the scan with its permutation, step by step |
| `GetoptReading` | what it promises: a reader that moves nothing |
| `MCGetopt` | options and command lines for TLC |
| `GetoptProofs` | theorems on the permutation, and the refinement |
| `GetoptRescanProofs` | the theorem on repeated scans |

### State and actions

`optind`, `nextchar`, `first_nonopt`, `last_nonopt` and `ordering` are the
statics of the C file. `argv` is a permutation of the places of the line the host
was given, without `argv[0]`. `pc` cuts `_getopt_internal_r_a` at the points
between which the statics are in step, and each round of the loop of
`exchange_a` is a step with its own `block` (bottom, middle, top). `returned`,
`given`, `aside` and `before` are history: the results of the scan, argv at its
start, the words it has passed, and the results of the scan before.

An argument is a word ("-" alone is one), "--", a group of letters, or a name
with or without a value. `ScanAgain` sets `optind` to 0 or 1 once the end was
told, as the host does to scan again.

### Run

`getopt_scan`: all lines of up to four arguments from a word, "--", an option
and an option that takes an argument; those of five with three words; all lines
of up to two, and pairs with a word before or between, from sixteen arguments
that meet every branch of the parsing; three orderings, three functions, two
scans. Five arguments with three words are the first lines on which `exchange_a`
needs both kinds of round; two scans are enough for a scan to meet an argv that
it permuted itself. It shows types and bounds of the indexes, `NothingLost`,
`OperandsKept`, `RescanAgrees`, `ScanFinishes` and `ReadingImplemented`.

Fairness: `WF_vars(Scan)`, the loop of a host that calls until it is told the
end. Deadlock is not checked: the host stops when it has scanned enough.

### Proofs

`GetoptProofs` proves, for any line, any options, any ordering and any number of
scans:

| Theorem | Statement |
|---|---|
| `IndexesInRange` | `Spec => []TypeOK` |
| `PermutationKeepsAll` | `Spec => []NothingLost` |
| `OperandsInOrder` | `Spec => []OperandsKept` |
| `RoundRotates` | a round of `exchange_a` leaves at each place what the whole exchange would have left there |
| `ScanImplementsReading` | `Spec => ReadingImplemented` |

The first three rest on one inductive invariant `IInv`: `TypeOK`, `Onto` (argv takes
every place), `Untouched` (what lies from `optind` on is as it was given),
`Types` and `WordsInv`. `OperandsKept` says where the words are in the steps in
which `first_nonopt` and `last_nonopt` enclose them. In the other steps they are
not there: `WordsInv` says for each of them where they are, and for
the steps of `exchange_a` where they will be, by `Source`, the map of what is left to
do. The exchange is a rotation, and after a round what is left is a rotation of
a shorter block, which is `RoundRotates`: the rest of a long exchange needs no
induction over rounds beyond that of the steps. Of the lines they use only
`LinesAssumption`: their type, and that groups and names are not empty.

`ScanImplementsReading` maps each step of the scan to one of the reader that
moves nothing: a passed word to `SetAside`, an option to `ReadOption`, the end to
`End`, the exchange and its rounds to a stutter, and a new scan to `ScanAgain`, which
hands the reader the arguments as the scan left them. Its invariant `RInv`
adds to `IInv` what the reader needs to know of argv. `OrderInv`: apart from the
words that were passed, which lie together, the arguments are in the order the
host gave; while `exchange_a` runs this is said of `Target`, the argv it will
leave. `ModeInv`: only a permuting scan passes words, and at the end the words
that were set aside are what is left of the line. `ToldInv`: the end is told
once, with exactly those words. This theorem also needs `OrderingsAssumption` and
`OptionsAssumption`: no option has the value -1, by which the host is told the
end.

`GetoptRescanProofs` proves `ScanCanBeRepeated`, `Spec => []RescanAgrees`, on the
reader: the refinement has disposed of the exchanges. The second scan meets the
arguments in another order than the first, the words it set aside last, so the
two cannot be compared by place in argv. `Squeezed` counts places without those
words: `q` is what a scan has read so far, `ws` what it has set aside.
`RescanInv` says what `returned` tells (`Current`, `Done`): each option at its
place in `q`, with the argument that stands behind it. While a scan is
repeated, `Following` says that its results so far are a front of those of the
scan before, and that it stands where that scan stood at the same result. At
the end the words it finds left are those that were set aside, in their order.
`SqueezedIsUnique` is the lemma behind it: whatever order argv is left in, if
the arguments read come first in their order, they are at the places of `q`.
A scan with a mistake is not covered, as in `RescanAgrees` itself.

Only model-checked: `ScanFinishes`, which is liveness.

### Left out

The `W;` extension (whose ambiguous path raises `optind` twice), the environment
variable `POSIXLY_CORRECT`, the wide variant (the same code over `WCHAR`), the
simple getopt, and lines with `--=`.

## 8. Not modelled

* `libxml2-static` is vendored and holds nearly all lines of the repository that
  are not one of the libraries: the share of lines the models cover is small for
  this reason, whatever part of the ADCP libraries they cover.
* LibCache is a wrapper of the AVL table of `ntdll`, without lock, handles or
  error paths that change state: what it does is what that table does. Reading
  shows two defects: `CacheLibCleanup` returns at once when the library is
  initialised (an inverted guard, `CacheLib.c:75`), and `CacheDestroy` deletes
  elements while it enumerates without a restart (`115`).
* LibLog formats a line and writes it; it has a level, a file handle and a
  buffer, and no history that a property could be about.
* The helpers of LibLdap, heap wrappers and string conversions have no state.
* Headers, projects, `*.tmh` files: declarations and generated code.

What stays with TLC. Liveness (`CallsReturn` twice, `ScanFinishes`) and ENABLED
are out of reach of the prover. So is what the grammar of Json finds in every
text, by recursion over it: that tokenizer and grammar agree is evaluated for the
texts of the run only, and a hypothesis of `LoopsCount` and `WalkIsImplemented`
(section 5). All five refinements are proved: that of `CsvRegistry` for a
disciplined host, that of `CsvStream` for a `Regular` one, that of `JsonWalk` for
a careful one and the texts of its hypotheses, that of `LdapResults` for a server
without silent ends, and that of `GetoptReading` without a condition.
