---------------------------- MODULE CsvHandleTypes ----------------------------
(***************************************************************************)
(* The data of LibCsv's handle table: handles, objects, slots, and the     *)
(* operators on the slot array that CsvLib.c writes as loops.              *)
(***************************************************************************)
EXTENDS Integers

CONSTANTS
  Objects,                 (* heap blocks that can hold a CSV_OBJECT         *)
  NULL,                    (* the null pointer                               *)
  CSV_HANDLE_TABLE_DELTA   (* by how many slots the table grows, 0x10 in C   *)

ASSUME TableAssumption ==
  /\ NULL \notin Objects
  /\ CSV_HANDLE_TABLE_DELTA \in Nat \ {0}

(* (DWORD)-1: larger than any table size the model reaches.                 *)
CSV_INVALID_HANDLE_VALUE == -1

(* Indexes of a table of n slots, and the handles it gives out.             *)
Slots(n) == 0 .. n - 1

(* A slot array that was never allocated, or was freed.                     *)
NoEntries == [j \in {} |-> NULL]

(* Mutant: a fresh array is allocated and the entries are not copied.       *)
ExtendedEmpty(entries, m, n) == [j \in Slots(n) |-> NULL]

(* The array after HeapReAlloc with HEAP_ZERO_MEMORY from m to n slots.      *)
Extended(entries, m, n) ==
  [j \in Slots(n) |-> IF j \in Slots(m) THEN entries[j] ELSE NULL]

(* The slots that hold an object.                                           *)
UsedSlots(entries) == {j \in DOMAIN entries : entries[j] # NULL}

(* Mutant: the scan may stop at a free slot that is not the first.          *)
IsSomeFree(entries, n, i) == i < n => entries[i] = NULL

(* i is where the scan for a NULL slot among the first n stops.             *)
IsFirstFree(entries, n, i) ==
  /\ \A j \in Slots(i) : entries[j] # NULL
  /\ i < n => entries[i] = NULL

(* The test made on a handle before its slot is read.                       *)
PassesRangeCheck(h, n) == h # CSV_INVALID_HANDLE_VALUE /\ h <= n

(* A mutex nobody owns.                                                     *)
Unowned == [owner |-> NULL, count |-> 0]
=============================================================================
