------------------------------ MODULE CsvHandles ------------------------------
(***************************************************************************)
(* LibCsv's handle table: the process-wide array that maps a CSV_HANDLE to *)
(* a heap-allocated CSV_OBJECT, the recursive Windows mutex that guards    *)
(* it, and the threads of the host program that open files, use them,      *)
(* close them and finally clean the library up.                            *)
(*                                                                         *)
(* A step is one access to shared state: a wait for the mutex, the code    *)
(* that runs under it up to the next point another thread could notice,    *)
(* ReleaseMutex, or one use of an object after the mutex was released.     *)
(***************************************************************************)
EXTENDS Integers, FiniteSets, CsvHandleTypes

CONSTANTS
  Threads,           (* threads of the host program                          *)
  FailingCalls,      (* may a file be malformed, a mapping, a write or a     *)
                     (* CloseHandle fail?                                    *)
  MissingFiles,      (* may CreateFileW fail?                                *)
  CleanupQuiescent   (* does the host call CsvLibCleanup only when no other  *)
                     (* call is running, and no call afterwards?             *)

ASSUME BooleanSwitches ==
  /\ FailingCalls \in BOOLEAN
  /\ MissingFiles \in BOOLEAN
  /\ CleanupQuiescent \in BOOLEAN

ASSUME NullIsNoThread == NULL \notin Threads

VARIABLES
  lib,           (* "unloaded", "up" after CsvLibInit, "down" once cleaned    *)
  mutex,         (* gs_hCsvHandletableMutex: owning thread, recursion count   *)
  dwTableSize,   (* gs_sCsvHandleTable.dwTableSize                            *)
  dwEntryCount,  (* gs_sCsvHandleTable.dwEntryCount                           *)
  pEntries,      (* gs_sCsvHandleTable.pEntries, slot -> object or NULL       *)
  heap,          (* blocks of gs_pCsvHeap that hold a CSV_OBJECT              *)
  files,         (* objects whose file.hFileHandle is an open OS handle       *)
  pc,            (* per thread, the next step of the call it is in            *)
  op,            (* per thread, the API call                                  *)
  hnd,           (* per thread, the handle the call works on                  *)
  obj,           (* per thread, the local pCsv                                *)
  idx,           (* per thread, the loop variable i                           *)
  owned,         (* per thread, handles it was given and has not closed       *)
  process        (* "running", or what killed the process: "table", "null",    *)
                 (* "freed"                                                   *)

table == <<dwTableSize, dwEntryCount, pEntries>>
locals == <<pc, op, hnd, obj, idx>>
vars == <<lib, mutex, table, heap, files, locals, owned, process>>

-----------------------------------------------------------------------------
(* The mutex: WaitForSingleObject and ReleaseMutex of a Windows mutex.      *)

WaitForMutex(t) ==
  /\ mutex.owner \in {NULL, t}
  /\ mutex' = [owner |-> t, count |-> mutex.count + 1]

(* A release by a thread that does not own the mutex fails and does nothing. *)
ReleaseMutex(t) ==
  mutex' = IF mutex.owner # t THEN mutex
           ELSE IF mutex.count = 1 THEN Unowned
           ELSE [mutex EXCEPT !.count = @ - 1]

-----------------------------------------------------------------------------
(* Control flow of a thread.                                                *)

Goto(t, to) == pc' = [pc EXCEPT ![t] = to]

At(t, from) == process = "running" /\ pc[t] = from

(* The call returns to the host program; its locals are gone.               *)
Return(t) ==
  /\ pc' = [pc EXCEPT ![t] = "idle"]
  /\ op' = [op EXCEPT ![t] = "none"]
  /\ hnd' = [hnd EXCEPT ![t] = CSV_INVALID_HANDLE_VALUE]
  /\ obj' = [obj EXCEPT ![t] = NULL]
  /\ idx' = [idx EXCEPT ![t] = 0]

(* The process dies; no variable has a meaning any more.                    *)
Dies(cause) ==
  /\ process' = cause
  /\ UNCHANGED <<lib, mutex, table, heap, files, locals, owned>>

(* The code of the handle table follows a NULL or a wild pointer.           *)
Crash == Dies("table")

Running(t) == pc[t] # "idle"

InCleanup(t) == Running(t) /\ op[t] = "cleanup"

(* A host thread may start a call: the library is up and, under the         *)
(* discipline CleanupQuiescent, nobody is cleaning it up.                   *)
MayCall(t) ==
  /\ At(t, "idle")
  /\ lib = "up"
  /\ CleanupQuiescent => \A u \in Threads : ~InCleanup(u)

Opening(t) == Running(t) /\ op[t] = "open"

(* Bound of the model: a file is opened only while the blocks of Objects    *)
(* suffice for it and for every open that is under way.                     *)
HeapHasRoom ==
  Cardinality(heap) + Cardinality({t \in Threads : Opening(t) /\ obj[t] = NULL})
    < Cardinality(Objects)

-----------------------------------------------------------------------------
(* CsvLibInit: the heap and the mutex are created; the table is static and  *)
(* starts empty.                                                            *)
CsvLibInit ==
  /\ process = "running" /\ lib = "unloaded"
  /\ lib' = "up"
  /\ mutex' = Unowned
  /\ heap' = {}
  /\ UNCHANGED <<table, files, locals, owned, process>>

-----------------------------------------------------------------------------
(* CsvOpenRead, CsvOpenWrite, CsvOpenAppend.                                *)

(* CreateFileW succeeds and CsviNewObject is entered.                       *)
CsviOpenFile(t) ==
  /\ MayCall(t) /\ HeapHasRoom
  /\ Goto(t, "new_lock")
  /\ op' = [op EXCEPT ![t] = "open"]
  /\ UNCHANGED <<lib, mutex, table, heap, files, hnd, obj, idx, owned, process>>

(* CreateFileW fails: CsviOpenFile reports the error with *ppObject = NULL, *)
(* and the caller's error macro reads and writes pCsv->infos through it.    *)
CsviOpenFileFails(t) ==
  /\ MissingFiles /\ MayCall(t)
  /\ Dies("null")

(* Mutant: CsviNewObject does not wait for the mutex.                       *)
NewWithoutLock(t) ==
  /\ At(t, "new_lock")
  /\ Goto(t, "new_extend")
  /\ UNCHANGED <<lib, mutex, table, heap, files, op, hnd, obj, idx, owned,
                 process>>

NewLock(t) ==
  /\ At(t, "new_lock")
  /\ WaitForMutex(t)
  /\ Goto(t, "new_extend")
  /\ UNCHANGED <<lib, table, heap, files, op, hnd, obj, idx, owned, process>>

(* Mutant: the new size is not stored.                                      *)
ExtendForgetsSize(t) ==
  /\ At(t, "new_extend")
  /\ pEntries' = IF dwEntryCount = dwTableSize
                 THEN Extended(pEntries, dwTableSize,
                               dwTableSize + CSV_HANDLE_TABLE_DELTA)
                 ELSE pEntries
  /\ Goto(t, "new_scan")
  /\ UNCHANGED <<lib, mutex, dwTableSize, dwEntryCount, heap, files, op, hnd,
                 obj, idx, owned, process>>

(* Mutant: the table grows one entry too late.                              *)
ExtendTooLate(t) ==
  /\ At(t, "new_extend")
  /\ IF dwEntryCount > dwTableSize
     THEN /\ dwTableSize' = dwTableSize + CSV_HANDLE_TABLE_DELTA
          /\ pEntries' = Extended(pEntries, dwTableSize, dwTableSize')
     ELSE UNCHANGED <<dwTableSize, pEntries>>
  /\ Goto(t, "new_scan")
  /\ UNCHANGED <<lib, mutex, dwEntryCount, heap, files, op, hnd, obj, idx,
                 owned, process>>

(* The table is extended when the entry count says that it is full; once    *)
(* the heap is destroyed gs_pCsvHeap is NULL and the allocation is fatal.   *)
CsviExtendHandleTable(t) ==
  /\ At(t, "new_extend")
  /\ IF dwEntryCount = dwTableSize /\ lib = "down" THEN Crash
     ELSE /\ IF dwEntryCount = dwTableSize
             THEN /\ dwTableSize' = dwTableSize + CSV_HANDLE_TABLE_DELTA
                  /\ pEntries' = Extended(pEntries, dwTableSize, dwTableSize')
             ELSE UNCHANGED <<dwTableSize, pEntries>>
          /\ Goto(t, "new_scan")
          /\ UNCHANGED <<lib, mutex, dwEntryCount, heap, files, op, hnd, obj,
                         idx, owned, process>>

(* for (i = 0; i < dwTableSize && pEntries[i] != NULL; i++): i is the first *)
(* free slot, or dwTableSize when there is none. The table memory is gone   *)
(* after a cleanup: pEntries is then NULL while dwTableSize is not 0.       *)
NewScan(t) ==
  /\ At(t, "new_scan")
  /\ IF DOMAIN pEntries = Slots(dwTableSize)
     THEN /\ \E i \in 0..dwTableSize :
               /\ IsFirstFree(pEntries, dwTableSize, i)
               /\ idx' = [idx EXCEPT ![t] = i]
          /\ Goto(t, "new_store")
          /\ UNCHANGED <<lib, mutex, table, heap, files, op, hnd, obj, owned,
                         process>>
     ELSE Crash

(* Mutant: the handle is computed from the entry count, not from i.         *)
StoreReturnsCount(t) ==
  /\ At(t, "new_store")
  /\ IF idx[t] \in DOMAIN pEntries
     THEN /\ \E o \in Objects \ heap :
               /\ heap' = heap \cup {o}
               /\ pEntries' = [pEntries EXCEPT ![idx[t]] = o]
               /\ obj' = [obj EXCEPT ![t] = o]
          /\ dwEntryCount' = dwEntryCount + 1
          /\ hnd' = [hnd EXCEPT ![t] = dwEntryCount]
          /\ Goto(t, "new_unlock")
          /\ UNCHANGED <<lib, mutex, dwTableSize, files, op, idx, owned,
                         process>>
     ELSE Crash

(* pEntries[i] = a new block; dwEntryCount += 1. The index is not checked.   *)
NewStore(t) ==
  /\ At(t, "new_store")
  /\ IF idx[t] \in DOMAIN pEntries
     THEN /\ \E o \in Objects \ heap :
               /\ heap' = heap \cup {o}
               /\ pEntries' = [pEntries EXCEPT ![idx[t]] = o]
               /\ obj' = [obj EXCEPT ![t] = o]
          /\ dwEntryCount' = dwEntryCount + 1
          /\ hnd' = [hnd EXCEPT ![t] = idx[t]]
          /\ Goto(t, "new_unlock")
          /\ UNCHANGED <<lib, mutex, dwTableSize, files, op, idx, owned,
                         process>>
     ELSE Crash

NewUnlock(t) ==
  /\ At(t, "new_unlock")
  /\ ReleaseMutex(t)
  /\ Goto(t, "open_init")
  /\ UNCHANGED <<lib, table, heap, files, op, hnd, obj, idx, owned, process>>

(* After the unlock the object is initialised through the local pointer.    *)
OpenInit(t) ==
  /\ At(t, "open_init")
  /\ files' = files \cup {obj[t]}
  /\ Goto(t, "open_header")
  /\ UNCHANGED <<lib, mutex, table, heap, op, hnd, obj, idx, owned, process>>

(* The header is read or written, and the host program gets the handle.     *)
OpenSucceeds(t) ==
  /\ At(t, "open_header")
  /\ owned' = [owned EXCEPT ![t] = @ \cup {hnd[t]}]
  /\ Return(t)
  /\ UNCHANGED <<lib, mutex, table, heap, files, process>>

(* The mapping, a write of the header or the final seek fails: the error is *)
(* returned and the object stays registered, though nobody got it.          *)
OpenLeaks(t) ==
  /\ FailingCalls
  /\ At(t, "open_header")
  /\ Return(t)
  /\ UNCHANGED <<lib, mutex, table, heap, files, owned, process>>

(* The header that was read is malformed: CsvClose(pCsvHandle) is called.    *)
OpenHeaderFails(t) ==
  /\ FailingCalls
  /\ At(t, "open_header")
  /\ Goto(t, "get_lock")
  /\ op' = [op EXCEPT ![t] = "openfail"]
  /\ UNCHANGED <<lib, mutex, table, heap, files, hnd, obj, idx, owned, process>>

(* ... and the error is assigned through pCsv, whose block CsvClose has     *)
(* freed unless its CloseHandle failed. The write into the free block goes  *)
(* unnoticed or kills the process; when another thread was given the block  *)
(* in the meantime, it changes that thread's object.                        *)
OpenFailWrite(t) ==
  /\ At(t, "openfail_write")
  /\ \/ /\ Return(t)
        /\ UNCHANGED <<lib, mutex, table, heap, files, owned, process>>
     \/ /\ obj[t] \notin heap
        /\ Dies("freed")

-----------------------------------------------------------------------------
(* Calls that take a handle. CsvClose(h) is one of them; the others read    *)
(* or write the object (records, options, reset, last error, field count).  *)

(* The host passes a handle it owns, or the invalid handle.                 *)
CallUse(t) ==
  /\ MayCall(t)
  /\ \E h \in owned[t] \cup {CSV_INVALID_HANDLE_VALUE} :
       hnd' = [hnd EXCEPT ![t] = h]
  /\ op' = [op EXCEPT ![t] = "use"]
  /\ Goto(t, "get_lock")
  /\ UNCHANGED <<lib, mutex, table, heap, files, obj, idx, owned, process>>

(* A handle passed to CsvClose is no longer used by the host.               *)
CallClose(t) ==
  /\ MayCall(t)
  /\ \E h \in owned[t] \cup {CSV_INVALID_HANDLE_VALUE} :
       /\ hnd' = [hnd EXCEPT ![t] = h]
       /\ owned' = [owned EXCEPT ![t] = @ \ {h}]
  /\ op' = [op EXCEPT ![t] = "close"]
  /\ Goto(t, "get_lock")
  /\ UNCHANGED <<lib, mutex, table, heap, files, obj, idx, process>>

(* Mutant: CsviGetObjectByHandle does not wait for the mutex.               *)
GetWithoutLock(t) ==
  /\ At(t, "get_lock")
  /\ Goto(t, "get_lookup")
  /\ UNCHANGED <<lib, mutex, table, heap, files, op, hnd, obj, idx, owned,
                 process>>

GetLock(t) ==
  /\ At(t, "get_lock")
  /\ WaitForMutex(t)
  /\ Goto(t, "get_lookup")
  /\ UNCHANGED <<lib, table, heap, files, op, hnd, obj, idx, owned, process>>

(* CsviGetObjectByHandle accepts h <= dwTableSize before it reads the slot. *)
GetLookup(t) ==
  /\ At(t, "get_lookup")
  /\ IF PassesRangeCheck(hnd[t], dwTableSize) /\ hnd[t] \notin DOMAIN pEntries
     THEN Crash
     ELSE /\ obj' = [obj EXCEPT ![t] = IF PassesRangeCheck(hnd[t], dwTableSize)
                                       THEN pEntries[hnd[t]] ELSE NULL]
          /\ Goto(t, "get_unlock")
          /\ UNCHANGED <<lib, mutex, table, heap, files, op, hnd, idx, owned,
                         process>>

(* Mutant: a refused handle leaves the function without releasing the mutex. *)
GetKeepsMutex(t) ==
  /\ At(t, "get_unlock")
  /\ IF obj[t] = NULL THEN UNCHANGED mutex ELSE ReleaseMutex(t)
  /\ Goto(t, IF obj[t] = NULL THEN "get_fail" ELSE "get_stamp")
  /\ UNCHANGED <<lib, table, heap, files, op, hnd, obj, idx, owned, process>>

(* The mutex is released, and only then pCsv->infos.dwLastError is reset.   *)
GetUnlock(t) ==
  /\ At(t, "get_unlock")
  /\ ReleaseMutex(t)
  /\ Goto(t, IF obj[t] = NULL THEN "get_fail" ELSE "get_stamp")
  /\ UNCHANGED <<lib, table, heap, files, op, hnd, obj, idx, owned, process>>

GetStamp(t) ==
  /\ At(t, "get_stamp")
  /\ Goto(t, IF op[t] = "use" THEN "use" ELSE "close_file")
  /\ UNCHANGED <<lib, mutex, table, heap, files, op, hnd, obj, idx, owned,
                 process>>

(* Where a call whose CsvClose part ended, or failed, goes on.              *)
AfterClose(t) ==
  IF op[t] = "openfail"
  THEN Goto(t, "openfail_write") /\ UNCHANGED <<op, hnd, obj, idx>>
  ELSE IF op[t] = "cleanup"
  THEN /\ Goto(t, "clean_loop")
       /\ idx' = [idx EXCEPT ![t] = @ + 1]
       /\ UNCHANGED <<op, hnd, obj>>
  ELSE Return(t)

(* The handle was refused: ERROR_VALUE is returned.                         *)
GetFail(t) ==
  /\ At(t, "get_fail")
  /\ AfterClose(t)
  /\ UNCHANGED <<lib, mutex, table, heap, files, owned, process>>

Use(t) ==
  /\ At(t, "use")
  /\ Return(t)
  /\ UNCHANGED <<lib, mutex, table, heap, files, owned, process>>

-----------------------------------------------------------------------------
(* CsvClose and CsviReleaseObject.                                          *)

CloseFile(t) ==
  /\ At(t, "close_file")
  /\ files' = files \ {obj[t]}
  /\ Goto(t, "rel_lock")
  /\ UNCHANGED <<lib, mutex, table, heap, op, hnd, obj, idx, owned, process>>

(* UnmapViewOfFile or CloseHandle fails: the handle stays valid.            *)
CloseFileFails(t) ==
  /\ FailingCalls
  /\ At(t, "close_file")
  /\ owned' = IF op[t] = "close" THEN [owned EXCEPT ![t] = @ \cup {hnd[t]}]
              ELSE owned
  /\ AfterClose(t)
  /\ UNCHANGED <<lib, mutex, table, heap, files, process>>

RelLock(t) ==
  /\ At(t, "rel_lock")
  /\ WaitForMutex(t)
  /\ Goto(t, "rel_free")
  /\ UNCHANGED <<lib, table, heap, files, op, hnd, obj, idx, owned, process>>

(* Mutant: the entry count is not decremented.                              *)
ReleaseForgetsCount(t) ==
  /\ At(t, "rel_free")
  /\ IF hnd[t] \in DOMAIN pEntries /\ pEntries[hnd[t]] # NULL
     THEN /\ heap' = heap \ {pEntries[hnd[t]]}
          /\ pEntries' = [pEntries EXCEPT ![hnd[t]] = NULL]
          /\ dwEntryCount' = dwEntryCount
          /\ Goto(t, "rel_unlock")
          /\ UNCHANGED <<lib, mutex, dwTableSize, files, op, hnd, obj, idx,
                         owned, process>>
     ELSE Crash

(* Mutant: the slot keeps the freed pointer.                                *)
ReleaseKeepsPointer(t) ==
  /\ At(t, "rel_free")
  /\ IF hnd[t] \in DOMAIN pEntries /\ pEntries[hnd[t]] # NULL
     THEN /\ heap' = heap \ {pEntries[hnd[t]]}
          /\ pEntries' = pEntries
          /\ dwEntryCount' = dwEntryCount - 1
          /\ Goto(t, "rel_unlock")
          /\ UNCHANGED <<lib, mutex, dwTableSize, files, op, hnd, obj, idx,
                         owned, process>>
     ELSE Crash

(* Mutant: the function's loop variable indexes the table.                  *)
ReleaseWrongSlot(t) ==
  /\ At(t, "rel_free")
  /\ IF idx[t] \in DOMAIN pEntries /\ pEntries[idx[t]] # NULL
     THEN /\ heap' = heap \ {pEntries[idx[t]]}
          /\ pEntries' = [pEntries EXCEPT ![idx[t]] = NULL]
          /\ dwEntryCount' = dwEntryCount - 1
          /\ Goto(t, "rel_unlock")
          /\ UNCHANGED <<lib, mutex, dwTableSize, files, op, hnd, obj, idx,
                         owned, process>>
     ELSE Crash

(* The object is read from its slot without a check, freed, its slot set to *)
(* NULL and the entry count decremented.                                    *)
RelFree(t) ==
  /\ At(t, "rel_free")
  /\ IF hnd[t] \in DOMAIN pEntries /\ pEntries[hnd[t]] # NULL
     THEN /\ heap' = heap \ {pEntries[hnd[t]]}
          /\ pEntries' = [pEntries EXCEPT ![hnd[t]] = NULL]
          /\ dwEntryCount' = dwEntryCount - 1
          /\ Goto(t, "rel_unlock")
          /\ UNCHANGED <<lib, mutex, dwTableSize, files, op, hnd, obj, idx,
                         owned, process>>
     ELSE Crash

RelUnlock(t) ==
  /\ At(t, "rel_unlock")
  /\ ReleaseMutex(t)
  /\ Goto(t, "rel_exit")
  /\ UNCHANGED <<lib, table, heap, files, op, hnd, obj, idx, owned, process>>

(* The label exit releases the mutex a second time.                         *)
RelExit(t) ==
  /\ At(t, "rel_exit")
  /\ ReleaseMutex(t)
  /\ AfterClose(t)
  /\ UNCHANGED <<lib, table, heap, files, owned, process>>

-----------------------------------------------------------------------------
(* CsvLibCleanup.                                                           *)

(* Under the discipline the host drops the handles it still has.            *)
CallCleanup(t) ==
  /\ MayCall(t)
  /\ \A u \in Threads : ~InCleanup(u)
  /\ CleanupQuiescent => \A u \in Threads : ~Running(u)
  /\ owned' = IF CleanupQuiescent THEN [u \in Threads |-> {}] ELSE owned
  /\ op' = [op EXCEPT ![t] = "cleanup"]
  /\ Goto(t, "clean_lock")
  /\ UNCHANGED <<lib, mutex, table, heap, files, hnd, obj, idx, process>>

CleanLock(t) ==
  /\ At(t, "clean_lock")
  /\ WaitForMutex(t)
  /\ Goto(t, "clean_count")
  /\ UNCHANGED <<lib, table, heap, files, op, hnd, obj, idx, owned, process>>

(* The loop is entered only when the entry count is not 0.                  *)
CleanCount(t) ==
  /\ At(t, "clean_count")
  /\ Goto(t, IF dwEntryCount > 0 THEN "clean_loop" ELSE "clean_free")
  /\ UNCHANGED <<lib, mutex, table, heap, files, op, hnd, obj, idx, owned,
                 process>>

(* Mutant: the loop stops at the number of entries, which shrinks under it. *)
CleanLoopToCount(t) ==
  /\ At(t, "clean_loop")
  /\ IF idx[t] >= dwEntryCount
     THEN Goto(t, "clean_free") /\ UNCHANGED <<hnd, idx>>
     ELSE IF pEntries[idx[t]] = NULL
     THEN /\ idx' = [idx EXCEPT ![t] = @ + 1]
          /\ UNCHANGED <<pc, hnd>>
     ELSE /\ hnd' = [hnd EXCEPT ![t] = idx[t]]
          /\ Goto(t, "get_lock")
          /\ UNCHANGED idx
  /\ UNCHANGED <<lib, mutex, table, heap, files, op, obj, owned, process>>

(* for (i = 0; i < dwTableSize; i++) if (pEntries[i] != NULL) CsvClose(&i)   *)
CleanLoop(t) ==
  /\ At(t, "clean_loop")
  /\ IF idx[t] >= dwTableSize
     THEN Goto(t, "clean_free") /\ UNCHANGED <<hnd, idx>>
     ELSE IF pEntries[idx[t]] = NULL
     THEN /\ idx' = [idx EXCEPT ![t] = @ + 1]
          /\ UNCHANGED <<pc, hnd>>
     ELSE /\ hnd' = [hnd EXCEPT ![t] = idx[t]]
          /\ Goto(t, "get_lock")
          /\ UNCHANGED idx
  /\ UNCHANGED <<lib, mutex, table, heap, files, op, obj, owned, process>>

(* pEntries is freed, its size is kept, and the heap is destroyed.          *)
CleanFree(t) ==
  /\ At(t, "clean_free")
  /\ pEntries' = NoEntries
  /\ heap' = {}
  /\ lib' = "down"
  /\ Goto(t, "clean_unlock")
  /\ UNCHANGED <<mutex, dwTableSize, dwEntryCount, files, op, hnd, obj, idx,
                 owned, process>>

CleanUnlock(t) ==
  /\ At(t, "clean_unlock")
  /\ ReleaseMutex(t)
  /\ Return(t)
  /\ UNCHANGED <<lib, table, heap, files, owned, process>>

-----------------------------------------------------------------------------
Init ==
  /\ lib = "unloaded"
  /\ mutex = Unowned
  /\ dwTableSize = 0 /\ dwEntryCount = 0 /\ pEntries = NoEntries
  /\ heap = {} /\ files = {}
  /\ pc = [t \in Threads |-> "idle"]
  /\ op = [t \in Threads |-> "none"]
  /\ hnd = [t \in Threads |-> CSV_INVALID_HANDLE_VALUE]
  /\ obj = [t \in Threads |-> NULL]
  /\ idx = [t \in Threads |-> 0]
  /\ owned = [t \in Threads |-> {}]
  /\ process = "running"

(* The waits for the mutex.                                                 *)
Waits(t) == NewLock(t) \/ GetLock(t) \/ RelLock(t) \/ CleanLock(t)

(* The other steps of a call that is under way.                             *)
Steps(t) ==
  \/ CsviExtendHandleTable(t) \/ NewScan(t) \/ NewStore(t) \/ NewUnlock(t)
  \/ OpenInit(t) \/ OpenSucceeds(t) \/ OpenLeaks(t) \/ OpenHeaderFails(t)
  \/ OpenFailWrite(t)
  \/ GetLookup(t) \/ GetUnlock(t) \/ GetStamp(t) \/ GetFail(t) \/ Use(t)
  \/ CloseFile(t) \/ CloseFileFails(t)
  \/ RelFree(t) \/ RelUnlock(t) \/ RelExit(t)
  \/ CleanCount(t) \/ CleanLoop(t) \/ CleanFree(t) \/ CleanUnlock(t)

(* The host program starts a call.                                          *)
Calls(t) ==
  \/ CsviOpenFile(t) \/ CsviOpenFileFails(t)
  \/ CallUse(t) \/ CallClose(t) \/ CallCleanup(t)

(* The library is down and every call has returned, or the process is dead. *)
Finished ==
  /\ process # "running" \/ (lib = "down" /\ \A t \in Threads : ~Running(t))
  /\ UNCHANGED vars

Next ==
  \/ CsvLibInit
  \/ \E t \in Threads : Calls(t) \/ Waits(t) \/ Steps(t)
  \/ Finished

(* A thread inside a call keeps running, and the kernel hands a mutex to    *)
(* every thread that waits for it in turn.                                  *)
Fairness ==
  \A t \in Threads : WF_vars(Steps(t)) /\ SF_vars(Waits(t))

Spec == Init /\ [][Next]_vars /\ Fairness
-----------------------------------------------------------------------------
(* Properties.                                                              *)

(* Where a thread is inside a section CsvLib.c guards with the mutex; the   *)
(* closing loop of CsvLibCleanup is treated apart.                          *)
LockedSteps ==
  {"new_extend", "new_scan", "new_store", "new_unlock", "get_lookup",
   "get_unlock", "rel_free", "rel_unlock", "clean_count"}

CleanupSteps == {"clean_count", "clean_loop", "clean_free", "clean_unlock"}

(* Where a thread follows its local pointer pCsv without the mutex.         *)
UnlockedUses == {"open_init", "open_header", "get_stamp", "use", "close_file",
                 "openfail_write"}

AllSteps ==
  LockedSteps \cup CleanupSteps \cup UnlockedUses \cup
  {"idle", "new_lock", "get_lock", "get_fail", "rel_lock", "rel_exit",
   "clean_lock"}

Ops == {"none", "open", "openfail", "use", "close", "cleanup"}

Handles == Nat \cup {CSV_INVALID_HANDLE_VALUE}

(* Type invariant: every variable holds a value the C program can give it;  *)
(* the slot array has dwTableSize entries or none, and the recursion count  *)
(* of the mutex is 0 exactly when nobody owns it.                           *)
TypeOK ==
  /\ lib \in {"unloaded", "up", "down"}
  /\ mutex \in [owner : Threads \cup {NULL}, count : Nat]
  /\ mutex.owner = NULL <=> mutex.count = 0
  /\ dwTableSize \in Nat /\ dwEntryCount \in Int
  /\ pEntries \in [DOMAIN pEntries -> Objects \cup {NULL}]
  /\ DOMAIN pEntries = IF lib = "down" THEN {} ELSE Slots(dwTableSize)
  /\ heap \subseteq Objects /\ files \subseteq Objects \cup {NULL}
  /\ pc \in [Threads -> AllSteps]
  /\ op \in [Threads -> Ops]
  /\ hnd \in [Threads -> Handles]
  /\ obj \in [Threads -> Objects \cup {NULL}]
  /\ idx \in [Threads -> Nat]
  /\ owned \in [Threads -> SUBSET Handles]
  /\ process \in {"running", "table", "null", "freed"}

(* Two threads are never both inside a guarded section, although            *)
(* CsviReleaseObject releases the mutex twice and CsvLibCleanup takes it     *)
(* recursively.                                                             *)
TableExclusive ==
  \A t, u \in Threads :
    t # u => ~(pc[t] \in LockedSteps /\ pc[u] \in LockedSteps)

(* dwEntryCount, from which CsviNewObject decides whether to grow the table *)
(* and whether its scan can succeed, is the number of slots in use.         *)
EntryCountExact ==
  lib = "up" => dwEntryCount = Cardinality(UsedSlots(pEntries))

(* CsviNewObject stores without comparing its index to dwTableSize: the     *)
(* slot it is about to write exists and is still free.                      *)
StoreFindsFreeSlot ==
  lib = "up" =>
    \A t \in Threads : pc[t] = "new_store" =>
      /\ idx[t] \in DOMAIN pEntries
      /\ pEntries[idx[t]] = NULL

(* The handles a thread may pass on, or is registering or releasing now.    *)
Claims(t) ==
  owned[t] \cup
  IF \/ pc[t] \in {"new_unlock", "open_init", "open_header"}
     \/ /\ pc[t] \in {"get_lock", "get_lookup", "get_unlock", "get_stamp",
                      "close_file", "rel_lock", "rel_free"}
        /\ op[t] # "use"
        /\ hnd[t] # CSV_INVALID_HANDLE_VALUE
  THEN {hnd[t]} ELSE {}

(* A handle the host holds names a live object, and no other thread was     *)
(* given the same handle: a slot is never handed out twice.                 *)
HandlesAreExclusive ==
  \A t \in Threads :
    /\ \A h \in Claims(t) : h \in DOMAIN pEntries /\ pEntries[h] \in heap
    /\ \A u \in Threads \ {t} : Claims(t) \cap Claims(u) = {}

(* Every block that holds an object is in exactly one slot, and no slot     *)
(* points to a freed block.                                                 *)
TableIsHeap ==
  /\ heap = {pEntries[j] : j \in UsedSlots(pEntries)}
  /\ \A j, k \in UsedSlots(pEntries) : pEntries[j] = pEntries[k] => j = k

(* pCsv is the live object that the thread's handle names.                  *)
PointsToLive(t) ==
  /\ obj[t] \in heap
  /\ hnd[t] \in DOMAIN pEntries /\ pEntries[hnd[t]] = obj[t]

(* The last write of an open that failed on the header is the only use of   *)
(* pCsv without the mutex that can meet a freed object: calls on a handle,   *)
(* and an open before that write, follow a pointer to their live object,    *)
(* whatever the other threads open, close or fail to open.                  *)
OnlyFailedOpenUsesFreed ==
  \A t \in Threads :
    pc[t] \in UnlockedUses /\ ~PointsToLive(t) => pc[t] = "openfail_write"

(* After CsvLibCleanup no file of the library is left open.                 *)
CleanupClosesFiles == lib = "down" => files = {}

(* What can kill the process is the error path of an open (a NULL object    *)
(* when there is no file, the freed one when the header is malformed). The  *)
(* code of the table never does: not the lookup that accepts one handle too *)
(* many, the store that is not checked, or the release that reads its slot  *)
(* unchecked.                                                               *)
TableNeverCrashes == process # "table"

(* From taking the mutex ("Lock the CsvHandleTable") to releasing it        *)
(* ("Release the global mutex") CsvLibCleanup keeps every other thread out  *)
(* of the table.                                                            *)
CleanupExcludesOthers ==
  \A t, u \in Threads :
    t # u => ~(/\ InCleanup(t) /\ pc[t] # "clean_lock"
               /\ pc[u] \in LockedSteps)

(* While a host thread owns a handle, no step of any thread changes which   *)
(* object it names: growing the table, and the opens and closes of the      *)
(* others, leave its slot alone.                                            *)
OwnedHandlesStable ==
  [][\A t \in Threads : \A h \in owned[t] \cap owned'[t] :
       pEntries'[h] = pEntries[h]]_vars

(* A thread that started a call gets its result, unless the process died in *)
(* a failed open: nobody waits forever for the mutex.                       *)
CallsReturn ==
  \A t \in Threads : Running(t) ~> (~Running(t) \/ process \in {"null", "freed"})

-----------------------------------------------------------------------------
(* The table implements a registry of handles.                              *)
Registry == INSTANCE CsvRegistry WITH
  reg <- [h \in UsedSlots(pEntries) |-> pEntries[h]],
  view <- obj

RegistryImplemented == Registry!Spec
=============================================================================
