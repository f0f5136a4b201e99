--------------------------- MODULE CsvHandlesProofs ---------------------------
(***************************************************************************)
(* Proofs about CsvHandles. First, for any host (CleanupQuiescent,         *)
(* FailingCalls and MissingFiles may be TRUE or FALSE): types, mutual      *)
(* exclusion on the handle table, and the accounting CsviNewObject relies  *)
(* on when it stores an object without checking its index. Then, for a     *)
(* host that calls CsvLibCleanup when no call is running, also when files  *)
(* are missing or malformed: a handle names one live object and belongs to *)
(* one thread, only the last write of a failed open meets a freed object,  *)
(* the table never kills the process, it is a registry, and a cleanup      *)
(* closes every file.                                                      *)
(***************************************************************************)
EXTENDS CsvHandles, FiniteSetTheorems, TLAPS

(* Nothing runs before CsvLibInit.                                          *)
UnloadedIdle == lib = "unloaded" => \A t \in Threads : pc[t] = "idle"

(* A thread inside a guarded section owns the mutex.                        *)
LockInv == \A t \in Threads : pc[t] \in LockedSteps => mutex.owner = t

(***************************************************************************)
(* The inductive invariant behind TypeOK and TableExclusive.               *)
(***************************************************************************)
LockIInv == TypeOK /\ UnloadedIdle /\ LockInv

LEMMA InitLockIInv == Init => LockIInv
<1> SUFFICES ASSUME Init PROVE LockIInv
  OBVIOUS
<1>1. mutex \in [owner : Threads \cup {NULL}, count : Nat]
      /\ (mutex.owner = NULL <=> mutex.count = 0)
  BY DEF Init, Unowned
<1>2. /\ pEntries \in [DOMAIN pEntries -> Objects \cup {NULL}]
      /\ DOMAIN pEntries = IF lib = "down" THEN {} ELSE Slots(dwTableSize)
  BY DEF Init, NoEntries, Slots
<1>3. /\ pc \in [Threads -> AllSteps] /\ op \in [Threads -> Ops]
      /\ hnd \in [Threads -> Handles]
      /\ owned \in [Threads -> SUBSET Handles]
      /\ obj \in [Threads -> Objects \cup {NULL}]
      /\ idx \in [Threads -> Nat]
  BY DEF Init, AllSteps, Ops, Handles
<1>4. UnloadedIdle /\ LockInv
  BY DEF Init, UnloadedIdle, LockInv, LockedSteps
<1>5. QED
  BY <1>1, <1>2, <1>3, <1>4 DEF Init, LockIInv, TypeOK
(* What the two operations on the mutex do to its owner and its count.      *)
MutexOK ==
  /\ mutex \in [owner : Threads \cup {NULL}, count : Nat]
  /\ mutex.owner = NULL <=> mutex.count = 0

LEMMA WaitGivesMutex ==
  ASSUME MutexOK, NEW t \in Threads, WaitForMutex(t)
  PROVE  /\ MutexOK' /\ mutex'.owner = t
         /\ \A u \in Threads \ {t} : mutex.owner # u
  BY NullIsNoThread DEF MutexOK, WaitForMutex

LEMMA ReleaseKeepsOthers ==
  ASSUME MutexOK, NEW t \in Threads, ReleaseMutex(t)
  PROVE  MutexOK' /\ \A u \in Threads \ {t} : mutex.owner = u => mutex'.owner = u
  BY NullIsNoThread DEF MutexOK, ReleaseMutex, Unowned

(* Growing the array keeps the type of its entries.                         *)
LEMMA ExtendedType ==
  ASSUME NEW k \in Nat, NEW n \in Nat,
         NEW e \in [Slots(k) -> Objects \cup {NULL}]
  PROVE  Extended(e, k, n) \in [Slots(n) -> Objects \cup {NULL}]
  BY DEF Extended

(* The types of the variables that every call moves through.                *)
LEMMA TypeStep == TypeOK /\ [Next]_vars => TypeOK'
<1> SUFFICES ASSUME TypeOK, [Next]_vars PROVE TypeOK'
  OBVIOUS
<1> USE DEF TypeOK, table, locals, Goto, At, AllSteps, LockedSteps,
            CleanupSteps, UnlockedUses
<1>m. MutexOK
  BY DEF MutexOK
<1>1. ASSUME NEW t \in Threads, CsviOpenFile(t) PROVE TypeOK'
  BY <1>1
     DEF CsviOpenFile, MayCall, Ops
<1>2. ASSUME NEW t \in Threads, CsviOpenFileFails(t) PROVE TypeOK'
  BY <1>2
     DEF CsviOpenFileFails, Crash, Dies
<1>3. ASSUME NEW t \in Threads, CallUse(t) PROVE TypeOK'
  BY <1>3
     DEF CallUse, MayCall, Ops, Handles
<1>4. ASSUME NEW t \in Threads, CallClose(t) PROVE TypeOK'
  BY <1>4
     DEF CallClose, MayCall, Ops, Handles
<1>5. ASSUME NEW t \in Threads, CallCleanup(t) PROVE TypeOK'
  BY <1>5
     DEF CallCleanup, MayCall, Ops, Handles
<1>6. ASSUME NEW t \in Threads, NewLock(t) PROVE TypeOK'
  BY <1>6, WaitGivesMutex, <1>m
     DEF MutexOK, NewLock
<1>7. ASSUME NEW t \in Threads, GetLock(t) PROVE TypeOK'
  BY <1>7, WaitGivesMutex, <1>m
     DEF MutexOK, GetLock
<1>8. ASSUME NEW t \in Threads, RelLock(t) PROVE TypeOK'
  BY <1>8, WaitGivesMutex, <1>m
     DEF MutexOK, RelLock
<1>9. ASSUME NEW t \in Threads, CleanLock(t) PROVE TypeOK'
  BY <1>9, WaitGivesMutex, <1>m
     DEF MutexOK, CleanLock
<1>10. ASSUME NEW t \in Threads, CsviExtendHandleTable(t) PROVE TypeOK'
  <2>1. CASE dwEntryCount = dwTableSize /\ lib = "down"
    BY <1>10, <2>1 DEF CsviExtendHandleTable, Crash, Dies
  <2>2. CASE dwEntryCount = dwTableSize /\ lib # "down"
    <3>1. /\ dwTableSize' \in Nat
          /\ dwTableSize' = dwTableSize + CSV_HANDLE_TABLE_DELTA
          /\ pEntries' = Extended(pEntries, dwTableSize, dwTableSize')
      BY <1>10, <2>2, TableAssumption DEF CsviExtendHandleTable
    <3>2. pEntries' \in [Slots(dwTableSize') -> Objects \cup {NULL}]
      BY <2>2, <3>1, ExtendedType
    <3>3. QED
      BY <1>10, <2>2, <3>1, <3>2 DEF CsviExtendHandleTable
  <2>3. CASE dwEntryCount # dwTableSize
    BY <1>10, <2>3 DEF CsviExtendHandleTable
  <2>4. QED
    BY <2>1, <2>2, <2>3
<1>11. ASSUME NEW t \in Threads, NewScan(t) PROVE TypeOK'
  BY <1>11
     DEF NewScan, Crash, Dies
<1>12. ASSUME NEW t \in Threads, NewStore(t) PROVE TypeOK'
  BY <1>12
     DEF NewStore, Crash, Dies, Handles
<1>13. ASSUME NEW t \in Threads, NewUnlock(t) PROVE TypeOK'
  BY <1>13, ReleaseKeepsOthers, <1>m
     DEF MutexOK, NewUnlock
<1>14. ASSUME NEW t \in Threads, OpenInit(t) PROVE TypeOK'
  BY <1>14
     DEF OpenInit
<1>15. ASSUME NEW t \in Threads, OpenSucceeds(t) PROVE TypeOK'
  BY <1>15
     DEF OpenSucceeds, Return, Ops, Handles
<1>16. ASSUME NEW t \in Threads, OpenLeaks(t) PROVE TypeOK'
  BY <1>16
     DEF OpenLeaks, Return, Ops, Handles
<1>17. ASSUME NEW t \in Threads, OpenHeaderFails(t) PROVE TypeOK'
  BY <1>17
     DEF OpenHeaderFails, Ops
<1>18. ASSUME NEW t \in Threads, OpenFailWrite(t) PROVE TypeOK'
  BY <1>18
     DEF OpenFailWrite, Dies, Return, Ops, Handles
<1>19. ASSUME NEW t \in Threads, GetLookup(t) PROVE TypeOK'
  BY <1>19
     DEF GetLookup, Crash, Dies, PassesRangeCheck
<1>20. ASSUME NEW t \in Threads, GetUnlock(t) PROVE TypeOK'
  BY <1>20, ReleaseKeepsOthers, <1>m
     DEF MutexOK, GetUnlock
<1>21. ASSUME NEW t \in Threads, GetStamp(t) PROVE TypeOK'
  BY <1>21
     DEF GetStamp
<1>22. ASSUME NEW t \in Threads, GetFail(t) PROVE TypeOK'
  BY <1>22
     DEF GetFail, AfterClose, Return, Ops, Handles
<1>23. ASSUME NEW t \in Threads, Use(t) PROVE TypeOK'
  BY <1>23
     DEF Use, Return, Ops, Handles
<1>24. ASSUME NEW t \in Threads, CloseFile(t) PROVE TypeOK'
  BY <1>24
     DEF CloseFile
<1>25. ASSUME NEW t \in Threads, CloseFileFails(t) PROVE TypeOK'
  BY <1>25
     DEF CloseFileFails, AfterClose, Return, Ops, Handles
<1>26. ASSUME NEW t \in Threads, RelFree(t) PROVE TypeOK'
  BY <1>26
     DEF RelFree, Crash, Dies
<1>27. ASSUME NEW t \in Threads, RelUnlock(t) PROVE TypeOK'
  BY <1>27, ReleaseKeepsOthers, <1>m
     DEF MutexOK, RelUnlock
<1>28. ASSUME NEW t \in Threads, RelExit(t) PROVE TypeOK'
  BY <1>28, ReleaseKeepsOthers, <1>m
     DEF MutexOK, RelExit, AfterClose, Return, Ops, Handles
<1>29. ASSUME NEW t \in Threads, CleanCount(t) PROVE TypeOK'
  BY <1>29
     DEF CleanCount
<1>30. ASSUME NEW t \in Threads, CleanLoop(t) PROVE TypeOK'
  BY <1>30
     DEF CleanLoop, Handles
<1>31. ASSUME NEW t \in Threads, CleanFree(t) PROVE TypeOK'
  BY <1>31
     DEF CleanFree, NoEntries
<1>32. ASSUME NEW t \in Threads, CleanUnlock(t) PROVE TypeOK'
  BY <1>32, ReleaseKeepsOthers, <1>m
     DEF MutexOK, CleanUnlock, Return, Ops, Handles
<1>33. CASE CsvLibInit
  BY <1>33, NullIsNoThread DEF CsvLibInit, Unowned
<1>34. CASE UNCHANGED vars
  BY <1>34 DEF vars
<1>35. QED
  BY <1>1, <1>2, <1>3, <1>4, <1>5, <1>6, <1>7, <1>8, <1>9, <1>10, <1>11,
     <1>12, <1>13, <1>14, <1>15, <1>16, <1>17, <1>18, <1>19, <1>20, <1>21,
     <1>22, <1>23, <1>24, <1>25, <1>26, <1>27, <1>28, <1>29, <1>30, <1>31,
     <1>32, <1>33, <1>34
     DEF Next, Calls, Waits, Steps, Finished

(* Only its own ReleaseMutex takes the mutex from a thread, and every       *)
(* release leaves the guarded section.                                      *)
LEMMA LockStep == LockIInv /\ [Next]_vars => UnloadedIdle' /\ LockInv'
<1> SUFFICES ASSUME LockIInv, [Next]_vars PROVE UnloadedIdle' /\ LockInv'
  OBVIOUS
<1> USE DEF LockIInv, UnloadedIdle, LockInv, table, locals, Goto, At,
            LockedSteps
<1>m. MutexOK
  BY DEF MutexOK, TypeOK
<1>p. pc \in [Threads -> AllSteps]
  BY DEF TypeOK
<1>1. ASSUME NEW t \in Threads, CsviOpenFile(t) PROVE UnloadedIdle' /\ LockInv'
  BY <1>1, <1>p
     DEF CsviOpenFile, MayCall
<1>2. ASSUME NEW t \in Threads, CsviOpenFileFails(t) PROVE UnloadedIdle' /\ LockInv'
  BY <1>2, <1>p
     DEF CsviOpenFileFails, Crash, Dies
<1>3. ASSUME NEW t \in Threads, CallUse(t) PROVE UnloadedIdle' /\ LockInv'
  BY <1>3, <1>p
     DEF CallUse, MayCall
<1>4. ASSUME NEW t \in Threads, CallClose(t) PROVE UnloadedIdle' /\ LockInv'
  BY <1>4, <1>p
     DEF CallClose, MayCall
<1>5. ASSUME NEW t \in Threads, CallCleanup(t) PROVE UnloadedIdle' /\ LockInv'
  BY <1>5, <1>p
     DEF CallCleanup, MayCall
<1>6. ASSUME NEW t \in Threads, NewLock(t) PROVE UnloadedIdle' /\ LockInv'
  BY <1>6, <1>p, WaitGivesMutex, <1>m
     DEF MutexOK, NewLock
<1>7. ASSUME NEW t \in Threads, GetLock(t) PROVE UnloadedIdle' /\ LockInv'
  BY <1>7, <1>p, WaitGivesMutex, <1>m
     DEF MutexOK, GetLock
<1>8. ASSUME NEW t \in Threads, RelLock(t) PROVE UnloadedIdle' /\ LockInv'
  BY <1>8, <1>p, WaitGivesMutex, <1>m
     DEF MutexOK, RelLock
<1>9. ASSUME NEW t \in Threads, CleanLock(t) PROVE UnloadedIdle' /\ LockInv'
  BY <1>9, <1>p, WaitGivesMutex, <1>m
     DEF MutexOK, CleanLock
<1>10. ASSUME NEW t \in Threads, CsviExtendHandleTable(t) PROVE UnloadedIdle' /\ LockInv'
  BY <1>10, <1>p
     DEF CsviExtendHandleTable, Crash, Dies
<1>11. ASSUME NEW t \in Threads, NewScan(t) PROVE UnloadedIdle' /\ LockInv'
  BY <1>11, <1>p
     DEF NewScan, Crash, Dies
<1>12. ASSUME NEW t \in Threads, NewStore(t) PROVE UnloadedIdle' /\ LockInv'
  BY <1>12, <1>p
     DEF NewStore, Crash, Dies
<1>13. ASSUME NEW t \in Threads, NewUnlock(t) PROVE UnloadedIdle' /\ LockInv'
  BY <1>13, <1>p, ReleaseKeepsOthers, <1>m
     DEF MutexOK, NewUnlock
<1>14. ASSUME NEW t \in Threads, OpenInit(t) PROVE UnloadedIdle' /\ LockInv'
  BY <1>14, <1>p
     DEF OpenInit
<1>15. ASSUME NEW t \in Threads, OpenSucceeds(t) PROVE UnloadedIdle' /\ LockInv'
  BY <1>15, <1>p
     DEF OpenSucceeds, Return
<1>16. ASSUME NEW t \in Threads, OpenLeaks(t) PROVE UnloadedIdle' /\ LockInv'
  BY <1>16, <1>p
     DEF OpenLeaks, Return
<1>17. ASSUME NEW t \in Threads, OpenHeaderFails(t) PROVE UnloadedIdle' /\ LockInv'
  BY <1>17, <1>p
     DEF OpenHeaderFails
<1>18. ASSUME NEW t \in Threads, OpenFailWrite(t) PROVE UnloadedIdle' /\ LockInv'
  BY <1>18, <1>p
     DEF OpenFailWrite, Dies, Return
<1>19. ASSUME NEW t \in Threads, GetLookup(t) PROVE UnloadedIdle' /\ LockInv'
  BY <1>19, <1>p
     DEF GetLookup, Crash, Dies
<1>20. ASSUME NEW t \in Threads, GetUnlock(t) PROVE UnloadedIdle' /\ LockInv'
  BY <1>20, <1>p, ReleaseKeepsOthers, <1>m
     DEF MutexOK, GetUnlock
<1>21. ASSUME NEW t \in Threads, GetStamp(t) PROVE UnloadedIdle' /\ LockInv'
  BY <1>21, <1>p
     DEF GetStamp
<1>22. ASSUME NEW t \in Threads, GetFail(t) PROVE UnloadedIdle' /\ LockInv'
  BY <1>22, <1>p
     DEF GetFail, AfterClose, Return
<1>23. ASSUME NEW t \in Threads, Use(t) PROVE UnloadedIdle' /\ LockInv'
  BY <1>23, <1>p
     DEF Use, Return
<1>24. ASSUME NEW t \in Threads, CloseFile(t) PROVE UnloadedIdle' /\ LockInv'
  BY <1>24, <1>p
     DEF CloseFile
<1>25. ASSUME NEW t \in Threads, CloseFileFails(t) PROVE UnloadedIdle' /\ LockInv'
  BY <1>25, <1>p
     DEF CloseFileFails, AfterClose, Return
<1>26. ASSUME NEW t \in Threads, RelFree(t) PROVE UnloadedIdle' /\ LockInv'
  BY <1>26, <1>p
     DEF RelFree, Crash, Dies
<1>27. ASSUME NEW t \in Threads, RelUnlock(t) PROVE UnloadedIdle' /\ LockInv'
  BY <1>27, <1>p, ReleaseKeepsOthers, <1>m
     DEF MutexOK, RelUnlock
<1>28. ASSUME NEW t \in Threads, RelExit(t) PROVE UnloadedIdle' /\ LockInv'
  BY <1>28, <1>p, ReleaseKeepsOthers, <1>m
     DEF MutexOK, RelExit, AfterClose, Return
<1>29. ASSUME NEW t \in Threads, CleanCount(t) PROVE UnloadedIdle' /\ LockInv'
  BY <1>29, <1>p
     DEF CleanCount
<1>30. ASSUME NEW t \in Threads, CleanLoop(t) PROVE UnloadedIdle' /\ LockInv'
  BY <1>30, <1>p
     DEF CleanLoop
<1>31. ASSUME NEW t \in Threads, CleanFree(t) PROVE UnloadedIdle' /\ LockInv'
  BY <1>31, <1>p
     DEF CleanFree, NoEntries
<1>32. ASSUME NEW t \in Threads, CleanUnlock(t) PROVE UnloadedIdle' /\ LockInv'
  BY <1>32, <1>p, ReleaseKeepsOthers, <1>m
     DEF MutexOK, CleanUnlock, Return
<1>33. CASE CsvLibInit
  BY <1>33 DEF CsvLibInit
<1>34. CASE UNCHANGED vars
  BY <1>34 DEF vars
<1>35. QED
  BY <1>1, <1>2, <1>3, <1>4, <1>5, <1>6, <1>7, <1>8, <1>9, <1>10, <1>11,
     <1>12, <1>13, <1>14, <1>15, <1>16, <1>17, <1>18, <1>19, <1>20, <1>21,
     <1>22, <1>23, <1>24, <1>25, <1>26, <1>27, <1>28, <1>29, <1>30, <1>31,
     <1>32, <1>33, <1>34
     DEF Next, Calls, Waits, Steps, Finished

LEMMA LockInvariant == Spec => []LockIInv
<1>1. LockIInv /\ [Next]_vars => LockIInv'
  BY TypeStep, LockStep DEF LockIInv
<1>2. QED
  BY InitLockIInv, <1>1, PTL DEF Spec

(***************************************************************************)
(* Every variable keeps its type: in particular the slot array always has  *)
(* dwTableSize entries until CsvLibCleanup frees it, and the recursion     *)
(* count of the mutex never goes below 0, however often it is released.    *)
(***************************************************************************)
THEOREM TypeCorrect == Spec => []TypeOK
<1>1. LockIInv => TypeOK
  BY DEF LockIInv
<1>2. QED
  BY LockInvariant, <1>1, PTL

(***************************************************************************)
(* Two threads are never both inside a section guarded by the mutex, for   *)
(* every number of threads and whatever the host does.                     *)
(***************************************************************************)
THEOREM TableIsExclusive == Spec => []TableExclusive
<1>1. LockIInv => TableExclusive
  BY DEF LockIInv, LockInv, TableExclusive
<1>2. QED
  BY LockInvariant, <1>1, PTL

-----------------------------------------------------------------------------
(* Accounting.                                                              *)

(* Until the table memory is gone, dwEntryCount counts the slots in use; a  *)
(* thread that scans has room, and a thread that stores has a free slot.    *)
CountInv == lib # "down" => dwEntryCount = Cardinality(UsedSlots(pEntries))

ScanInv ==
  lib # "down" => \A t \in Threads :
    /\ pc[t] = "new_scan" => dwEntryCount # dwTableSize
    /\ pc[t] = "new_store" => /\ idx[t] \in Slots(dwTableSize)
                              /\ pEntries[idx[t]] = NULL

CountIInv == CountInv /\ ScanInv

(* The used slots are finitely many, and no more than there are slots.      *)
LEMMA UsedSlotsFinite ==
  ASSUME TypeOK, lib # "down"
  PROVE  /\ IsFiniteSet(UsedSlots(pEntries))
         /\ IsFiniteSet(Slots(dwTableSize))
         /\ Cardinality(Slots(dwTableSize)) = dwTableSize
         /\ UsedSlots(pEntries) \subseteq Slots(dwTableSize)
         /\ Cardinality(UsedSlots(pEntries)) <= dwTableSize
<1>0. dwTableSize \in Nat
  BY DEF TypeOK
<1>1. /\ IsFiniteSet(Slots(dwTableSize))
      /\ Cardinality(Slots(dwTableSize)) = dwTableSize
  <2>1. /\ IsFiniteSet(0 .. dwTableSize - 1)
        /\ Cardinality(0 .. dwTableSize - 1)
             = IF 0 > dwTableSize - 1 THEN 0 ELSE (dwTableSize - 1) - 0 + 1
    BY <1>0, FS_Interval
  <2>2. QED
    BY <2>1, <1>0 DEF Slots
<1>2. UsedSlots(pEntries) \subseteq Slots(dwTableSize)
  BY DEF TypeOK, UsedSlots
<1>3. QED
  BY <1>1, <1>2, FS_Subset

(* Growing the array neither loses an entry nor invents one.                *)
LEMMA ExtendKeepsUsed ==
  ASSUME NEW k \in Nat, NEW n \in Nat, k <= n,
         NEW e, DOMAIN e = Slots(k)
  PROVE  UsedSlots(Extended(e, k, n)) = UsedSlots(e)
  BY DEF UsedSlots, Extended, Slots

LEMMA InitCountIInv == Init => CountIInv
<1> SUFFICES ASSUME Init PROVE CountIInv
  OBVIOUS
<1>1. UsedSlots(pEntries) = {}
  BY DEF Init, NoEntries, UsedSlots
<1>2. QED
  BY <1>1, FS_EmptySet DEF Init, CountIInv, CountInv, ScanInv

(* A thread that touches the table owns the mutex, so no other thread is    *)
(* between its scan and its store.                                          *)
LEMMA OthersOutside ==
  ASSUME LockIInv, NEW t \in Threads, pc[t] \in LockedSteps,
         NEW u \in Threads \ {t}
  PROVE  pc[u] # "new_scan" /\ pc[u] # "new_store"
  BY DEF LockIInv, LockInv, LockedSteps

(* The two steps of CsviNewObject that change the table.                    *)
LEMMA ExtendStep ==
  ASSUME LockIInv, CountIInv, NEW t \in Threads, CsviExtendHandleTable(t)
  PROVE  CountIInv'
<1> USE DEF CountIInv, CountInv, ScanInv
<1>0. TypeOK
  BY DEF LockIInv
<1>1. CASE lib = "down"
  BY <1>1, <1>0 DEF CsviExtendHandleTable, Crash, Dies
<1>2. CASE lib # "down" /\ dwEntryCount = dwTableSize
  <2>1. /\ dwTableSize' = dwTableSize + CSV_HANDLE_TABLE_DELTA
        /\ pEntries' = Extended(pEntries, dwTableSize, dwTableSize')
        /\ dwEntryCount' = dwEntryCount
        /\ pc[t] = "new_extend" /\ pc' = [pc EXCEPT ![t] = "new_scan"]
    BY <1>2 DEF CsviExtendHandleTable, At, Goto
  <2>2. DOMAIN pEntries = Slots(dwTableSize)
    BY <1>2, <1>0 DEF TypeOK
  <2>3. UsedSlots(pEntries') = UsedSlots(pEntries)
    <3>1. dwTableSize \in Nat /\ dwTableSize' \in Nat
      BY <2>1, <1>0, TableAssumption DEF TypeOK
    <3>2. dwTableSize <= dwTableSize'
      BY <2>1, <1>0, TableAssumption DEF TypeOK
    <3>3. UsedSlots(Extended(pEntries, dwTableSize, dwTableSize'))
            = UsedSlots(pEntries)
      BY <3>1, <3>2, <2>2, ExtendKeepsUsed
    <3>4. QED
      BY <3>3, <2>1
  <2>4. dwEntryCount' # dwTableSize'
    BY <2>1, <1>2, <1>0, TableAssumption DEF TypeOK
  <2>5. \A u \in Threads \ {t} : pc'[u] # "new_scan" /\ pc'[u] # "new_store"
    BY <2>1, <1>0, OthersOutside DEF TypeOK, LockedSteps
  <2>6. pc'[t] = "new_scan"
    BY <2>1, <1>0 DEF TypeOK
  <2>7. QED
    BY <2>1, <2>3, <2>4, <2>5, <2>6, <1>2
<1>3. CASE lib # "down" /\ dwEntryCount # dwTableSize
  <2>1. /\ UNCHANGED <<lib, dwTableSize, dwEntryCount, pEntries, idx>>
        /\ pc' = [pc EXCEPT ![t] = "new_scan"]
    BY <1>3 DEF CsviExtendHandleTable, Goto
  <2>2. QED
    BY <2>1, <1>3, <1>0 DEF TypeOK
<1>4. QED
  BY <1>1, <1>2, <1>3

(* A scan that found no free slot would have counted a full table.          *)
LEMMA ScanStep ==
  ASSUME LockIInv, CountIInv, NEW t \in Threads, NewScan(t)
  PROVE  CountIInv'
<1> USE DEF CountIInv, CountInv, ScanInv
<1>0. TypeOK
  BY DEF LockIInv
<1>1. CASE DOMAIN pEntries = Slots(dwTableSize) /\ lib # "down"
  <2>1. PICK i \in 0..dwTableSize :
             IsFirstFree(pEntries, dwTableSize, i) /\ idx' = [idx EXCEPT ![t] = i]
    BY <1>1 DEF NewScan
  <2>2. /\ UNCHANGED <<lib, dwTableSize, dwEntryCount, pEntries>>
        /\ pc[t] = "new_scan" /\ pc' = [pc EXCEPT ![t] = "new_store"]
    BY <1>1 DEF NewScan, At, Goto, table
  <2>3. i # dwTableSize
    <3>1. SUFFICES ASSUME i = dwTableSize PROVE FALSE
      OBVIOUS
    <3>2. UsedSlots(pEntries) = Slots(dwTableSize)
      BY <2>1, <3>1, <1>1 DEF IsFirstFree, UsedSlots
    <3>3. dwEntryCount = dwTableSize
      BY <3>2, <1>1, <1>0, UsedSlotsFinite
    <3>4. QED
      BY <3>3, <2>2, <1>1
  <2>4. i \in Slots(dwTableSize) /\ pEntries[i] = NULL
    BY <2>1, <2>3, <1>0 DEF IsFirstFree, Slots, TypeOK
  <2>5. QED
    BY <2>1, <2>2, <2>4, <1>0, <1>1 DEF TypeOK
<1>2. CASE ~(DOMAIN pEntries = Slots(dwTableSize) /\ lib # "down")
  <2>1. lib = "down"
    BY <1>2, <1>0 DEF TypeOK
  <2>2. lib' = lib
    BY DEF NewScan, Crash, Dies
  <2>3. QED
    BY <2>1, <2>2
<1>3. QED
  BY <1>1, <1>2

LEMMA StoreStep ==
  ASSUME LockIInv, CountIInv, NEW t \in Threads, NewStore(t)
  PROVE  CountIInv'
<1> USE DEF CountIInv, CountInv, ScanInv
<1>0. TypeOK
  BY DEF LockIInv
<1>1. CASE idx[t] \in DOMAIN pEntries /\ lib # "down"
  <2>1. PICK o \in Objects \ heap : pEntries' = [pEntries EXCEPT ![idx[t]] = o]
    BY <1>1 DEF NewStore
  <2>2. /\ UNCHANGED <<lib, dwTableSize, idx>>
        /\ dwEntryCount' = dwEntryCount + 1
        /\ pc[t] = "new_store" /\ pc' = [pc EXCEPT ![t] = "new_unlock"]
    BY <1>1 DEF NewStore, At, Goto
  <2>3. pEntries[idx[t]] = NULL
    BY <2>2, <1>1
  <2>4. /\ UsedSlots(pEntries') = UsedSlots(pEntries) \cup {idx[t]}
        /\ idx[t] \notin UsedSlots(pEntries)
    BY <2>1, <2>3, <1>1, TableAssumption DEF UsedSlots
  <2>5. Cardinality(UsedSlots(pEntries')) = Cardinality(UsedSlots(pEntries)) + 1
    BY <2>4, <1>0, <1>1, UsedSlotsFinite, FS_AddElement
  <2>6. \A u \in Threads : pc'[u] # "new_scan" /\ pc'[u] # "new_store"
    BY <2>2, <1>0, OthersOutside DEF TypeOK, LockedSteps
  <2>7. QED
    BY <2>2, <2>5, <2>6, <1>1
<1>2. CASE idx[t] \notin DOMAIN pEntries
  BY <1>2 DEF NewStore, Crash, Dies, table, locals
<1>3. CASE lib = "down"
  <2>1. lib' = lib
    BY DEF NewStore, Crash, Dies
  <2>2. QED
    BY <2>1, <1>3
<1>4. QED
  BY <1>1, <1>2, <1>3

(* CsviReleaseObject empties a slot that was in use.                        *)
LEMMA ReleaseStep ==
  ASSUME LockIInv, CountIInv, NEW t \in Threads, RelFree(t)
  PROVE  CountIInv'
<1> USE DEF CountIInv, CountInv, ScanInv
<1>0. TypeOK
  BY DEF LockIInv
<1>1. CASE hnd[t] \in DOMAIN pEntries /\ pEntries[hnd[t]] # NULL /\ lib # "down"
  <2>1. /\ pEntries' = [pEntries EXCEPT ![hnd[t]] = NULL]
        /\ UNCHANGED <<lib, dwTableSize, idx>>
        /\ dwEntryCount' = dwEntryCount - 1
        /\ pc[t] = "rel_free" /\ pc' = [pc EXCEPT ![t] = "rel_unlock"]
    BY <1>1 DEF RelFree, At, Goto
  <2>2. /\ UsedSlots(pEntries') = UsedSlots(pEntries) \ {hnd[t]}
        /\ hnd[t] \in UsedSlots(pEntries)
    BY <2>1, <1>1 DEF UsedSlots
  <2>3. Cardinality(UsedSlots(pEntries')) = Cardinality(UsedSlots(pEntries)) - 1
    BY <2>2, <1>0, <1>1, UsedSlotsFinite, FS_RemoveElement
  <2>4. \A u \in Threads : pc'[u] # "new_scan" /\ pc'[u] # "new_store"
    BY <2>1, <1>0, OthersOutside DEF TypeOK, LockedSteps
  <2>5. QED
    BY <2>1, <2>3, <2>4, <1>1
<1>2. CASE ~(hnd[t] \in DOMAIN pEntries /\ pEntries[hnd[t]] # NULL)
  BY <1>2 DEF RelFree, Crash, Dies, table, locals
<1>3. CASE lib = "down"
  <2>1. lib' = lib
    BY DEF RelFree, Crash, Dies
  <2>2. QED
    BY <2>1, <1>3
<1>4. QED
  BY <1>1, <1>2, <1>3

(* Every other step leaves the table alone, or frees it for good.           *)
LEMMA CountStep == LockIInv /\ CountIInv /\ [Next]_vars => CountIInv'
<1> SUFFICES ASSUME LockIInv, CountIInv, [Next]_vars PROVE CountIInv'
  OBVIOUS
<1> USE DEF CountIInv, CountInv, ScanInv, table, locals, Goto, At
<1>p. pc \in [Threads -> AllSteps] /\ idx \in [Threads -> Nat]
  BY DEF LockIInv, TypeOK
<1>1. ASSUME NEW t \in Threads, CsviOpenFile(t) PROVE CountIInv'
  BY <1>1, <1>p DEF CsviOpenFile, MayCall
<1>2. ASSUME NEW t \in Threads, CsviOpenFileFails(t) PROVE CountIInv'
  BY <1>2, <1>p DEF CsviOpenFileFails, Crash, Dies
<1>3. ASSUME NEW t \in Threads, CallUse(t) PROVE CountIInv'
  BY <1>3, <1>p DEF CallUse, MayCall
<1>4. ASSUME NEW t \in Threads, CallClose(t) PROVE CountIInv'
  BY <1>4, <1>p DEF CallClose, MayCall
<1>5. ASSUME NEW t \in Threads, CallCleanup(t) PROVE CountIInv'
  BY <1>5, <1>p DEF CallCleanup, MayCall
<1>6. ASSUME NEW t \in Threads, NewLock(t) PROVE CountIInv'
  BY <1>6, <1>p DEF NewLock
<1>7. ASSUME NEW t \in Threads, GetLock(t) PROVE CountIInv'
  BY <1>7, <1>p DEF GetLock
<1>8. ASSUME NEW t \in Threads, RelLock(t) PROVE CountIInv'
  BY <1>8, <1>p DEF RelLock
<1>9. ASSUME NEW t \in Threads, CleanLock(t) PROVE CountIInv'
  BY <1>9, <1>p DEF CleanLock
<1>10. ASSUME NEW t \in Threads, CsviExtendHandleTable(t) PROVE CountIInv'
  BY <1>10, ExtendStep
<1>11. ASSUME NEW t \in Threads, NewScan(t) PROVE CountIInv'
  BY <1>11, ScanStep
<1>12. ASSUME NEW t \in Threads, NewStore(t) PROVE CountIInv'
  BY <1>12, StoreStep
<1>13. ASSUME NEW t \in Threads, NewUnlock(t) PROVE CountIInv'
  BY <1>13, <1>p DEF NewUnlock
<1>14. ASSUME NEW t \in Threads, OpenInit(t) PROVE CountIInv'
  BY <1>14, <1>p DEF OpenInit
<1>15. ASSUME NEW t \in Threads, OpenSucceeds(t) PROVE CountIInv'
  BY <1>15, <1>p DEF OpenSucceeds, Return
<1>16. ASSUME NEW t \in Threads, OpenLeaks(t) PROVE CountIInv'
  BY <1>16, <1>p DEF OpenLeaks, Return
<1>17. ASSUME NEW t \in Threads, OpenHeaderFails(t) PROVE CountIInv'
  BY <1>17, <1>p DEF OpenHeaderFails
<1>18. ASSUME NEW t \in Threads, OpenFailWrite(t) PROVE CountIInv'
  BY <1>18, <1>p DEF OpenFailWrite, Dies, Return
<1>19. ASSUME NEW t \in Threads, GetLookup(t) PROVE CountIInv'
  BY <1>19, <1>p DEF GetLookup, Crash, Dies
<1>20. ASSUME NEW t \in Threads, GetUnlock(t) PROVE CountIInv'
  BY <1>20, <1>p DEF GetUnlock
<1>21. ASSUME NEW t \in Threads, GetStamp(t) PROVE CountIInv'
  BY <1>21, <1>p DEF GetStamp
<1>22. ASSUME NEW t \in Threads, GetFail(t) PROVE CountIInv'
  BY <1>22, <1>p DEF GetFail, AfterClose, Return
<1>23. ASSUME NEW t \in Threads, Use(t) PROVE CountIInv'
  BY <1>23, <1>p DEF Use, Return
<1>24. ASSUME NEW t \in Threads, CloseFile(t) PROVE CountIInv'
  BY <1>24, <1>p DEF CloseFile
<1>25. ASSUME NEW t \in Threads, CloseFileFails(t) PROVE CountIInv'
  BY <1>25, <1>p DEF CloseFileFails, AfterClose, Return
<1>26. ASSUME NEW t \in Threads, RelFree(t) PROVE CountIInv'
  BY <1>26, ReleaseStep
<1>27. ASSUME NEW t \in Threads, RelUnlock(t) PROVE CountIInv'
  BY <1>27, <1>p DEF RelUnlock
<1>28. ASSUME NEW t \in Threads, RelExit(t) PROVE CountIInv'
  BY <1>28, <1>p DEF RelExit, AfterClose, Return
<1>29. ASSUME NEW t \in Threads, CleanCount(t) PROVE CountIInv'
  BY <1>29, <1>p DEF CleanCount
<1>30. ASSUME NEW t \in Threads, CleanLoop(t) PROVE CountIInv'
  BY <1>30, <1>p DEF CleanLoop
<1>31. ASSUME NEW t \in Threads, CleanFree(t) PROVE CountIInv'
  BY <1>31, <1>p DEF CleanFree, NoEntries
<1>32. ASSUME NEW t \in Threads, CleanUnlock(t) PROVE CountIInv'
  BY <1>32, <1>p DEF CleanUnlock, Return
<1>33. CASE CsvLibInit
  BY <1>33 DEF CsvLibInit
<1>34. CASE UNCHANGED vars
  BY <1>34 DEF vars
<1>35. QED
  BY <1>1, <1>2, <1>3, <1>4, <1>5, <1>6, <1>7, <1>8, <1>9, <1>10, <1>11,
     <1>12, <1>13, <1>14, <1>15, <1>16, <1>17, <1>18, <1>19, <1>20, <1>21,
     <1>22, <1>23, <1>24, <1>25, <1>26, <1>27, <1>28, <1>29, <1>30, <1>31,
     <1>32, <1>33, <1>34
     DEF Next, Calls, Waits, Steps, Finished

LEMMA CountInvariant == Spec => []CountIInv
<1>1. QED
  BY InitCountIInv, LockInvariant, CountStep, PTL DEF Spec

(***************************************************************************)
(* dwEntryCount is the number of slots in use, for every table growth      *)
(* step, every number of threads and every interleaving.                   *)
(***************************************************************************)
THEOREM EntryCountIsExact == Spec => []EntryCountExact
<1>1. CountIInv => EntryCountExact
  BY DEF CountIInv, CountInv, EntryCountExact
<1>2. QED
  BY CountInvariant, <1>1, PTL

(***************************************************************************)
(* The index at which CsviNewObject stores without a bounds check is a     *)
(* slot of the table, and a free one: the test on dwEntryCount suffices.   *)
(***************************************************************************)
THEOREM StoreIsSafe == Spec => []StoreFindsFreeSlot
<1>1. LockIInv /\ CountIInv => StoreFindsFreeSlot
  BY DEF LockIInv, TypeOK, CountIInv, ScanInv, StoreFindsFreeSlot
<1>2. QED
  BY LockInvariant, CountInvariant, <1>1, PTL

-----------------------------------------------------------------------------
(* The objects behind the handles.                                          *)

(* What these proofs assume of the host.                                    *)
Disciplined == CleanupQuiescent

(* The steps of a call with a handle.                                       *)
GetSteps == {"get_lock", "get_lookup", "get_unlock", "get_fail", "get_stamp"}
CloseSteps == {"close_file", "rel_lock", "rel_free", "rel_unlock", "rel_exit"}
OpenSteps == {"new_lock", "new_extend", "new_scan", "new_store", "new_unlock",
              "open_init", "open_header"}

(* Which call a step belongs to.                                            *)
OpInv(t) ==
  /\ pc[t] = "idle" => op[t] = "none"
  /\ pc[t] \in OpenSteps => op[t] = "open"
  /\ pc[t] \in GetSteps => op[t] \in {"use", "close", "openfail", "cleanup"}
  /\ pc[t] = "use" => op[t] = "use"
  /\ pc[t] \in CloseSteps => op[t] \in {"close", "openfail", "cleanup"}
  /\ pc[t] = "openfail_write" => op[t] = "openfail"
  /\ pc[t] \in CleanupSteps \cup {"clean_lock"} => op[t] = "cleanup"

(* A thread that works on a handle which is, or is to be, its own.          *)
Claiming(t) ==
  \/ pc[t] \in {"new_unlock", "open_init", "open_header"}
  \/ /\ pc[t] \in {"get_lock", "get_lookup", "get_unlock", "get_stamp",
                   "close_file", "rel_lock", "rel_free"}
     /\ op[t] # "use" /\ hnd[t] # CSV_INVALID_HANDLE_VALUE

(* A thread whose pCsv must be the object its handle names.                 *)
Pointing(t) ==
  \/ /\ pc[t] \in UnlockedUses \cup {"new_unlock", "rel_lock", "rel_free"}
     /\ pc[t] # "openfail_write"
  \/ pc[t] = "get_unlock" /\ obj[t] # NULL

Live(h) == h \in DOMAIN pEntries /\ pEntries[h] \in heap

ThreadInv(t) ==
  /\ OpInv(t)
  /\ \A h \in owned[t] : Live(h)
  /\ Claiming(t) => Live(hnd[t]) /\ hnd[t] \notin owned[t]
  /\ Pointing(t) => Live(hnd[t]) /\ pEntries[hnd[t]] = obj[t]
  /\ op[t] = "use" => hnd[t] \in owned[t] \cup {CSV_INVALID_HANDLE_VALUE}

(* Every thread is idle, but one that cleans up, from the start of the      *)
(* cleanup on, and no handle is owned any more.                             *)
Quiet ==
  /\ \A t, u \in Threads : InCleanup(t) /\ t # u => pc[u] = "idle"
  /\ \A t, u \in Threads : InCleanup(t) => owned[u] = {}
  /\ lib = "down" => \A t \in Threads : pc[t] \in {"idle", "clean_unlock"} /\ owned[t] = {}

(* A thread about to store has the smallest free slot.                      *)
StoreInv ==
  \A t \in Threads : pc[t] = "new_store" => \A j \in Slots(idx[t]) : pEntries[j] # NULL

Disjoint == \A t, u \in Threads : t # u => Claims(t) \cap Claims(u) = {}

(***************************************************************************)
(* The inductive invariant, on top of LockIInv and CountIInv.              *)
(***************************************************************************)
ObjectInv ==
  /\ \A t \in Threads : ThreadInv(t)
  /\ Disjoint
  /\ TableIsHeap
  /\ lib = "unloaded" => heap = {}

ObjIInv == Quiet /\ ObjectInv /\ StoreInv /\ process # "table"

(* The process dies in the error path of an open: nothing else changes.     *)
Death == Dies("null") \/ Dies("freed")

-----------------------------------------------------------------------------
(* Most steps touch nothing but the locals and the handles of their thread, *)
(* which claims no more than before, or what nobody claims.                 *)
Alone(t) ==
  /\ UNCHANGED <<lib, pEntries, heap, process>>
  /\ \A u \in Threads \ {t} :
       /\ pc'[u] = pc[u] /\ op'[u] = op[u] /\ hnd'[u] = hnd[u]
       /\ obj'[u] = obj[u] /\ idx'[u] = idx[u] /\ owned'[u] = owned[u]
Local(t) ==
  /\ Alone(t)
  /\ InCleanup(t)' => InCleanup(t)
  /\ InCleanup(t) \/ lib = "down" => owned'[t] = {}
  /\ lib = "down" => pc'[t] = "idle"
  /\ pc'[t] = "new_store" => \A j \in Slots(idx'[t]) : pEntries[j] # NULL
  /\ Claims(t)' \subseteq Claims(t) \/ \A u \in Threads \ {t} : Claims(u) = {}
  /\ ThreadInv(t)'

(* Nobody cleans up while another thread is in a call.                      *)
LEMMA NobodyElseCleans ==
  ASSUME Quiet, NEW t \in Threads, pc[t] # "idle"
  PROVE  \A u \in Threads \ {t} : ~InCleanup(u)
  BY DEF Quiet

LEMMA LocalStep ==
  ASSUME ObjIInv, NEW t \in Threads, Local(t),
         \A u \in Threads \ {t} : ~InCleanup(u)
  PROVE  ObjIInv'
<1> USE DEF Alone, Local
<1>1. \A u \in Threads \ {t} : InCleanup(u)' <=> InCleanup(u)
  BY DEF InCleanup, Running
<1>2. \A u \in Threads \ {t} : Claims(u)' = Claims(u)
  BY DEF Claims
<1>3. Quiet'
  <2>1. \A u \in Threads : InCleanup(u)' => u = t /\ InCleanup(t)
    BY <1>1
  <2>2. \A u, v \in Threads : InCleanup(u)' /\ u # v => pc'[v] = "idle"
    BY <2>1 DEF ObjIInv, Quiet
  <2>3. \A u, v \in Threads : InCleanup(u)' => owned'[v] = {}
    BY <2>1 DEF ObjIInv, Quiet
  <2>4. lib' = "down" => \A u \in Threads : pc'[u] \in {"idle", "clean_unlock"} /\ owned'[u] = {}
    BY DEF ObjIInv, Quiet
  <2>5. QED
    BY <2>2, <2>3, <2>4 DEF Quiet
<1>4. \A u \in Threads : ThreadInv(u)'
  <2>1. \A u \in Threads \ {t} : ThreadInv(u)'
    BY DEF ObjIInv, ObjectInv, ThreadInv, OpInv, Claiming, Pointing, Live
  <2>2. QED
    BY <2>1
<1>5. Disjoint'
  BY <1>2 DEF ObjIInv, ObjectInv, Disjoint
<1>6. TableIsHeap'
  BY DEF ObjIInv, ObjectInv, TableIsHeap, UsedSlots
<1>7. StoreInv'
  BY DEF ObjIInv, StoreInv
<1>8. QED
  BY <1>3, <1>4, <1>5, <1>6, <1>7 DEF ObjIInv, ObjectInv

(* A slot's number is not the invalid handle.                               *)
LEMMA LiveIsValid ==
  ASSUME TypeOK, NEW h, Live(h)
  PROVE  h # CSV_INVALID_HANDLE_VALUE
  BY DEF TypeOK, Live, Slots, CSV_INVALID_HANDLE_VALUE

-----------------------------------------------------------------------------
(* The steps that are local.                                                *)
LEMMA LocalSteps ==
  ASSUME TypeOK, ObjIInv, Disciplined, NEW t \in Threads,
         \/ NewLock(t) \/ GetLock(t) \/ RelLock(t) \/ CleanLock(t)
         \/ NewScan(t) \/ NewUnlock(t) \/ OpenInit(t) \/ OpenSucceeds(t) \/ OpenLeaks(t)
         \/ OpenHeaderFails(t) \/ (OpenFailWrite(t) /\ ~Dies("freed"))
         \/ GetLookup(t) \/ GetUnlock(t) \/ GetStamp(t) \/ GetFail(t) \/ Use(t)
         \/ CloseFile(t) \/ CloseFileFails(t) \/ RelUnlock(t) \/ RelExit(t)
         \/ CleanCount(t) \/ CleanLoop(t) \/ CleanUnlock(t)
  PROVE  Local(t)
<1> USE DEF table, locals, Goto, At, GetSteps, CloseSteps, OpenSteps,
            CleanupSteps, UnlockedUses
<1>1. /\ pc \in [Threads -> AllSteps] /\ op \in [Threads -> Ops]
      /\ hnd \in [Threads -> Handles] /\ obj \in [Threads -> Objects \cup {NULL}]
      /\ idx \in [Threads -> Nat] /\ owned \in [Threads -> SUBSET Handles]
  BY DEF TypeOK
<1>2. ThreadInv(t)
  BY DEF ObjIInv, ObjectInv
<1>3. /\ InCleanup(t) => owned[t] = {}
      /\ lib = "down" => pc[t] \in {"idle", "clean_unlock"} /\ owned[t] = {}
  BY DEF ObjIInv, Quiet
<1>4. CASE NewLock(t)
  BY <1>1, <1>2, <1>3, <1>4
     DEF NewLock, Local, Alone, ThreadInv, OpInv, Claiming, Pointing,
         Live, Claims, InCleanup, Running
<1>5. CASE GetLock(t)
  BY <1>1, <1>2, <1>3, <1>5
     DEF GetLock, Local, Alone, ThreadInv, OpInv, Claiming, Pointing,
         Live, Claims, InCleanup, Running
<1>6. CASE RelLock(t)
  BY <1>1, <1>2, <1>3, <1>6
     DEF RelLock, Local, Alone, ThreadInv, OpInv, Claiming, Pointing,
         Live, Claims, InCleanup, Running
<1>7. CASE CleanLock(t)
  BY <1>1, <1>2, <1>3, <1>7
     DEF CleanLock, Local, Alone, ThreadInv, OpInv, Claiming, Pointing,
         Live, Claims, InCleanup, Running
<1>8. CASE NewUnlock(t)
  BY <1>1, <1>2, <1>3, <1>8
     DEF NewUnlock, Local, Alone, ThreadInv, OpInv, Claiming, Pointing,
         Live, Claims, InCleanup, Running
<1>9. CASE OpenInit(t)
  BY <1>1, <1>2, <1>3, <1>9
     DEF OpenInit, Local, Alone, ThreadInv, OpInv, Claiming, Pointing,
         Live, Claims, InCleanup, Running
<1>10. CASE OpenSucceeds(t)
  BY <1>1, <1>2, <1>3, <1>10
     DEF OpenSucceeds, Return, Local, Alone, ThreadInv, OpInv, Claiming, Pointing,
         Live, Claims, InCleanup, Running
<1>11. CASE OpenLeaks(t)
  BY <1>1, <1>2, <1>3, <1>11
     DEF OpenLeaks, Return, Local, Alone, ThreadInv, OpInv, Claiming, Pointing,
         Live, Claims, InCleanup, Running
<1>12. CASE OpenHeaderFails(t)
  BY <1>1, <1>2, <1>3, <1>12
     DEF OpenHeaderFails, Local, Alone, ThreadInv, OpInv, Claiming, Pointing,
         Live, Claims, InCleanup, Running
<1>13. CASE OpenFailWrite(t) /\ ~Dies("freed")
  BY <1>1, <1>2, <1>3, <1>13
     DEF OpenFailWrite, Return, Local, Alone, ThreadInv, OpInv, Claiming, Pointing,
         Live, Claims, InCleanup, Running
<1>14. CASE GetLookup(t)
  <2>1. PassesRangeCheck(hnd[t], dwTableSize) => Live(hnd[t])
    BY <1>2, <1>14 DEF GetLookup, PassesRangeCheck, ThreadInv, OpInv, Claiming
  <2>2. /\ obj' = [obj EXCEPT ![t] = IF PassesRangeCheck(hnd[t], dwTableSize)
                                     THEN pEntries[hnd[t]] ELSE NULL]
        /\ pc' = [pc EXCEPT ![t] = "get_unlock"] /\ pc[t] = "get_lookup"
        /\ UNCHANGED <<lib, pEntries, heap, process, op, hnd, idx, owned>>
    BY <2>1, <1>14 DEF GetLookup, Live
  <2>3. QED
    BY <1>1, <1>2, <1>3, <2>1, <2>2
       DEF Local, Alone, ThreadInv, OpInv, Claiming, Pointing, Live, Claims,
           InCleanup, Running
<1>15. CASE GetUnlock(t)
  BY <1>1, <1>2, <1>3, <1>15
     DEF GetUnlock, Local, Alone, ThreadInv, OpInv, Claiming, Pointing,
         Live, Claims, InCleanup, Running
<1>16. CASE GetStamp(t)
  BY <1>1, <1>2, <1>3, <1>16
     DEF GetStamp, Local, Alone, ThreadInv, OpInv, Claiming, Pointing,
         Live, Claims, InCleanup, Running
<1>17. CASE GetFail(t)
  BY <1>1, <1>2, <1>3, <1>17
     DEF GetFail, AfterClose, Return, Local, Alone, ThreadInv, OpInv, Claiming, Pointing,
         Live, Claims, InCleanup, Running
<1>18. CASE Use(t)
  BY <1>1, <1>2, <1>3, <1>18
     DEF Use, Return, Local, Alone, ThreadInv, OpInv, Claiming, Pointing,
         Live, Claims, InCleanup, Running
<1>19. CASE CloseFile(t)
  BY <1>1, <1>2, <1>3, <1>19
     DEF CloseFile, Local, Alone, ThreadInv, OpInv, Claiming, Pointing,
         Live, Claims, InCleanup, Running
<1>20. CASE CloseFileFails(t)
  <2>1. Live(hnd[t]) /\ hnd[t] # CSV_INVALID_HANDLE_VALUE
    BY <1>2, <1>20, LiveIsValid DEF CloseFileFails, ThreadInv, Pointing
  <2>2. pc[t] = "close_file" /\ lib # "down" /\ Claims(t) = owned[t] \cup {hnd[t]}
    BY <1>2, <1>3, <1>20, <2>1 DEF CloseFileFails, ThreadInv, OpInv, Claims
  <2>3. Alone(t)
    BY <1>1, <1>20 DEF CloseFileFails, AfterClose, Return, Alone
  <2>4. \/ op[t] = "close" /\ owned'[t] = owned[t] \cup {hnd[t]} /\ pc'[t] = "idle"
           /\ op'[t] = "none"
        \/ op[t] = "openfail" /\ owned'[t] = owned[t] /\ pc'[t] = "openfail_write"
           /\ op'[t] = op[t]
        \/ op[t] = "cleanup" /\ owned'[t] = owned[t] /\ pc'[t] = "clean_loop"
           /\ op'[t] = op[t]
    BY <1>1, <1>2, <1>20 DEF CloseFileFails, AfterClose, Return, ThreadInv, OpInv
  <2>5. UNCHANGED <<pEntries, heap>>
    BY <2>3 DEF Alone
  <2>6. ThreadInv(t)'
    BY <1>2, <2>1, <2>4, <2>5 DEF ThreadInv, OpInv, Claiming, Pointing, Live
  <2>7. QED
    BY <1>3, <2>2, <2>3, <2>4, <2>6 DEF Local, Claims, InCleanup, Running
<1>21. CASE RelUnlock(t)
  BY <1>1, <1>2, <1>3, <1>21
     DEF RelUnlock, Local, Alone, ThreadInv, OpInv, Claiming, Pointing,
         Live, Claims, InCleanup, Running
<1>22. CASE RelExit(t)
  BY <1>1, <1>2, <1>3, <1>22
     DEF RelExit, AfterClose, Return, Local, Alone, ThreadInv, OpInv, Claiming, Pointing,
         Live, Claims, InCleanup, Running
<1>23. CASE CleanCount(t)
  BY <1>1, <1>2, <1>3, <1>23
     DEF CleanCount, Local, Alone, ThreadInv, OpInv, Claiming, Pointing,
         Live, Claims, InCleanup, Running
<1>24. CASE CleanLoop(t)
  <2>1. InCleanup(t) /\ pc[t] = "clean_loop" /\ lib # "down" /\ op[t] = "cleanup"
    BY <1>2, <1>3, <1>24 DEF CleanLoop, ThreadInv, OpInv, InCleanup, Running
  <2>2. \A u \in Threads \ {t} : Claims(u) = {}
    BY <2>1 DEF ObjIInv, Quiet, Claims
  <2>3. idx[t] < dwTableSize /\ pEntries[idx[t]] # NULL => Live(idx[t])
    BY <1>1, <2>1 DEF TypeOK, Slots, ObjIInv, ObjectInv, TableIsHeap, UsedSlots, Live
  <2>4. Alone(t)
    BY <1>1, <1>24 DEF CleanLoop, Alone
  <2>5. /\ owned[t] = {} /\ owned' = owned /\ op' = op /\ obj' = obj
        /\ UNCHANGED <<lib, pEntries, heap>>
        /\ \/ pc'[t] \in {"clean_free", "clean_loop"}
           \/ pc'[t] = "get_lock" /\ hnd'[t] = idx[t] /\ Live(idx[t])
    BY <1>1, <1>3, <1>24, <2>1, <2>3 DEF CleanLoop, TypeOK
  <2>6. QED
    BY <2>1, <2>2, <2>4, <2>5
       DEF Local, ThreadInv, OpInv, Claiming, Pointing, Live, Claims, InCleanup, Running
<1>25. CASE CleanUnlock(t)
  BY <1>1, <1>2, <1>3, <1>25
     DEF CleanUnlock, Return, Local, Alone, ThreadInv, OpInv, Claiming, Pointing,
         Live, Claims, InCleanup, Running
<1>26. CASE NewScan(t)
  <2>1. lib # "down" /\ DOMAIN pEntries = Slots(dwTableSize) /\ dwTableSize \in Nat
    BY <1>3, <1>26 DEF NewScan, TypeOK
  <2>2. PICK i \in 0..dwTableSize :
             IsFirstFree(pEntries, dwTableSize, i) /\ idx' = [idx EXCEPT ![t] = i]
    BY <1>26, <2>1 DEF NewScan
  <2>3. \A j \in Slots(idx'[t]) : pEntries[j] # NULL
    BY <1>1, <2>2 DEF IsFirstFree
  <2>4. /\ pc[t] = "new_scan" /\ pc' = [pc EXCEPT ![t] = "new_store"]
        /\ UNCHANGED <<lib, pEntries, heap, process, op, hnd, obj, owned>>
    BY <1>26, <2>1 DEF NewScan
  <2>5. QED
    BY <1>1, <1>2, <2>1, <2>2, <2>3, <2>4
       DEF Local, Alone, ThreadInv, OpInv, Claiming, Pointing, Live, Claims,
           InCleanup, Running
<1>27. QED
  BY <1>4, <1>5, <1>6, <1>7, <1>8, <1>9, <1>10, <1>11, <1>12, <1>13, <1>14, <1>15, <1>16, <1>17, <1>18, <1>19, <1>20, <1>21, <1>22, <1>23, <1>24, <1>25, <1>26

(* The calls of the host, but the cleanup.                                  *)
LEMMA CallSteps ==
  ASSUME TypeOK, ObjIInv, Disciplined, NEW t \in Threads,
         CsviOpenFile(t) \/ CallUse(t) \/ CallClose(t)
  PROVE  Local(t) /\ \A u \in Threads \ {t} : ~InCleanup(u)
<1> USE DEF table, locals, Goto, At, GetSteps, CloseSteps, OpenSteps,
            CleanupSteps, UnlockedUses
<1>1. /\ pc \in [Threads -> AllSteps] /\ op \in [Threads -> Ops]
      /\ hnd \in [Threads -> Handles] /\ owned \in [Threads -> SUBSET Handles]
  BY DEF TypeOK
<1>2. ThreadInv(t)
  BY DEF ObjIInv, ObjectInv
<1>3. MayCall(t)
  BY DEF CsviOpenFile, CallUse, CallClose
<1>4. \A u \in Threads : ~InCleanup(u)
  BY <1>3 DEF MayCall, Disciplined
<1>5. pc[t] = "idle" /\ lib = "up"
  BY <1>3 DEF MayCall
<1>6. CASE CsviOpenFile(t)
  BY <1>1, <1>2, <1>4, <1>5, <1>6
     DEF CsviOpenFile, Local, Alone, ThreadInv, OpInv, Claiming, Pointing, Live,
         Claims, InCleanup, Running
<1>7. CASE CallUse(t)
  BY <1>1, <1>2, <1>4, <1>5, <1>7
     DEF CallUse, Local, Alone, ThreadInv, OpInv, Claiming, Pointing, Live,
         Claims, InCleanup, Running
<1>8. CASE CallClose(t)
  BY <1>1, <1>2, <1>4, <1>5, <1>8
     DEF CallClose, Local, Alone, ThreadInv, OpInv, Claiming, Pointing, Live,
         Claims, InCleanup, Running
<1>9. QED
  BY <1>4, <1>6, <1>7, <1>8

LEMMA CallCleanupStep ==
  ASSUME TypeOK, ObjIInv, Disciplined, NEW t \in Threads, CallCleanup(t)
  PROVE  ObjIInv'
<1>1. pc \in [Threads -> AllSteps] /\ op \in [Threads -> Ops]
  BY DEF TypeOK
<1>2. /\ \A u \in Threads : pc[u] = "idle" /\ owned'[u] = {}
      /\ lib' = "up" /\ lib = "up"
      /\ UNCHANGED <<pEntries, heap, process, hnd, obj, idx>>
      /\ op' = [op EXCEPT ![t] = "cleanup"] /\ pc' = [pc EXCEPT ![t] = "clean_lock"]
  BY DEF CallCleanup, MayCall, At, Running, Disciplined, Goto, table
<1>3. \A u \in Threads : ThreadInv(u)' /\ Claims(u)' = {}
  BY <1>1, <1>2
     DEF ObjIInv, ObjectInv, ThreadInv, OpInv, Claiming, Pointing, Claims, OpenSteps,
         GetSteps, CloseSteps, CleanupSteps, UnlockedUses
<1>4. Quiet'
  BY <1>1, <1>2 DEF ObjIInv, ObjectInv, Quiet, InCleanup, Running
<1>5. TableIsHeap' /\ StoreInv'
  BY <1>1, <1>2 DEF ObjIInv, ObjectInv, TableIsHeap, UsedSlots, StoreInv
<1>6. QED
  BY <1>2, <1>3, <1>4, <1>5 DEF ObjIInv, ObjectInv, Disjoint

-----------------------------------------------------------------------------
(* The steps on the table.                                                  *)

LEMMA PointsToClaim ==
  ASSUME TypeOK, NEW t \in Threads, ThreadInv(t), Pointing(t)
  PROVE  hnd[t] \in Claims(t)
<1>1. hnd[t] # CSV_INVALID_HANDLE_VALUE
  BY LiveIsValid DEF ThreadInv
<1>2. QED
  BY <1>1 DEF ThreadInv, OpInv, Pointing, Claims, UnlockedUses, GetSteps, CloseSteps,
              OpenSteps

(* A step that keeps what the others claim keeps the invariant.             *)
LEMMA SharedStep ==
  ASSUME TypeOK, ObjIInv, NEW t \in Threads, pc[t] # "idle",
         UNCHANGED <<lib, process, op, owned>>, lib = "up",
         \A u \in Threads \ {t} :
           /\ pc'[u] = pc[u] /\ hnd'[u] = hnd[u] /\ obj'[u] = obj[u]
           /\ pc[u] # "new_store"
           /\ Claims(t)' \cap Claims(u) = {}
           /\ \A h \in Claims(u) : Live(h)' /\ pEntries'[h] = pEntries[h],
         pc'[t] # "new_store", ThreadInv(t)', TableIsHeap'
  PROVE  ObjIInv'
<1>1. \A u \in Threads \ {t} : Claims(u)' = Claims(u)
  BY DEF Claims
<1>2. ASSUME NEW u \in Threads \ {t} PROVE ThreadInv(u)'
  <2>1. ThreadInv(u)
    BY DEF ObjIInv, ObjectInv
  <2>2. owned[u] \subseteq Claims(u) /\ (Claiming(u) => hnd[u] \in Claims(u))
    BY DEF Claims, Claiming
  <2>3. Pointing(u) => hnd[u] \in Claims(u)
    BY <2>1, PointsToClaim
  <2>4. (Pointing(u)' <=> Pointing(u)) /\ (Claiming(u)' <=> Claiming(u)) /\ (OpInv(u)' <=> OpInv(u))
    BY DEF Pointing, Claiming, OpInv
  <2>5. QED
    BY <2>1, <2>2, <2>3, <2>4 DEF ThreadInv
<1>3. Disjoint'
  <2>1. \A u, v \in Threads \ {t} : u # v => Claims(u)' \cap Claims(v)' = {}
    BY <1>1 DEF ObjIInv, ObjectInv, Disjoint
  <2>2. \A u \in Threads \ {t} : Claims(t)' \cap Claims(u)' = {}
    BY <1>1
  <2>3. QED
    BY <2>1, <2>2 DEF Disjoint
<1>4. Quiet'
  BY NobodyElseCleans DEF ObjIInv, Quiet, InCleanup, Running
<1>5. StoreInv'
  BY DEF StoreInv
<1>6. QED
  BY <1>2, <1>3, <1>4, <1>5 DEF ObjIInv, ObjectInv

(* What is true of a thread inside a call that is not the cleanup's end.    *)
LEMMA UpWhileRunning ==
  ASSUME LockIInv, ObjIInv, NEW t \in Threads, pc[t] \notin {"idle", "clean_unlock"}
  PROVE  lib = "up"
  BY DEF LockIInv, TypeOK, UnloadedIdle, ObjIInv, Quiet

LEMMA SlotsGrow ==
  ASSUME NEW m \in Nat, NEW n \in Nat, m <= n
  PROVE  Slots(m) \subseteq Slots(n)
  BY DEF Slots

LEMMA ExtendKeepsObjects ==
  ASSUME LockIInv, ObjIInv, NEW t \in Threads, CsviExtendHandleTable(t)
  PROVE  /\ ObjIInv'
         /\ UNCHANGED <<obj, owned>> /\ UsedSlots(pEntries') = UsedSlots(pEntries)
         /\ \A h \in DOMAIN pEntries : pEntries'[h] = pEntries[h]
<1>1. TypeOK /\ ThreadInv(t) /\ pc[t] = "new_extend" /\ process = "running"
  BY DEF LockIInv, ObjIInv, ObjectInv, CsviExtendHandleTable, At
<1>2. lib = "up"
  BY <1>1, UpWhileRunning
<1>3. /\ pc' = [pc EXCEPT ![t] = "new_scan"]
      /\ UNCHANGED <<lib, heap, process, op, hnd, obj, idx, owned>>
  BY <1>1, <1>2 DEF CsviExtendHandleTable, Goto
<1>4. DOMAIN pEntries = Slots(dwTableSize) /\ dwTableSize \in Nat /\ pc \in [Threads -> AllSteps]
  BY <1>1, <1>2 DEF TypeOK
<1>5. /\ DOMAIN pEntries \subseteq DOMAIN pEntries'
      /\ \A h \in DOMAIN pEntries : pEntries'[h] = pEntries[h]
      /\ UsedSlots(pEntries') = UsedSlots(pEntries)
  <2>1. CASE dwEntryCount = dwTableSize
    <3>1. /\ dwTableSize' \in Nat /\ dwTableSize <= dwTableSize'
          /\ pEntries' = Extended(pEntries, dwTableSize, dwTableSize')
      BY <1>2, <1>4, <2>1, TableAssumption DEF CsviExtendHandleTable
    <3>2. UsedSlots(pEntries') = UsedSlots(pEntries)
      BY <1>4, <3>1, ExtendKeepsUsed
    <3>3. Slots(dwTableSize) \subseteq Slots(dwTableSize')
      BY <1>4, <3>1, SlotsGrow
    <3>4. /\ DOMAIN pEntries' = Slots(dwTableSize')
          /\ \A h \in Slots(dwTableSize) : pEntries'[h] = pEntries[h]
      BY <3>1, <3>3 DEF Extended
    <3>5. QED
      BY <1>4, <3>2, <3>3, <3>4
  <2>2. CASE dwEntryCount # dwTableSize
    BY <2>2 DEF CsviExtendHandleTable
  <2>3. QED
    BY <2>1, <2>2
<1>6. TableIsHeap'
  BY <1>3, <1>5 DEF ObjIInv, ObjectInv, TableIsHeap, UsedSlots
<1>7. \A u \in Threads \ {t} : pc[u] # "new_store"
  BY <1>1, OthersOutside DEF LockedSteps
<1>8. \A u \in Threads : \A h \in Claims(u) : Live(h)' /\ pEntries'[h] = pEntries[h]
  BY <1>3, <1>5 DEF ObjIInv, ObjectInv, ThreadInv, Claiming, Claims, Live
<1>9. Claims(t)' = owned[t] /\ Claims(t) = owned[t] /\ pc'[t] = "new_scan"
  BY <1>1, <1>3, <1>4 DEF Claims
<1>10. ThreadInv(t)'
  <2>1. op'[t] = "open"
    BY <1>1, <1>3 DEF ThreadInv, OpInv, OpenSteps
  <2>2. \A h \in owned'[t] : Live(h)'
    BY <1>3, <1>8, <1>9
  <2>3. QED
    BY <1>9, <2>1, <2>2 DEF ThreadInv, OpInv, Claiming, Pointing, OpenSteps, GetSteps,
       CloseSteps, CleanupSteps, UnlockedUses
<1>11. \A u \in Threads \ {t} :
         pc'[u] = pc[u] /\ hnd'[u] = hnd[u] /\ obj'[u] = obj[u] /\ Claims(t)' \cap Claims(u) = {}
  BY <1>3, <1>4, <1>9 DEF ObjIInv, ObjectInv, Disjoint
<1>12. ObjIInv'
  BY <1>1, <1>2, <1>3, <1>6, <1>7, <1>8, <1>9, <1>10, <1>11, SharedStep
<1>13. QED
  BY <1>3, <1>5, <1>12

(* A new object gets a free slot, which nobody claims.                      *)
LEMMA StoreAddsObject ==
  ASSUME LockIInv, CountIInv, ObjIInv, NEW t \in Threads, NewStore(t)
  PROVE  /\ ObjIInv'
         /\ \E o \in Objects \ heap :
              /\ obj' = [obj EXCEPT ![t] = o]
              /\ pEntries' = [pEntries EXCEPT ![idx[t]] = o]
         /\ idx[t] \in Slots(dwTableSize) /\ pEntries[idx[t]] = NULL /\ lib = "up"
<1>1. TypeOK /\ ThreadInv(t) /\ pc[t] = "new_store" /\ process = "running"
  BY DEF LockIInv, ObjIInv, ObjectInv, NewStore, At
<1>2. lib = "up"
  BY <1>1, UpWhileRunning
<1>3. idx[t] \in DOMAIN pEntries /\ pEntries[idx[t]] = NULL /\ DOMAIN pEntries = Slots(dwTableSize)
  BY <1>1, <1>2 DEF TypeOK, CountIInv, ScanInv
<1>4. PICK o \in Objects \ heap :
        /\ heap' = heap \cup {o}
        /\ pEntries' = [pEntries EXCEPT ![idx[t]] = o]
        /\ obj' = [obj EXCEPT ![t] = o]
  BY <1>3 DEF NewStore
<1>5. /\ pc' = [pc EXCEPT ![t] = "new_unlock"] /\ hnd' = [hnd EXCEPT ![t] = idx[t]]
      /\ UNCHANGED <<lib, process, op, idx, owned>>
  BY <1>3 DEF NewStore, Goto
<1>6. /\ pc \in [Threads -> AllSteps] /\ hnd \in [Threads -> Handles]
      /\ obj \in [Threads -> Objects \cup {NULL}] /\ heap \subseteq Objects
  BY <1>1 DEF TypeOK
<1>7. TableIsHeap'
  <2>1. UsedSlots(pEntries') = UsedSlots(pEntries) \cup {idx[t]}
    BY <1>3, <1>4, TableAssumption DEF UsedSlots
  <2>2. idx[t] \notin UsedSlots(pEntries)
    BY <1>3 DEF UsedSlots
  <2>3. pEntries'[idx[t]] = o /\ \A j \in UsedSlots(pEntries) : pEntries'[j] = pEntries[j]
    BY <1>3, <1>4, <2>2 DEF UsedSlots
  <2>4. heap = {pEntries[j] : j \in UsedSlots(pEntries)}
        /\ \A j, k \in UsedSlots(pEntries) : pEntries[j] = pEntries[k] => j = k
    BY DEF ObjIInv, ObjectInv, TableIsHeap
  <2>5. heap' = {pEntries'[j] : j \in UsedSlots(pEntries')}
    <3>1. {pEntries'[j] : j \in UsedSlots(pEntries')}
            = {pEntries'[j] : j \in UsedSlots(pEntries)} \cup {o}
      BY <2>1, <2>3
    <3>2. {pEntries'[j] : j \in UsedSlots(pEntries)} = {pEntries[j] : j \in UsedSlots(pEntries)}
      BY <2>3
    <3>3. QED
      BY <1>4, <2>4, <3>1, <3>2
  <2>6. \A j, k \in UsedSlots(pEntries') : pEntries'[j] = pEntries'[k] => j = k
    BY <1>4, <2>1, <2>3, <2>4
  <2>7. QED
    BY <2>5, <2>6 DEF TableIsHeap
<1>8. \A u \in Threads : \A h \in Claims(u) :
        h # idx[t] /\ Live(h)' /\ pEntries'[h] = pEntries[h]
  <2>1. \A u \in Threads : \A h \in Claims(u) : Live(h)
    BY DEF ObjIInv, ObjectInv, ThreadInv, Claiming, Claims
  <2>2. \A h : Live(h) => h # idx[t]
    BY <1>3, <1>6, TableAssumption DEF Live
  <2>3. \A h : Live(h) => Live(h)' /\ pEntries'[h] = pEntries[h]
    BY <1>4, <2>2 DEF Live
  <2>4. QED
    BY <2>1, <2>2, <2>3
<1>9. /\ Claims(t) = owned[t] /\ Claims(t)' = owned[t] \cup {idx[t]}
      /\ pc'[t] = "new_unlock" /\ hnd'[t] = idx[t] /\ obj'[t] = o
  BY <1>1, <1>5, <1>4, <1>6 DEF Claims
<1>10. ThreadInv(t)'
  <2>1. op'[t] = "open"
    BY <1>1, <1>5 DEF ThreadInv, OpInv, OpenSteps
  <2>2. \A h \in owned'[t] : Live(h)' /\ h # idx[t]
    BY <1>5, <1>8, <1>9
  <2>3. Live(hnd[t])' /\ pEntries'[hnd'[t]] = obj'[t]
    BY <1>3, <1>4, <1>9 DEF Live
  <2>4. QED
    BY <1>9, <2>1, <2>2, <2>3 DEF ThreadInv, OpInv, OpenSteps, GetSteps,
       CloseSteps, CleanupSteps
<1>11. \A u \in Threads \ {t} :
         /\ pc'[u] = pc[u] /\ hnd'[u] = hnd[u] /\ obj'[u] = obj[u]
         /\ pc[u] # "new_store" /\ Claims(t)' \cap Claims(u) = {}
  <2>1. \A u \in Threads \ {t} : pc'[u] = pc[u] /\ hnd'[u] = hnd[u] /\ obj'[u] = obj[u]
    BY <1>4, <1>5, <1>6
  <2>2. \A u \in Threads \ {t} : Claims(t)' \cap Claims(u) = {}
    BY <1>8, <1>9 DEF ObjIInv, ObjectInv, Disjoint
  <2>3. \A u \in Threads \ {t} : pc[u] # "new_store"
    BY <1>1, OthersOutside DEF LockedSteps
  <2>4. QED
    BY <2>1, <2>2, <2>3
<1>12. ObjIInv'
  BY <1>1, <1>2, <1>5, <1>7, <1>8, <1>9, <1>10, <1>11, SharedStep
<1>13. QED
  BY <1>2, <1>3, <1>4, <1>12

(* The object of a claimed handle is freed; no other handle names it.       *)
LEMMA ReleaseRemovesObject ==
  ASSUME LockIInv, ObjIInv, NEW t \in Threads, RelFree(t)
  PROVE  /\ ObjIInv'
         /\ hnd[t] \in UsedSlots(pEntries) /\ pEntries[hnd[t]] = obj[t]
         /\ hnd[t] \notin owned[t] /\ \A u \in Threads \ {t} : hnd[t] \notin owned[u]
         /\ pEntries' = [pEntries EXCEPT ![hnd[t]] = NULL] /\ UNCHANGED <<lib, obj, owned>>
<1>1. TypeOK /\ ThreadInv(t) /\ pc[t] = "rel_free" /\ process = "running"
  BY DEF LockIInv, ObjIInv, ObjectInv, RelFree, At
<1>2. lib = "up"
  BY <1>1, UpWhileRunning
<1>3. /\ Live(hnd[t]) /\ pEntries[hnd[t]] = obj[t] /\ hnd[t] \in Claims(t)
      /\ op[t] \in {"close", "openfail", "cleanup"} /\ hnd[t] # CSV_INVALID_HANDLE_VALUE
      /\ hnd[t] \notin owned[t]
  <2>1. Pointing(t) /\ op[t] \in {"close", "openfail", "cleanup"}
    BY <1>1 DEF Pointing, ThreadInv, OpInv, CloseSteps
  <2>2. Live(hnd[t]) /\ pEntries[hnd[t]] = obj[t] /\ hnd[t] \in Claims(t)
    BY <1>1, <2>1, PointsToClaim DEF ThreadInv
  <2>3. hnd[t] # CSV_INVALID_HANDLE_VALUE
    BY <1>1, <2>2, LiveIsValid
  <2>4. Claiming(t)
    BY <1>1, <2>1, <2>3 DEF Claiming
  <2>5. QED
    BY <1>1, <2>1, <2>2, <2>3, <2>4 DEF ThreadInv
<1>4. hnd[t] \in DOMAIN pEntries /\ pEntries[hnd[t]] # NULL
  BY <1>1, <1>3, TableAssumption DEF Live, TypeOK
<1>5. /\ heap' = heap \ {pEntries[hnd[t]]}
      /\ pEntries' = [pEntries EXCEPT ![hnd[t]] = NULL]
      /\ pc' = [pc EXCEPT ![t] = "rel_unlock"]
      /\ UNCHANGED <<lib, process, op, hnd, obj, idx, owned>>
  BY <1>4 DEF RelFree, Goto
<1>6. pc \in [Threads -> AllSteps]
  BY <1>1 DEF TypeOK
<1>7. heap = {pEntries[j] : j \in UsedSlots(pEntries)}
      /\ \A j, k \in UsedSlots(pEntries) : pEntries[j] = pEntries[k] => j = k
  BY DEF ObjIInv, ObjectInv, TableIsHeap
<1>8. TableIsHeap'
  <2>1. UsedSlots(pEntries') = UsedSlots(pEntries) \ {hnd[t]}
        /\ hnd[t] \in UsedSlots(pEntries)
    BY <1>4, <1>5 DEF UsedSlots
  <2>2. \A j \in UsedSlots(pEntries) \ {hnd[t]} : pEntries'[j] = pEntries[j]
    BY <1>4, <1>5 DEF UsedSlots
  <2>3. heap' = {pEntries'[j] : j \in UsedSlots(pEntries')}
    <3> DEFINE left == UsedSlots(pEntries) \ {hnd[t]}
    <3>1. {pEntries'[j] : j \in left} = {pEntries[j] : j \in left}
      BY <2>2
    <3>2. {pEntries[j] : j \in left} = heap \ {pEntries[hnd[t]]}
      BY <1>7, <2>1
    <3>3. QED
      BY <1>5, <2>1, <3>1, <3>2
  <2>4. \A j, k \in UsedSlots(pEntries') : pEntries'[j] = pEntries'[k] => j = k
    BY <1>7, <2>1, <2>2
  <2>5. QED
    BY <2>3, <2>4 DEF TableIsHeap
<1>9. \A h : Live(h) /\ h # hnd[t] => Live(h)' /\ pEntries'[h] = pEntries[h]
  <2>1. \A h : Live(h) => h \in UsedSlots(pEntries)
    BY <1>1, TableAssumption DEF Live, UsedSlots, TypeOK
  <2>2. \A h : Live(h) /\ h # hnd[t] => pEntries[h] # pEntries[hnd[t]]
    BY <1>3, <1>7, <2>1
  <2>3. QED
    BY <1>5, <2>2 DEF Live
<1>10. \A u \in Threads \ {t} : hnd[t] \notin Claims(u)
  BY <1>3 DEF ObjIInv, ObjectInv, Disjoint
<1>11. \A u \in Threads : \A h \in Claims(u) : Live(h)
  BY DEF ObjIInv, ObjectInv, ThreadInv, Claiming, Claims
<1>12. \A u \in Threads \ {t} : \A h \in Claims(u) : Live(h)' /\ pEntries'[h] = pEntries[h]
  BY <1>9, <1>10, <1>11
<1>13. Claims(t)' = owned[t] /\ owned[t] \subseteq Claims(t) /\ pc'[t] = "rel_unlock"
  BY <1>5, <1>6 DEF Claims
<1>14. ThreadInv(t)'
  <2>1. \A h \in owned'[t] : Live(h)'
    BY <1>3, <1>5, <1>9, <1>11, <1>13
  <2>2. op'[t] \in {"close", "openfail", "cleanup"}
    BY <1>3, <1>5
  <2>3. QED
    BY <1>13, <2>1, <2>2 DEF ThreadInv, OpInv, Claiming, Pointing, OpenSteps, GetSteps,
       CloseSteps, CleanupSteps, UnlockedUses
<1>15. \A u \in Threads \ {t} :
         /\ pc'[u] = pc[u] /\ hnd'[u] = hnd[u] /\ obj'[u] = obj[u]
         /\ pc[u] # "new_store" /\ Claims(t)' \cap Claims(u) = {}
  <2>1. \A u \in Threads \ {t} : Claims(t)' \cap Claims(u) = {}
    BY <1>13 DEF ObjIInv, ObjectInv, Disjoint
  <2>2. \A u \in Threads \ {t} : pc[u] # "new_store"
    BY <1>1, OthersOutside DEF LockedSteps
  <2>3. QED
    BY <1>5, <1>6, <2>1, <2>2
<1>16. ObjIInv'
  BY <1>1, <1>2, <1>5, <1>8, <1>12, <1>13, <1>14, <1>15, SharedStep
<1>17. \A u \in Threads \ {t} : hnd[t] \notin owned[u]
  BY <1>10 DEF Claims
<1>18. QED
  BY <1>3, <1>4, <1>5, <1>16, <1>17 DEF UsedSlots

(* The table is freed when nobody is left to use it.                        *)
LEMMA FreeEndsAll ==
  ASSUME LockIInv, ObjIInv, NEW t \in Threads, CleanFree(t)
  PROVE  /\ ObjIInv'
         /\ pEntries' = NoEntries /\ UNCHANGED obj
         /\ \A u \in Threads : owned[u] = {}
<1>1. /\ pEntries' = NoEntries /\ heap' = {} /\ lib' = "down" /\ pc[t] = "clean_free"
      /\ pc' = [pc EXCEPT ![t] = "clean_unlock"]
      /\ UNCHANGED <<process, op, hnd, obj, idx, owned>>
  BY DEF CleanFree, At, Goto
<1>2. op[t] = "cleanup" /\ InCleanup(t) /\ pc \in [Threads -> AllSteps]
  BY <1>1 DEF LockIInv, TypeOK, ObjIInv, ObjectInv, ThreadInv, OpInv, CleanupSteps, InCleanup, Running
<1>3. \A u \in Threads : owned[u] = {} /\ (u # t => pc[u] = "idle" /\ op[u] = "none")
  BY <1>2 DEF ObjIInv, Quiet, ObjectInv, ThreadInv, OpInv
<1>4. \A u \in Threads : ThreadInv(u)' /\ Claims(u)' = {}
  BY <1>1, <1>2, <1>3
     DEF ThreadInv, OpInv, Claiming, Pointing, Claims, OpenSteps,
         GetSteps, CloseSteps, CleanupSteps, UnlockedUses
<1>5. Quiet'
  BY <1>1, <1>2, <1>3 DEF Quiet, InCleanup, Running
<1>6. TableIsHeap' /\ StoreInv'
  BY <1>1, <1>2, <1>3 DEF TableIsHeap, UsedSlots, NoEntries, StoreInv
<1>7. QED
  BY <1>1, <1>3, <1>4, <1>5, <1>6 DEF ObjIInv, ObjectInv, Disjoint

LEMMA InitObjIInv == Init => ObjIInv
<1> SUFFICES ASSUME Init PROVE ObjIInv
  OBVIOUS
<1>1. \A t \in Threads : ThreadInv(t) /\ Claims(t) = {}
  BY DEF Init, ThreadInv, OpInv, Claiming, Pointing, Claims, OpenSteps, GetSteps,
         CloseSteps, CleanupSteps, UnlockedUses
<1>2. Quiet /\ StoreInv
  BY DEF Init, Quiet, StoreInv, InCleanup, Running
<1>3. TableIsHeap
  BY DEF Init, TableIsHeap, UsedSlots, NoEntries
<1>4. QED
  BY <1>1, <1>2, <1>3 DEF Init, ObjIInv, ObjectInv, Disjoint

LEMMA LibInitStep ==
  ASSUME ObjIInv, CsvLibInit
  PROVE  ObjIInv' /\ UNCHANGED <<pEntries, obj, owned>>
<1>1. /\ UNCHANGED <<pEntries, heap, pc, op, hnd, obj, idx, owned, process>>
      /\ lib' = "up"
  BY DEF CsvLibInit, table, locals, ObjIInv, ObjectInv
<1>2. \A t \in Threads : ThreadInv(t)' /\ Claims(t)' = Claims(t)
  BY <1>1 DEF ObjIInv, ObjectInv, ThreadInv, OpInv, Claiming, Pointing, Live, Claims
<1>3. Quiet' /\ StoreInv' /\ TableIsHeap'
  BY <1>1 DEF ObjIInv, ObjectInv, Quiet, StoreInv, TableIsHeap, InCleanup, Running, UsedSlots
<1>4. QED
  BY <1>1, <1>2, <1>3 DEF ObjIInv, ObjectInv, Disjoint

LEMMA StutterStep ==
  ASSUME ObjIInv, UNCHANGED vars
  PROVE  ObjIInv' /\ UNCHANGED <<pEntries, obj, owned>>
<1>1. UNCHANGED <<lib, pEntries, heap, pc, op, hnd, obj, idx, owned, process>>
  BY DEF vars, table, locals
<1>2. \A t \in Threads : ThreadInv(t)' /\ Claims(t)' = Claims(t)
  BY <1>1 DEF ObjIInv, ObjectInv, ThreadInv, OpInv, Claiming, Pointing, Live, Claims
<1>3. Quiet' /\ StoreInv' /\ TableIsHeap'
  BY <1>1 DEF ObjIInv, ObjectInv, Quiet, StoreInv, TableIsHeap, InCleanup, Running, UsedSlots
<1>4. QED
  BY <1>1, <1>2, <1>3 DEF ObjIInv, ObjectInv, Disjoint

LEMMA DeathStep ==
  ASSUME ObjIInv, Death
  PROVE  ObjIInv' /\ UNCHANGED <<lib, pEntries, heap, files, pc, op, hnd, obj, idx, owned>>
<1>1. /\ UNCHANGED <<lib, pEntries, heap, files, pc, op, hnd, obj, idx, owned>>
      /\ process' # "table"
  BY DEF Death, Dies, table, locals
<1>2. \A t \in Threads : ThreadInv(t)' /\ Claims(t)' = Claims(t)
  BY <1>1 DEF ObjIInv, ObjectInv, ThreadInv, OpInv, Claiming, Pointing, Live, Claims
<1>3. Quiet' /\ StoreInv' /\ TableIsHeap'
  BY <1>1 DEF ObjIInv, ObjectInv, Quiet, StoreInv, TableIsHeap, InCleanup, Running, UsedSlots
<1>4. QED
  BY <1>1, <1>2, <1>3 DEF ObjIInv, ObjectInv, Disjoint

(* Only a running process takes steps, and what kills it is the code of the *)
(* table or the error path of an open.                                      *)
LEMMA HowProcessesDie ==
  ASSUME NEW t \in Threads, Calls(t) \/ Waits(t) \/ Steps(t)
  PROVE  process = "running" /\ (process' \in {"running", "table"} \/ Death)
<1> USE DEF At, Death
<1>1. CASE Calls(t)
  BY <1>1 DEF Calls, CsviOpenFile, CsviOpenFileFails, CallUse, CallClose, CallCleanup, MayCall
<1>2. CASE Waits(t)
  BY <1>2 DEF Waits, NewLock, GetLock, RelLock, CleanLock
<1>3. CASE OpenFailWrite(t)
  BY <1>3 DEF OpenFailWrite
<1>4. CASE Steps(t) /\ ~OpenFailWrite(t)
  BY <1>4 DEF Steps, CsviExtendHandleTable, NewScan, NewStore, NewUnlock, OpenInit,
     OpenSucceeds, OpenLeaks, OpenHeaderFails, GetLookup, GetUnlock, GetStamp, GetFail,
     Use, CloseFile, CloseFileFails, RelFree, RelUnlock, RelExit, CleanCount, CleanLoop,
     CleanFree, CleanUnlock, Crash, Dies
<1>5. QED
  BY <1>1, <1>2, <1>3, <1>4

(* A step of a thread is local, one of those on the table, or kills the     *)
(* process in a failed open.                                                *)
LEMMA StepKinds ==
  ASSUME LockIInv, ObjIInv, Disciplined, [Next]_vars
  PROVE  \/ CsvLibInit \/ UNCHANGED vars \/ Death
         \/ \E t \in Threads :
              \/ Local(t) /\ \A u \in Threads \ {t} : ~InCleanup(u)
              \/ CallCleanup(t) \/ CsviExtendHandleTable(t) \/ NewStore(t)
              \/ RelFree(t) \/ CleanFree(t)
<1>1. TypeOK
  BY DEF LockIInv
<1>2. ASSUME NEW t \in Threads, Calls(t)
      PROVE  \/ Local(t) /\ \A u \in Threads \ {t} : ~InCleanup(u)
             \/ CallCleanup(t) \/ Death
  BY <1>1, <1>2, CallSteps DEF Calls, CsviOpenFileFails, Death
<1>3. ASSUME NEW t \in Threads, Waits(t) \/ Steps(t) PROVE pc[t] # "idle"
  BY <1>3 DEF Waits, Steps, At, NewLock, GetLock, RelLock, CleanLock, CsviExtendHandleTable,
     NewScan, NewStore, NewUnlock, OpenInit, OpenSucceeds, OpenLeaks, OpenHeaderFails,
     OpenFailWrite, GetLookup, GetUnlock, GetStamp, GetFail, Use, CloseFile, CloseFileFails,
     RelFree, RelUnlock, RelExit, CleanCount, CleanLoop, CleanFree, CleanUnlock
<1>4. ASSUME NEW t \in Threads, Waits(t) \/ Steps(t)
      PROVE  \/ Local(t) /\ \A u \in Threads \ {t} : ~InCleanup(u)
             \/ CsviExtendHandleTable(t) \/ NewStore(t) \/ RelFree(t) \/ CleanFree(t)
             \/ Death
  <2>1. \A u \in Threads \ {t} : ~InCleanup(u)
    BY <1>3, <1>4, NobodyElseCleans DEF ObjIInv
  <2>2. QED
    BY <1>1, <1>4, <2>1, LocalSteps DEF Waits, Steps, Death
<1>5. QED
  BY <1>2, <1>4 DEF Next, Finished

LEMMA ObjectStep == LockIInv /\ CountIInv /\ ObjIInv /\ Disciplined /\ [Next]_vars => ObjIInv'
<1> SUFFICES ASSUME LockIInv, CountIInv, ObjIInv, Disciplined, [Next]_vars PROVE ObjIInv'
  OBVIOUS
<1>1. TypeOK
  BY DEF LockIInv
<1>2. QED
  BY <1>1, StepKinds, LocalStep, CallCleanupStep, ExtendKeepsObjects, StoreAddsObject,
     ReleaseRemovesObject, FreeEndsAll, LibInitStep, StutterStep, DeathStep

LEMMA ObjectInvariant ==
  ASSUME Disciplined
  PROVE  Spec => []ObjIInv
<1>1. LockIInv /\ CountIInv /\ ObjIInv /\ [Next]_vars => ObjIInv'
  BY ObjectStep
<1>2. QED
  BY InitObjIInv, <1>1, LockInvariant, CountInvariant, PTL DEF Spec

-----------------------------------------------------------------------------
(***************************************************************************)
(* A handle the host holds names a live object, and no two threads were    *)
(* given the same handle, for every number of threads.                     *)
(***************************************************************************)
THEOREM HandlesStayExclusive ==
  ASSUME Disciplined
  PROVE  Spec => []HandlesAreExclusive
<1>1. ObjIInv => HandlesAreExclusive
  <2> SUFFICES ASSUME ObjIInv PROVE HandlesAreExclusive
    OBVIOUS
  <2>1. \A t \in Threads : \A h \in Claims(t) : Live(h)
    BY DEF ObjIInv, ObjectInv, ThreadInv, Claiming, Claims
  <2>2. QED
    BY <2>1 DEF ObjIInv, ObjectInv, Disjoint, Live, HandlesAreExclusive
<1>2. QED
  BY ObjectInvariant, <1>1, PTL

(***************************************************************************)
(* Every live object is in exactly one slot, and no slot points to a freed *)
(* one: releases and error paths never leave a pointer behind.             *)
(***************************************************************************)
THEOREM TableMatchesHeap ==
  ASSUME Disciplined
  PROVE  Spec => []TableIsHeap
<1>1. ObjIInv => TableIsHeap
  BY DEF ObjIInv, ObjectInv
<1>2. QED
  BY ObjectInvariant, <1>1, PTL

(***************************************************************************)
(* A call that follows pCsv after the mutex was released follows a pointer *)
(* to the live object of its handle, but for one write: the last one of an *)
(* open that failed on the header, which CsvClose may have left without an *)
(* object. Files may be missing or malformed, and every call may fail.     *)
(***************************************************************************)
THEOREM OnlyFailedOpensMeetFreed ==
  ASSUME Disciplined
  PROVE  Spec => []OnlyFailedOpenUsesFreed
<1>1. ObjIInv => OnlyFailedOpenUsesFreed
  <2> SUFFICES ASSUME ObjIInv PROVE OnlyFailedOpenUsesFreed
    OBVIOUS
  <2>1. \A t \in Threads : pc[t] \in UnlockedUses /\ pc[t] # "openfail_write" =>
           Live(hnd[t]) /\ pEntries[hnd[t]] = obj[t]
    BY DEF ObjIInv, ObjectInv, ThreadInv, Pointing
  <2>2. QED
    BY <2>1 DEF Live, PointsToLive, OnlyFailedOpenUsesFreed
<1>2. QED
  BY ObjectInvariant, <1>1, PTL

(***************************************************************************)
(* The code of the table never follows a NULL or a wild pointer: the       *)
(* lookup that accepts one handle too many, the store that is not checked, *)
(* and the release that reads its slot unchecked included. Files may be    *)
(* missing or malformed; what these do to the process in the error path of *)
(* an open is told apart from it.                                          *)
(***************************************************************************)
THEOREM TableKillsNoProcess ==
  ASSUME Disciplined
  PROVE  Spec => []TableNeverCrashes
<1>1. ObjIInv => TableNeverCrashes
  BY DEF ObjIInv, TableNeverCrashes
<1>2. QED
  BY ObjectInvariant, <1>1, PTL

(***************************************************************************)
(* While a host thread owns a handle, no step of any thread changes which  *)
(* object it names: the table grows, slots around it are freed and given   *)
(* out again, and its own entry stays.                                     *)
(***************************************************************************)
THEOREM OwnedHandlesKeepObjects ==
  ASSUME Disciplined
  PROVE  Spec => OwnedHandlesStable
<1> DEFINE Stable == \A t \in Threads : \A h \in owned[t] \cap owned'[t] : pEntries'[h] = pEntries[h]
<1>1. LockIInv /\ CountIInv /\ ObjIInv /\ [Next]_vars => Stable
  <2> SUFFICES ASSUME LockIInv, CountIInv, ObjIInv, [Next]_vars PROVE Stable
    OBVIOUS
  <2>1. \A t \in Threads : \A h \in owned[t] : Live(h)
    BY DEF ObjIInv, ObjectInv, ThreadInv
  <2>2. CASE UNCHANGED pEntries
    BY <2>2
  <2>3. ASSUME NEW t \in Threads, CsviExtendHandleTable(t) PROVE Stable
    BY <2>1, <2>3, ExtendKeepsObjects DEF Live
  <2>4. ASSUME NEW t \in Threads, NewStore(t) PROVE Stable
    <3>1. pEntries[idx[t]] = NULL /\ NULL \notin heap
      BY <2>4, StoreAddsObject, TableAssumption DEF LockIInv, TypeOK
    <3>2. \A h : Live(h) => h # idx[t]
      BY <3>1 DEF Live
    <3>3. PICK o \in Objects : pEntries' = [pEntries EXCEPT ![idx[t]] = o]
      BY <2>4, StoreAddsObject
    <3>4. \A h : Live(h) => pEntries'[h] = pEntries[h]
      BY <3>2, <3>3 DEF Live
    <3>5. QED
      BY <2>1, <3>4
  <2>5. ASSUME NEW t \in Threads, RelFree(t) PROVE Stable
    <3>1. pEntries' = [pEntries EXCEPT ![hnd[t]] = NULL]
      BY <2>5, ReleaseRemovesObject
    <3>2. \A u \in Threads : hnd[t] \notin owned[u]
      BY <2>5, ReleaseRemovesObject
    <3>3. \A h : Live(h) /\ h # hnd[t] => pEntries'[h] = pEntries[h]
      BY <3>1 DEF Live
    <3>4. QED
      BY <2>1, <3>2, <3>3
  <2>6. ASSUME NEW t \in Threads, CleanFree(t) PROVE Stable
    BY <2>6, FreeEndsAll
  <2>7. QED
    <3>1. CASE CsvLibInit \/ UNCHANGED vars
      BY <2>2, <3>1, LibInitStep, StutterStep
    <3>2. ASSUME NEW t \in Threads, Local(t) \/ CallCleanup(t) PROVE Stable
      BY <2>2, <3>2 DEF Local, Alone, CallCleanup, table
    <3>3. QED
      BY <2>3, <2>4, <2>5, <2>6, <3>1, <3>2, StepKinds, DeathStep
<1>2. QED
  BY <1>1, LockInvariant, CountInvariant, ObjectInvariant, PTL DEF Spec, OwnedHandlesStable

-----------------------------------------------------------------------------
(* The refinement: the steps of the library are those of CsvRegistry.       *)

(* A step that leaves the table alone lets its thread see a registered      *)
(* object, or nothing, or what it saw before.                               *)
Looks(t) ==
  /\ pEntries' = pEntries
  /\ \/ obj' = obj
     \/ obj' = [obj EXCEPT ![t] = NULL]
     \/ \E h \in UsedSlots(pEntries) : obj' = [obj EXCEPT ![t] = pEntries[h]]

LEMMA LookSteps ==
  ASSUME NEW t \in Threads, Calls(t) \/ Waits(t) \/ Steps(t),
         ~CsviExtendHandleTable(t), ~NewStore(t), ~RelFree(t), ~CleanFree(t)
  PROVE  Looks(t)
<1> USE DEF Looks, table, locals
<1>1. CASE Waits(t) \/ Calls(t)
  BY <1>1 DEF Waits, NewLock, GetLock, RelLock, CleanLock, Calls, CsviOpenFile,
     CsviOpenFileFails, Crash, Dies, CallUse, CallClose, CallCleanup
<1>2. CASE GetLookup(t)
  BY <1>2 DEF GetLookup, Crash, Dies, PassesRangeCheck, UsedSlots
<1>3. CASE \/ NewScan(t) \/ NewUnlock(t) \/ OpenInit(t) \/ OpenHeaderFails(t) \/ GetUnlock(t)
           \/ GetStamp(t) \/ CloseFile(t) \/ RelUnlock(t) \/ CleanCount(t) \/ CleanLoop(t)
  BY <1>3 DEF NewScan, Crash, Dies, NewUnlock, OpenInit, OpenHeaderFails, GetUnlock, GetStamp,
     CloseFile, RelUnlock, CleanCount, CleanLoop
<1>4. CASE \/ OpenSucceeds(t) \/ OpenLeaks(t) \/ OpenFailWrite(t) \/ GetFail(t) \/ Use(t)
           \/ CloseFileFails(t) \/ RelExit(t) \/ CleanUnlock(t)
  BY <1>4 DEF OpenSucceeds, OpenLeaks, OpenFailWrite, Dies, GetFail, Use, CloseFileFails,
     RelExit, CleanUnlock, AfterClose, Return
<1>5. QED
  BY <1>1, <1>2, <1>3, <1>4 DEF Steps

LEMMA LookRefines ==
  ASSUME NEW t \in Threads, Looks(t)
  PROVE  Registry!Find(t) \/ UNCHANGED Registry!vars
  BY DEF Looks, Registry!Find, Registry!vars

LEMMA ExtendRefines ==
  ASSUME LockIInv, ObjIInv, NEW t \in Threads, CsviExtendHandleTable(t)
  PROVE  UNCHANGED Registry!vars
<1>1. /\ UNCHANGED obj /\ UsedSlots(pEntries') = UsedSlots(pEntries)
      /\ \A h \in UsedSlots(pEntries) : pEntries'[h] = pEntries[h]
  BY ExtendKeepsObjects DEF UsedSlots
<1>2. [h \in UsedSlots(pEntries') |-> pEntries'[h]] = [h \in UsedSlots(pEntries) |-> pEntries[h]]
  BY <1>1
<1>3. QED
  BY <1>1, <1>2 DEF Registry!vars

LEMMA StoreRefines ==
  ASSUME LockIInv, CountIInv, ObjIInv, NEW t \in Threads, NewStore(t)
  PROVE  Registry!Register(t)
<1>1. PICK o \in Objects \ heap :
        /\ obj' = [obj EXCEPT ![t] = o]
        /\ pEntries' = [pEntries EXCEPT ![idx[t]] = o]
  BY StoreAddsObject
<1>2. /\ idx[t] \in Slots(dwTableSize) /\ pEntries[idx[t]] = NULL
      /\ DOMAIN pEntries = Slots(dwTableSize) /\ idx[t] \in Nat /\ dwTableSize \in Nat
  BY StoreAddsObject DEF LockIInv, TypeOK
<1>3. \A j \in 0..idx[t] - 1 : j \in UsedSlots(pEntries)
  <2>1. \A j \in 0..idx[t] - 1 : pEntries[j] # NULL
    BY DEF ObjIInv, StoreInv, Slots, NewStore, At
  <2>2. \A j \in 0..idx[t] - 1 : j \in DOMAIN pEntries
    BY <1>2 DEF Slots
  <2>3. QED
    BY <2>1, <2>2 DEF UsedSlots
<1>4. /\ UsedSlots(pEntries') = UsedSlots(pEntries) \cup {idx[t]}
      /\ idx[t] \notin UsedSlots(pEntries)
      /\ \A h \in UsedSlots(pEntries) : pEntries'[h] = pEntries[h]
      /\ pEntries'[idx[t]] = o
  BY <1>1, <1>2, TableAssumption DEF UsedSlots
<1>5. \A h \in UsedSlots(pEntries) : pEntries[h] # o
  BY <1>1 DEF ObjIInv, ObjectInv, TableIsHeap
<1> DEFINE reg == [h \in UsedSlots(pEntries) |-> pEntries[h]]
           regn == [h \in UsedSlots(pEntries') |-> pEntries'[h]]
<1>6. DOMAIN reg = UsedSlots(pEntries) /\ \A h \in UsedSlots(pEntries) : reg[h] = pEntries[h]
  OBVIOUS
<1>7. regn = [k \in DOMAIN reg \cup {idx[t]} |-> IF k = idx[t] THEN o ELSE reg[k]]
  BY <1>4, <1>6
<1>8. idx[t] \in {0} \cup {k + 1 : k \in DOMAIN reg}
  <2>1. CASE idx[t] = 0
    BY <2>1
  <2>2. CASE idx[t] # 0
    <3>1. idx[t] - 1 \in UsedSlots(pEntries) /\ idx[t] = (idx[t] - 1) + 1
      BY <1>2, <1>3, <2>2
    <3>2. QED
      BY <1>6, <3>1
  <2>3. QED
    BY <2>1, <2>2
<1>9. idx[t] \in Nat \ DOMAIN reg /\ 0..idx[t] - 1 \subseteq DOMAIN reg
  BY <1>2, <1>3, <1>4, <1>6
<1>10. ~\E h \in DOMAIN reg : reg[h] = o
  BY <1>5, <1>6
<1> HIDE DEF reg, regn
<1>11. QED
  BY <1>1, <1>7, <1>8, <1>9, <1>10
     DEF Registry!Register, Registry!Candidates, Registry!SmallestFree, Registry!Registered,
         reg, regn

LEMMA ReleaseRefines ==
  ASSUME LockIInv, ObjIInv, NEW t \in Threads, RelFree(t)
  PROVE  Registry!Release(t)
<1>1. /\ hnd[t] \in UsedSlots(pEntries) /\ pEntries[hnd[t]] = obj[t]
      /\ pEntries' = [pEntries EXCEPT ![hnd[t]] = NULL] /\ obj' = obj
  BY ReleaseRemovesObject
<1>2. /\ UsedSlots(pEntries') = UsedSlots(pEntries) \ {hnd[t]}
      /\ \A h \in UsedSlots(pEntries') : pEntries'[h] = pEntries[h]
  BY <1>1 DEF UsedSlots
<1> DEFINE reg == [h \in UsedSlots(pEntries) |-> pEntries[h]]
           regn == [h \in UsedSlots(pEntries') |-> pEntries'[h]]
<1>3. hnd[t] \in DOMAIN reg /\ reg[hnd[t]] = obj[t]
  BY <1>1
<1>4. regn = [k \in DOMAIN reg \ {hnd[t]} |-> reg[k]]
  BY <1>2
<1> HIDE DEF reg, regn
<1>5. QED
  BY <1>1, <1>3, <1>4 DEF Registry!Release, reg, regn

LEMMA FreeRefines ==
  ASSUME LockIInv, ObjIInv, NEW t \in Threads, CleanFree(t)
  PROVE  Registry!Clear
<1>1. pEntries' = NoEntries /\ obj' = obj
  BY FreeEndsAll
<1>2. UsedSlots(pEntries') = {}
  BY <1>1 DEF UsedSlots, NoEntries
<1>3. QED
  BY <1>1, <1>2 DEF Registry!Clear

LEMMA RefinementStep ==
  ASSUME LockIInv, CountIInv, ObjIInv, Disciplined, [Next]_vars
  PROVE  [Registry!Next]_Registry!vars
<1>1. CASE CsvLibInit \/ UNCHANGED vars
  BY <1>1, LibInitStep, StutterStep DEF Registry!vars
<1>2. ASSUME NEW t \in Threads, Calls(t) \/ Waits(t) \/ Steps(t)
      PROVE  [Registry!Next]_Registry!vars
  <2>1. CASE CsviExtendHandleTable(t)
    BY <2>1, ExtendRefines
  <2>2. CASE NewStore(t)
    BY <2>2, StoreRefines DEF Registry!Next
  <2>3. CASE RelFree(t)
    BY <2>3, ReleaseRefines DEF Registry!Next
  <2>4. CASE CleanFree(t)
    BY <2>4, FreeRefines DEF Registry!Next
  <2>5. CASE ~CsviExtendHandleTable(t) /\ ~NewStore(t) /\ ~RelFree(t) /\ ~CleanFree(t)
    BY <1>2, <2>5, LookSteps, LookRefines DEF Registry!Next
  <2>6. QED
    BY <2>1, <2>2, <2>3, <2>4, <2>5
<1>3. QED
  BY <1>1, <1>2 DEF Next, Finished

(***************************************************************************)
(* The table implements the registry of handles: with threads, the double  *)
(* release of the mutex and all error paths it behaves as an atomic map    *)
(* that gives out the smallest free handle.                                *)
(***************************************************************************)
THEOREM TableImplementsRegistry ==
  ASSUME Disciplined
  PROVE  Spec => RegistryImplemented
<1>1. Init => Registry!Init
  <2> SUFFICES ASSUME Init PROVE Registry!Init
    OBVIOUS
  <2>1. UsedSlots(pEntries) = {}
    BY DEF Init, UsedSlots, NoEntries
  <2>2. QED
    BY <2>1 DEF Init, Registry!Init
<1>2. LockIInv /\ CountIInv /\ ObjIInv /\ [Next]_vars => [Registry!Next]_Registry!vars
  BY RefinementStep
<1>3. QED
  BY <1>1, <1>2, LockInvariant, CountInvariant, ObjectInvariant, PTL
     DEF Spec, RegistryImplemented, Registry!Spec

-----------------------------------------------------------------------------
(***************************************************************************)
(* CsvLibCleanup closes every file, in a table of any size with holes      *)
(* anywhere, when no close fails.                                          *)
(***************************************************************************)

(* Open files belong to live objects, and a file is closed before its object*)
(* is freed.                                                                *)
FilesInv ==
  /\ files \subseteq heap
  /\ \A t \in Threads : pc[t] \in {"rel_lock", "rel_free"} => obj[t] \notin files

(* How far the loop of the cleanup is: no slot below i is in use, and the   *)
(* slot i is the one that is being closed.                                  *)
LoopInv(t) ==
  /\ pc[t] \in {"idle", "clean_lock", "clean_count"} => idx[t] = 0
  /\ pc[t] = "clean_loop" => \A j \in UsedSlots(pEntries) : idx[t] <= j
  /\ (op[t] = "cleanup" /\ pc[t] \in GetSteps \cup CloseSteps) =>
       /\ \A j \in UsedSlots(pEntries) : idx[t] <= j
       /\ hnd[t] = idx[t] /\ pc[t] # "get_fail"
       /\ pc[t] = "get_unlock" => obj[t] # NULL
       /\ pc[t] \in {"rel_unlock", "rel_exit"} => idx[t] \notin UsedSlots(pEntries)
  /\ pc[t] = "clean_free" => UsedSlots(pEntries) = {}

(***************************************************************************)
(* The inductive invariant, on top of LockIInv, CountIInv and ObjIInv.     *)
(***************************************************************************)
CleanIInv ==
  /\ FilesInv
  /\ \A t \in Threads : LoopInv(t)
  /\ lib = "down" => files = {}

-----------------------------------------------------------------------------
(* What every proof below assumes of the state and the step.                *)
Before == LockIInv /\ CountIInv /\ ObjIInv /\ CleanIInv

LEMMA BeforeFacts ==
  ASSUME Before, NEW t \in Threads
  PROVE  /\ ThreadInv(t) /\ OpInv(t) /\ LoopInv(t)
         /\ pc \in [Threads -> AllSteps] /\ op \in [Threads -> Ops]
         /\ hnd \in [Threads -> Handles] /\ obj \in [Threads -> Objects \cup {NULL}]
         /\ idx \in [Threads -> Nat]
  BY DEF Before, LockIInv, TypeOK, ObjIInv, ObjectInv, ThreadInv, CleanIInv

(* A step changes the locals of its own thread only.                        *)
LEMMA OthersKeepLocals ==
  ASSUME Before, Disciplined, NEW t \in Threads, Calls(t) \/ Waits(t) \/ Steps(t)
  PROVE  \A u \in Threads \ {t} :
           /\ pc'[u] = pc[u] /\ op'[u] = op[u] /\ hnd'[u] = hnd[u]
           /\ obj'[u] = obj[u] /\ idx'[u] = idx[u]
<1>1. TypeOK /\ ObjIInv
  BY DEF Before, LockIInv
<1>2. CASE Local(t)
  BY <1>2 DEF Local, Alone
<1>3. CASE CallCleanup(t)
  BY <1>1, <1>3 DEF CallCleanup, Goto, TypeOK
<1>4. CASE CsviExtendHandleTable(t)
  BY <1>1, <1>4 DEF CsviExtendHandleTable, Crash, Dies, Goto, TypeOK, locals
<1>5. CASE NewStore(t)
  BY <1>1, <1>5 DEF NewStore, Crash, Dies, Goto, TypeOK, locals
<1>6. CASE RelFree(t)
  BY <1>1, <1>6 DEF RelFree, Crash, Dies, Goto, TypeOK, locals
<1>7. CASE CleanFree(t)
  BY <1>1, <1>7 DEF CleanFree, Goto, TypeOK
<1>8. CASE CsviOpenFileFails(t) \/ Dies("freed")
  BY <1>8 DEF CsviOpenFileFails, Dies, locals
<1>9. QED
  BY <1>1, <1>2, <1>3, <1>4, <1>5, <1>6, <1>7, <1>8, LocalSteps, CallSteps
     DEF Calls, Waits, Steps

(* A thread that takes a step is not cleaned up behind.                     *)
LEMMA NobodyCleansBehind ==
  ASSUME Before, Disciplined, NEW t \in Threads, Calls(t) \/ Waits(t) \/ Steps(t)
  PROVE  \A u \in Threads \ {t} : ~InCleanup(u)
<1>1. CASE Calls(t)
  BY <1>1 DEF Calls, CsviOpenFile, CsviOpenFileFails, CallUse, CallClose, CallCleanup,
     MayCall, Disciplined
<1>2. CASE Waits(t) \/ Steps(t)
  <2>1. pc[t] # "idle"
    BY <1>2 DEF Waits, Steps, At, NewLock, GetLock, RelLock, CleanLock, CsviExtendHandleTable,
       NewScan, NewStore, NewUnlock, OpenInit, OpenSucceeds, OpenLeaks, OpenHeaderFails,
       OpenFailWrite, GetLookup, GetUnlock, GetStamp, GetFail, Use, CloseFile, CloseFileFails,
       RelFree, RelUnlock, RelExit, CleanCount, CleanLoop, CleanFree, CleanUnlock
  <2>2. QED
    BY <2>1, NobodyElseCleans DEF Before, ObjIInv
<1>3. QED
  BY <1>1, <1>2

(* A thread that is not cleaning up has nothing to keep but its index 0.    *)
LEMMA OthersLoop ==
  ASSUME Before, Disciplined, NEW t \in Threads, Calls(t) \/ Waits(t) \/ Steps(t)
  PROVE  \A u \in Threads \ {t} : LoopInv(u)'
<1> TAKE u \in Threads \ {t}
<1>1. ~InCleanup(u) /\ OpInv(u) /\ LoopInv(u)
  BY BeforeFacts, NobodyCleansBehind
<1>2. pc'[u] = pc[u] /\ op'[u] = op[u] /\ idx'[u] = idx[u]
  BY OthersKeepLocals
<1>3. /\ pc[u] \notin {"clean_lock", "clean_count", "clean_loop", "clean_free"}
      /\ ~(op[u] = "cleanup" /\ pc[u] \in GetSteps \cup CloseSteps)
  BY <1>1 DEF InCleanup, Running, OpInv, CleanupSteps, GetSteps, CloseSteps
<1>4. QED
  BY <1>1, <1>2, <1>3 DEF LoopInv

-----------------------------------------------------------------------------
(* Its own step keeps a thread's place in the loop.                         *)
LEMMA OwnLoop ==
  ASSUME Before, Disciplined, ~FailingCalls, process' = "running",
         NEW t \in Threads, Calls(t) \/ Waits(t) \/ Steps(t)
  PROVE  LoopInv(t)'
<1> USE DEF table, locals, Goto, At, GetSteps, CloseSteps, OpenSteps, CleanupSteps,
            UnlockedUses, LoopInv, OpInv
<1>1. /\ OpInv(t) /\ LoopInv(t)
      /\ pc \in [Threads -> AllSteps] /\ op \in [Threads -> Ops]
      /\ hnd \in [Threads -> Handles] /\ obj \in [Threads -> Objects \cup {NULL}]
      /\ idx \in [Threads -> Nat]
  BY BeforeFacts
<1>2. process = "running" /\ ThreadInv(t)
  BY BeforeFacts, HowProcessesDie
<1>3. \A j \in UsedSlots(pEntries) : j \in Nat
  BY DEF Before, LockIInv, TypeOK, UsedSlots, Slots
<1>4. CASE Calls(t)
  BY <1>1, <1>2, <1>4 DEF Calls, CsviOpenFile, CsviOpenFileFails, Dies, CallUse, CallClose,
     CallCleanup, MayCall, Disciplined
<1>5. CASE \/ NewLock(t) \/ CsviExtendHandleTable(t) \/ NewScan(t) \/ NewStore(t)
           \/ NewUnlock(t) \/ OpenInit(t) \/ OpenSucceeds(t) \/ OpenFailWrite(t) \/ Use(t)
  BY <1>1, <1>2, <1>5 DEF NewLock, CsviExtendHandleTable, NewScan, NewStore, NewUnlock,
     OpenInit, OpenSucceeds, OpenFailWrite, Use, Return, Crash, Dies
<1>6. CASE GetLock(t)
  BY <1>1, <1>6 DEF GetLock
<1>7. CASE GetLookup(t)
  <2>1. op[t] = "cleanup" => Live(hnd[t]) /\ PassesRangeCheck(hnd[t], dwTableSize)
    <3>1. SUFFICES ASSUME op[t] = "cleanup"
                   PROVE  Live(hnd[t]) /\ PassesRangeCheck(hnd[t], dwTableSize)
      OBVIOUS
    <3>2. pc[t] = "get_lookup" /\ hnd[t] = idx[t] /\ idx[t] \in Nat
      BY <1>1, <1>7, <3>1 DEF GetLookup
    <3>3. Live(hnd[t])
      BY <1>2, <3>1, <3>2 DEF ThreadInv, Claiming, CSV_INVALID_HANDLE_VALUE
    <3>4. hnd[t] \in Slots(dwTableSize) /\ dwTableSize \in Nat
      BY <3>3 DEF Before, LockIInv, TypeOK, Live
    <3>5. QED
      BY <3>3, <3>4 DEF PassesRangeCheck, Slots, CSV_INVALID_HANDLE_VALUE
  <2>2. op[t] = "cleanup" => obj'[t] # NULL
    BY <1>1, <1>7, <2>1, <1>2, TableAssumption DEF GetLookup, Crash, Dies, Live, Before, LockIInv, TypeOK
  <2>3. pc'[t] = "get_unlock" /\ UNCHANGED <<pEntries, idx, hnd, op>>
    BY <1>1, <1>2, <1>7 DEF GetLookup, Crash, Dies
  <2>4. QED
    BY <1>1, <1>7, <2>2, <2>3 DEF GetLookup
<1>8. CASE GetUnlock(t)
  BY <1>1, <1>8 DEF GetUnlock
<1>9. CASE GetStamp(t)
  BY <1>1, <1>9 DEF GetStamp
<1>10. CASE GetFail(t)
  BY <1>1, <1>10 DEF GetFail, AfterClose, Return
<1>11. CASE CloseFile(t) \/ RelLock(t)
  BY <1>1, <1>11 DEF CloseFile, RelLock
<1>12. CASE RelFree(t)
  <2>1. /\ pEntries' = [pEntries EXCEPT ![hnd[t]] = NULL] /\ pc[t] = "rel_free"
        /\ pc' = [pc EXCEPT ![t] = "rel_unlock"] /\ UNCHANGED <<op, idx, hnd>>
    BY <1>2, <1>12 DEF RelFree, Crash, Dies
  <2>2. UsedSlots(pEntries') = UsedSlots(pEntries) \ {hnd[t]}
    BY <2>1 DEF UsedSlots
  <2>3. QED
    BY <1>1, <2>1, <2>2
<1>13. CASE RelUnlock(t)
  BY <1>1, <1>13 DEF RelUnlock
<1>14. CASE RelExit(t)
  BY <1>1, <1>3, <1>14 DEF RelExit, AfterClose, Return
<1>15. CASE CleanLock(t)
  BY <1>1, <1>15 DEF CleanLock
<1>16. CASE CleanCount(t)
  <2>1. dwEntryCount > 0 \/ UsedSlots(pEntries) = {}
    <3>1. pc[t] = "clean_count"
      BY <1>16 DEF CleanCount
    <3>2. lib = "up"
      BY <3>1, UpWhileRunning DEF Before
    <3>3. /\ dwEntryCount = Cardinality(UsedSlots(pEntries))
          /\ IsFiniteSet(UsedSlots(pEntries))
      BY <3>2, UsedSlotsFinite DEF Before, CountIInv, CountInv, LockIInv
    <3>4. Cardinality(UsedSlots(pEntries)) \in Nat
      BY <3>3, FS_CardinalityType
    <3>5. Cardinality(UsedSlots(pEntries)) = 0 => UsedSlots(pEntries) = {}
      BY <3>3, FS_EmptySet
    <3>6. QED
      BY <3>3, <3>4, <3>5
  <2>2. QED
    BY <1>1, <1>3, <1>16, <2>1 DEF CleanCount
<1>17. CASE CleanLoop(t)
  <2>1. pc[t] = "clean_loop" /\ \A j \in UsedSlots(pEntries) : idx[t] <= j
    BY <1>1, <1>17 DEF CleanLoop
  <2>2. lib = "up"
    BY <2>1, UpWhileRunning DEF Before
  <2>3. dwTableSize \in Nat /\ DOMAIN pEntries = Slots(dwTableSize)
    BY <2>2 DEF Before, LockIInv, TypeOK
  <2>4. CASE idx[t] >= dwTableSize
    <3>1. UsedSlots(pEntries) = {}
      BY <1>1, <2>1, <2>3, <2>4 DEF UsedSlots, Slots
    <3>2. QED
      BY <1>1, <1>17, <2>4, <3>1 DEF CleanLoop
  <2>5. CASE idx[t] < dwTableSize /\ pEntries[idx[t]] = NULL
    <3>1. idx[t] \notin UsedSlots(pEntries)
      BY <2>5 DEF UsedSlots
    <3>2. \A j \in UsedSlots(pEntries) : idx[t] + 1 <= j
      BY <1>1, <1>3, <2>1, <3>1
    <3>3. /\ idx'[t] = idx[t] + 1 /\ pc'[t] = "clean_loop" /\ op'[t] = op[t]
          /\ pEntries' = pEntries
      BY <1>1, <1>17, <2>1, <2>3, <2>5 DEF CleanLoop
    <3>4. QED
      BY <3>2, <3>3
  <2>6. CASE idx[t] < dwTableSize /\ pEntries[idx[t]] # NULL
    <3>1. /\ hnd'[t] = idx[t] /\ pc'[t] = "get_lock" /\ idx'[t] = idx[t] /\ op'[t] = op[t]
          /\ pEntries' = pEntries
      BY <1>1, <1>17, <2>3, <2>6 DEF CleanLoop
    <3>2. QED
      BY <2>1, <3>1
  <2>7. QED
    BY <1>1, <2>3, <2>4, <2>5, <2>6
<1>18. CASE CleanFree(t) \/ CleanUnlock(t)
  BY <1>1, <1>18 DEF CleanFree, CleanUnlock, Return
<1>19. CASE OpenLeaks(t) \/ OpenHeaderFails(t) \/ CloseFileFails(t)
  BY <1>19 DEF OpenLeaks, OpenHeaderFails, CloseFileFails
<1>20. QED
  BY <1>4, <1>5, <1>6, <1>7, <1>8, <1>9, <1>10, <1>11, <1>12, <1>13, <1>14, <1>15, <1>16,
     <1>17, <1>18, <1>19 DEF Waits, Steps

-----------------------------------------------------------------------------
(* The files.                                                               *)

(* Two threads that point to objects point to different ones, unless both   *)
(* only use them.                                                           *)
LEMMA PointersDiffer ==
  ASSUME Before, NEW t \in Threads, NEW u \in Threads \ {t}, Pointing(t), Pointing(u)
  PROVE  obj[t] # obj[u]
<1>1. TypeOK /\ ThreadInv(t) /\ ThreadInv(u) /\ Disjoint /\ TableIsHeap
  BY DEF Before, LockIInv, ObjIInv, ObjectInv
<1>2. hnd[t] \in Claims(t) /\ hnd[u] \in Claims(u)
  BY <1>1, PointsToClaim
<1>3. hnd[t] # hnd[u]
  BY <1>1, <1>2 DEF Disjoint
<1>4. hnd[t] \in UsedSlots(pEntries) /\ hnd[u] \in UsedSlots(pEntries)
  BY <1>1, TableAssumption DEF ThreadInv, Live, UsedSlots, TypeOK
<1>5. QED
  BY <1>1, <1>3, <1>4 DEF TableIsHeap, ThreadInv

(* A step that leaves heap and files alone, and has not just closed a file. *)
LEMMA FilesUntouched ==
  ASSUME FilesInv, NEW t \in Threads, UNCHANGED <<heap, files>>,
         \A u \in Threads \ {t} : pc'[u] = pc[u] /\ obj'[u] = obj[u],
         pc'[t] \in {"rel_lock", "rel_free"} =>
           pc[t] \in {"rel_lock", "rel_free"} /\ obj'[t] = obj[t]
  PROVE  FilesInv'
  BY DEF FilesInv

LEMMA FilesStep ==
  ASSUME Before, Disciplined, ~FailingCalls, process' = "running",
         NEW t \in Threads, Calls(t) \/ Waits(t) \/ Steps(t)
  PROVE  FilesInv' /\ (lib' = "down" => files' = {})
<1> USE DEF table, locals, Goto, At
<1>1. /\ FilesInv /\ ThreadInv(t) /\ OpInv(t) /\ LoopInv(t) /\ process = "running"
      /\ (lib = "down" => files = {})
      /\ pc \in [Threads -> AllSteps] /\ obj \in [Threads -> Objects \cup {NULL}]
  BY BeforeFacts, HowProcessesDie DEF Before, CleanIInv
<1>2. \A u \in Threads \ {t} : pc'[u] = pc[u] /\ obj'[u] = obj[u]
  BY OthersKeepLocals
<1>3. CASE OpenInit(t)
  <2>1. /\ pc[t] = "open_init" /\ files' = files \cup {obj[t]} /\ UNCHANGED <<lib, heap, obj>>
        /\ pc'[t] = "open_header"
    BY <1>1, <1>3 DEF OpenInit
  <2>2. Pointing(t) /\ obj[t] \in heap /\ lib = "up"
    BY <1>1, <2>1, UpWhileRunning DEF Pointing, UnlockedUses, ThreadInv, Live, Before
  <2>3. \A u \in Threads \ {t} : pc[u] \in {"rel_lock", "rel_free"} => obj[u] # obj[t]
    BY <2>2, PointersDiffer DEF Pointing
  <2>4. QED
    BY <1>1, <1>2, <2>1, <2>2, <2>3 DEF FilesInv
<1>4. CASE CloseFile(t)
  BY <1>1, <1>2, <1>4 DEF CloseFile, FilesInv
<1>5. CASE NewStore(t)
  BY <1>1, <1>2, <1>5 DEF NewStore, Crash, Dies, FilesInv
<1>6. CASE RelFree(t)
  <2>1. /\ pEntries[hnd[t]] = obj[t] /\ heap' = heap \ {pEntries[hnd[t]]}
        /\ pc[t] = "rel_free" /\ pc'[t] = "rel_unlock" /\ UNCHANGED <<lib, files, obj>>
    BY <1>1, <1>6, ReleaseRemovesObject DEF RelFree, Crash, Dies, Before
  <2>2. QED
    BY <1>1, <1>2, <2>1 DEF FilesInv
<1>7. CASE CleanFree(t)
  <2>1. /\ heap' = {} /\ lib' = "down" /\ UNCHANGED <<files, obj>>
        /\ pc[t] = "clean_free" /\ pc'[t] = "clean_unlock"
    BY <1>1, <1>7 DEF CleanFree
  <2>2. UsedSlots(pEntries) = {}
    BY <1>1, <2>1 DEF LoopInv
  <2>3. files = {}
    BY <1>1, <2>2 DEF FilesInv, Before, ObjIInv, ObjectInv, TableIsHeap
  <2>4. QED
    BY <2>1, <2>3 DEF FilesInv
<1>8. CASE RelLock(t)
  BY <1>1, <1>2, <1>8, FilesUntouched DEF RelLock
<1>9. CASE Calls(t) \/ NewLock(t) \/ GetLock(t) \/ CleanLock(t)
  BY <1>1, <1>2, <1>9, FilesUntouched
     DEF Calls, CsviOpenFile, CsviOpenFileFails, Crash, Dies, CallUse, CallClose, CallCleanup, MayCall,
         NewLock, GetLock, CleanLock
<1>10. CASE \/ CsviExtendHandleTable(t) \/ NewScan(t) \/ NewUnlock(t) \/ OpenSucceeds(t)
            \/ OpenFailWrite(t) \/ GetLookup(t) \/ GetUnlock(t) \/ GetStamp(t)
  BY <1>1, <1>2, <1>10, FilesUntouched
     DEF CsviExtendHandleTable, NewScan, NewUnlock, OpenSucceeds, OpenFailWrite, GetLookup,
         GetUnlock, GetStamp, Crash, Dies, Return
<1>11. CASE \/ GetFail(t) \/ Use(t) \/ RelUnlock(t) \/ RelExit(t) \/ CleanCount(t)
            \/ CleanLoop(t) \/ CleanUnlock(t)
  BY <1>1, <1>2, <1>11, FilesUntouched
     DEF GetFail, Use, RelUnlock, RelExit, CleanCount, CleanLoop, CleanUnlock, AfterClose, Return
<1>12. CASE OpenLeaks(t) \/ OpenHeaderFails(t) \/ CloseFileFails(t)
  BY <1>12 DEF OpenLeaks, OpenHeaderFails, CloseFileFails
<1>13. QED
  BY <1>3, <1>4, <1>5, <1>6, <1>7, <1>8, <1>9, <1>10, <1>11, <1>12 DEF Waits, Steps

-----------------------------------------------------------------------------
LEMMA InitCleanIInv == Init => CleanIInv
<1> SUFFICES ASSUME Init PROVE CleanIInv
  OBVIOUS
<1>1. \A t \in Threads : LoopInv(t)
  BY DEF Init, LoopInv, GetSteps, CloseSteps
<1>2. QED
  BY <1>1 DEF Init, CleanIInv, FilesInv

LEMMA CleanStep ==
  ASSUME Disciplined, ~FailingCalls, Before, [Next]_vars
  PROVE  CleanIInv'
<1>1. process' # "table"
  BY ObjectStep DEF Before, ObjIInv
<1>2. ASSUME NEW t \in Threads, Calls(t) \/ Waits(t) \/ Steps(t) PROVE CleanIInv'
  <2>1. CASE process' = "running"
    <3>1. \A u \in Threads : LoopInv(u)'
      BY <1>2, <2>1, OwnLoop, OthersLoop
    <3>2. QED
      BY <1>2, <2>1, <3>1, FilesStep DEF CleanIInv
  <2>2. CASE Death
    BY <2>2, DeathStep DEF Before, CleanIInv, FilesInv, LoopInv
  <2>3. QED
    BY <1>1, <1>2, <2>1, <2>2, HowProcessesDie
<1>3. CASE CsvLibInit
  <2>1. /\ UNCHANGED <<pEntries, files, pc, op, hnd, obj, idx>> /\ lib' = "up" /\ heap' = heap
    BY <1>3 DEF CsvLibInit, table, locals, Before, ObjIInv, ObjectInv
  <2>2. QED
    BY <2>1 DEF Before, CleanIInv, FilesInv, LoopInv
<1>4. CASE UNCHANGED vars
  BY <1>4 DEF vars, table, locals, Before, CleanIInv, FilesInv, LoopInv
<1>5. QED
  BY <1>2, <1>3, <1>4 DEF Next, Finished

(***************************************************************************)
(* After CsvLibCleanup no file of the library is open: the loop finds every*)
(* object, in a table of any size with holes anywhere, although each close *)
(* releases the mutex twice and changes the table under the loop.          *)
(***************************************************************************)
THEOREM CleanupLeavesNoFile ==
  ASSUME Disciplined, ~FailingCalls
  PROVE  Spec => []CleanupClosesFiles
<1>1. LockIInv /\ CountIInv /\ ObjIInv /\ CleanIInv /\ [Next]_vars => CleanIInv'
  BY CleanStep DEF Before
<1>2. CleanIInv => CleanupClosesFiles
  BY DEF CleanIInv, CleanupClosesFiles
<1>3. QED
  BY InitCleanIInv, <1>1, <1>2, LockInvariant, CountInvariant, ObjectInvariant, PTL DEF Spec
=============================================================================
