----------------------------- MODULE CsvRegistry ------------------------------
(***************************************************************************)
(* What LibCsv's handle table promises: handles are registered, found and  *)
(* released one at a time, as if nothing ran concurrently. A new object    *)
(* gets the smallest handle that is free, a lookup sees the object that is  *)
(* registered under the handle at that moment, and releasing a handle      *)
(* affects no other one.                                                   *)
(***************************************************************************)
EXTENDS Integers

CONSTANTS Threads, Objects, NULL

VARIABLES
  reg,    (* registered handle -> object                                     *)
  view    (* per thread, the object its current call works on, or NULL       *)

vars == <<reg, view>>

SmallestFree(h) ==
  /\ h \in Nat \ DOMAIN reg
  /\ 0 .. h - 1 \subseteq DOMAIN reg

(* The smallest free handle is one of these when finitely many are in use.  *)
Candidates == {0} \cup {k + 1 : k \in DOMAIN reg}

Registered(o) == \E h \in DOMAIN reg : reg[h] = o

Init ==
  /\ reg = [h \in {} |-> NULL]
  /\ view = [t \in Threads |-> NULL]

(* A thread registers an object that is not registered yet.                 *)
Register(t) ==
  \E o \in Objects : \E h \in Candidates :
    /\ SmallestFree(h) /\ ~Registered(o)
    /\ reg' = [k \in DOMAIN reg \cup {h} |-> IF k = h THEN o ELSE reg[k]]
    /\ view' = [view EXCEPT ![t] = o]

(* A thread looks a handle up: it sees the registered object or nothing.    *)
Find(t) ==
  /\ \E o \in {reg[h] : h \in DOMAIN reg} \cup {NULL} :
       view' = [view EXCEPT ![t] = o]
  /\ UNCHANGED reg

(* A thread releases a registered handle, the one of the object it sees.    *)
Release(t) ==
  /\ \E h \in DOMAIN reg :
       /\ reg[h] = view[t]
       /\ reg' = [k \in DOMAIN reg \ {h} |-> reg[k]]
  /\ UNCHANGED view

(* A call returns.                                                          *)
Forget(t) ==
  /\ view' = [view EXCEPT ![t] = NULL]
  /\ UNCHANGED reg

(* The library is unloaded.                                                 *)
Clear ==
  /\ reg' = [h \in {} |-> NULL]
  /\ UNCHANGED view

Next ==
  \/ \E t \in Threads : Register(t) \/ Find(t) \/ Release(t) \/ Forget(t)
  \/ Clear

Spec == Init /\ [][Next]_vars
=============================================================================
