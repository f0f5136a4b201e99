-------------------------------- MODULE JsonWalk --------------------------------
(***************************************************************************)
(* What LibJson promises: an open object is a text; a container gives its  *)
(* elements one after the other, each as an open object with the element's *)
(* text and key; a search passes over elements with other names, and one   *)
(* that finds nothing moves nothing; a restart begins again; releasing an  *)
(* object leaves all others as they are.                                   *)
(***************************************************************************)
EXTENDS JsonGrammar

CONSTANTS Refs, Texts, NameSets, Closed

VARIABLES
  open,     (* what each variable of the host holds: Closed, or the type and *)
            (* text of an object and how many of its elements were passed    *)
  told      (* what the last call told: its kind, the object it was about,   *)
            (* the names it searched and the element it found                *)

vars == <<open, told>>

Opened(type, text) == [type |-> type, text |-> text, passed |-> 0]
IsContainer(r) == open[r] # Closed /\ open[r].type \in {"Object", "Array"}
ToldOf(kind, r) == told'.kind = kind /\ told'.ref = r

(* The positions of the elements that a search for names still may find.    *)
Ahead(r, names) ==
  {j \in DOMAIN Elements(open[r].text) :
     /\ j > open[r].passed
     /\ names = {} \/ open[r].type = "Array" \/ Elements(open[r].text)[j].key \in names}

Init == open = [r \in Refs |-> Closed] /\ told.kind = "other"

Open ==
  /\ told'.kind = "opened"
  /\ \E r \in Refs, text \in Texts :
       /\ open[r] = Closed /\ open'[r] # Closed /\ IsDocument(text)
       /\ open' = [open EXCEPT ![r] = Opened(TypeOfText(Root(text)), Root(text))]

Reject ==
  /\ told'.kind = "rejected" /\ \E text \in Texts : ~IsDocument(text)
  /\ UNCHANGED open

(* The next element is found; the host keeps it, or a loop drops it.        *)
Find(r) ==
  LET names == told'.names
      j == CHOOSE k \in Ahead(r, names) : \A l \in Ahead(r, names) : k <= l
      moved == [open EXCEPT ![r].passed = j]
      element == Elements(open[r].text)[j]
  IN  /\ told'.kind \in {"element", "passed", "stopped"} /\ told'.ref = r
      /\ IsContainer(r) /\ Ahead(r, names) # {}
      /\ told'.element = element
      /\ \/ /\ told'.kind # "element"
            /\ open' = moved
         \/ /\ told'.kind = "element"
            /\ \E c \in Refs : /\ open[c] = Closed
                               /\ open' = [moved EXCEPT ![c] =
                                            Opened(element.type, element.text)]

FindNothing(r) ==
  /\ ToldOf("none", r) /\ IsContainer(r) /\ Ahead(r, told'.names) = {}
  /\ UNCHANGED open

(* A loop has come to the end of its container.                             *)
LoopEnds(r) ==
  /\ told'.kind \in {"looped", "absent"} /\ told'.ref = r /\ IsContainer(r)
  /\ Ahead(r, {}) = {}
  /\ UNCHANGED open

(* Only an object without elements is refused.                              *)
Refuse(r) == ToldOf("refused", r) /\ ~IsContainer(r) /\ UNCHANGED open

(* A loop over one is refused too, and over an array the loop that asks for *)
(* certain elements.                                                        *)
RefuseLoop(r) ==
  /\ ToldOf("noloop", r)
  /\ IsContainer(r) => open[r].type = "Array" /\ told'.requested
  /\ UNCHANGED open

Restart(r) ==
  /\ ToldOf("restarted", r) /\ IsContainer(r)
  /\ open' = [open EXCEPT ![r].passed = 0]

(* By the host, or by a loop when the callback has returned.                *)
Release(r) ==
  /\ told'.kind \in {"released", "failed"} /\ told'.ref = r
  /\ open[r] # Closed
  /\ open' = [open EXCEPT ![r] = Closed]

Cleanup ==
  /\ told'.kind = "cleaned"
  /\ open' = [r \in Refs |-> Closed]

Other == told'.kind \in {"other", "nofile", "unmapped", "looping"} /\ UNCHANGED open

Next ==
  \/ Open \/ Reject \/ Cleanup \/ Other
  \/ \E r \in Refs : \/ Find(r) \/ FindNothing(r) \/ LoopEnds(r) \/ Refuse(r)
                     \/ RefuseLoop(r) \/ Restart(r) \/ Release(r)

Spec == Init /\ [][Next]_vars
=============================================================================
