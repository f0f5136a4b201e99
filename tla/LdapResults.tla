------------------------------- MODULE LdapResults -------------------------------
(***************************************************************************)
(* What LibLdap promises of a search: it is a cursor over the entries that *)
(* match, which may be deleted while it runs. A call fetches the next      *)
(* entry that exists, and returns it then or later; it says that the end   *)
(* was reached only when no entry is left.                                 *)
(***************************************************************************)
EXTENDS Integers, Sequences

CONSTANTS Requests, Results, Deleted, Null

VARIABLES
  cursor,     (* for each request Null, or the number of results behind it   *)
  members,    (* what the directory has of each entry, or Deleted            *)
  told        (* what the last step told the host                            *)

vars == <<cursor, members, told>>

Exists(i) == members[Results[i]] # Deleted
Ahead(q) == {i \in DOMAIN Results : i > cursor[q] /\ Exists(i)}
Tells(kind, q) == told'.kind = kind /\ told'.request = q

Init == cursor = [q \in Requests |-> Null] /\ told.kind = "other"

Change == members' # members /\ UNCHANGED <<cursor, told>>

Search(q) ==
  /\ Tells("searching", q)
  /\ cursor[q] = Null /\ cursor' = [cursor EXCEPT ![q] = 0]
  /\ UNCHANGED members

Fetch(q) ==
  /\ Tells("busy", q)
  /\ cursor[q] # Null /\ Ahead(q) # {}
  /\ LET next == CHOOSE i \in Ahead(q) : \A j \in Ahead(q) : i <= j
     IN  told'.dn = Results[next] /\ cursor' = [cursor EXCEPT ![q] = next]
  /\ UNCHANGED members

Return(q) ==
  /\ Tells("entry", q)
  /\ told.request = q /\ told.kind = "busy" /\ told'.dn = told.dn
  /\ UNCHANGED <<cursor, members>>

End(q) ==
  /\ Tells("end", q)
  /\ cursor[q] # Null /\ Ahead(q) = {}
  /\ UNCHANGED <<cursor, members>>

(* The server or the network failed, or the host asked for an attribute     *)
(* with an option.                                                          *)
Fail == told'.kind \in {"failed", "refused", "notRequested"} /\ UNCHANGED <<cursor, members>>

Release(q) ==
  /\ Tells("released", q)
  /\ cursor[q] # Null /\ cursor' = [cursor EXCEPT ![q] = Null]
  /\ UNCHANGED members

Close ==
  /\ told'.kind = "closed" /\ cursor' = [q \in Requests |-> Null]
  /\ UNCHANGED members

Other == told'.kind = "other" /\ UNCHANGED <<cursor, members>>

Next ==
  \/ Change \/ Fail \/ Close \/ Other
  \/ \E q \in Requests : Search(q) \/ Fetch(q) \/ Return(q) \/ End(q) \/ Release(q)

Spec == Init /\ [][Next]_vars
=============================================================================
