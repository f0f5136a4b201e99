-------------------------------- MODULE LdapEntry --------------------------------
(***************************************************************************)
(* What LibLdap makes of a result entry. A message has a name and a list   *)
(* of attributes, each with its type, its values and, when the server does *)
(* not send all values, a range option: <<first, last>>, with AllOthers    *)
(* for a last one of "*". A requested attribute is a type with or without  *)
(* an option. The values of an attribute are 1 .. n.                       *)
(***************************************************************************)
EXTENDS Integers, Sequences, SequencesExt

NoRange == <<>>
AllOthers == -1

Attribute(type, range, values) == [type |-> type, range |-> range, values |-> values]
Requested(type) == [type |-> type, option |-> FALSE]
Names == [type : {"name", "member"}, option : BOOLEAN]

From(first, last) == [i \in 1..last - first + 1 |-> first + i - 1]

(* What the server sends of an attribute with n values from value start + 1 *)
(* on, when it sends at most size of them.                                  *)
Ranged(type, start, n, size) ==
  Attribute(type,
            <<start, IF n - start <= size THEN AllOthers ELSE start + size - 1>>,
            From(start + 1, IF n - start <= size THEN n ELSE start + size))
Sent(type, n, size) ==
  IF n <= size THEN Attribute(type, NoRange, From(1, n)) ELSE Ranged(type, 0, n, size)

(* LdapLocateNamedAttrW: the slot of a type in an entry, 0 when there is    *)
(* none. The name that is looked for has lost its option, those in the      *)
(* entry are the requested ones.                                            *)
LdapLocateNamedAttr(entry, type) ==
  LET same == {i \in DOMAIN entry.attributes : entry.attributes[i].name = Requested(type)}
  IN  IF same = {} THEN 0 ELSE CHOOSE i \in same : \A j \in same : i <= j

(* IsRangedAtt: compared with the requested name when there is one.         *)
IsRangedAtt(attribute, reference) ==
  IF reference # <<>>
  THEN reference[1] # [type |-> attribute.type, option |-> attribute.range # NoRange]
  ELSE attribute.range # NoRange

(* The entry that is built: a slot for each requested attribute.            *)
NewEntry(dn, attributes) ==
  [dn |-> dn, attributes |-> [i \in DOMAIN attributes |->
                                [name |-> attributes[i], values |-> <<>>]]]

(* Mutant: the count of the attributes is not raised.                       *)
SlotNotCounted(entry, type) == entry

(* Without a list of requested attributes a slot is added for each that     *)
(* arrives.                                                                 *)
WithSlot(entry, type) ==
  [entry EXCEPT !.attributes = Append(@, [name |-> Requested(type), values |-> <<>>])]

(* Mutant: the values of the last reply take the place of those before it.  *)
ReplacesValues(entry, i, values) ==
  [entry EXCEPT !.attributes[i].values = values]

(* Values are appended to those an attribute has.                           *)
WithValues(entry, i, values) ==
  [entry EXCEPT !.attributes[i].values = @ \o values]

(* Where the next range starts: behind the values of the last reply, which  *)
(* says itself where it started.                                            *)
NextStart(start, values) == start + Len(values)
=============================================================================
