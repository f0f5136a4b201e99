--------------------------------- MODULE LdapLib ---------------------------------
(***************************************************************************)
(* LibLdap: a connection with its session, paged requests, the entries     *)
(* they give, and the retrieval of attributes that the server sends in     *)
(* ranges. The host calls from one thread. Between two exchanges of a call *)
(* with the server the directory may change. The wldap32 library and the   *)
(* server are modelled from how the code uses them.                        *)
(***************************************************************************)
EXTENDS LdapEntry, FiniteSets

CONSTANTS
  Requests,        (* the variables of the host that point to requests       *)
  Results,         (* the entries a search matches, in the order of the server*)
  Members,         (* how many values their attribute "member" has at first  *)
  AttributeLists,  (* what the host requests; <<>> asks for all attributes   *)
  RangeSize,       (* how many values the server sends at most at once       *)
  MaxChanges,      (* bound: changes of the directory                        *)
  MaxMembers,      (* bound: values of an attribute                          *)
  ServerFailures,  (* may the server or the network fail?                    *)
  SilentEnds,      (* may the server send empty pages before the last entry, *)
                   (* or OPERATIONS_ERROR?                                   *)
  CarefulHost,     (* the host leaves a request alone after it ended or      *)
                   (* failed, and a connection it cannot trust any more      *)
  Null

ASSUME RangeSizeAssumption == RangeSize \in Nat \ {0}
ASSUME BoundsAssumption == MaxChanges \in Nat /\ MaxMembers \in Nat
ASSUME SwitchesAssumption == {ServerFailures, SilentEnds, CarefulHost} \subseteq BOOLEAN

DNs == {Results[i] : i \in DOMAIN Results}
Freed == <<"freed">>

(* An LDAP_REQUEST, with its page of entries, Freed when ldap_msgfree had it.*)
LdapRequest ==
  [attributes : Seq(Names), position : 0..Len(Results), over : BOOLEAN,
   page : Seq(DNs) \cup {Freed}, count : Nat, index : Nat]

(* A search matches an entry once.                                          *)
ASSUME ResultsAssumption ==
  /\ Results \in Seq(DNs)
  /\ \A i, j \in DOMAIN Results : Results[i] = Results[j] => i = j
ASSUME MembersAssumption == Members \in [DNs -> 0..MaxMembers]
ASSUME ListsAssumption == AttributeLists \subseteq Seq(Names)

(* The marks of the model are none of the values they stand beside.         *)
ASSUME MarksAssumption ==
  /\ Null \notin {"open", "unbound"} \cup Requests \cup DNs \cup Nat \cup LdapRequest
  /\ "freed" \notin DNs

VARIABLES
  pConnection,     (* Null, or what pLdapSession points to: "open" or, after *)
                   (* an unbind that left the pointer, "unbound"             *)
  requests,        (* for each variable Null or an LDAP_REQUEST              *)
  pEntry,          (* the last entry the host got, or Null                   *)
  call,            (* the entry that is being extracted, or Idle             *)
  directory,       (* the values of "member" of each entry, Deleted, and how *)
                   (* often it changed                                       *)
  trusted,         (* what the host thinks of its connection                 *)
  process,         (* "running" or "dead"                                    *)
  told             (* what the last step told the host                       *)

client == <<pConnection, requests, pEntry, call, trusted, process>>
vars == <<client, directory, told>>

Idle == [request |-> Null]
Deleted == -1
Exists(dn) == directory.members[dn] # Deleted
Told(kind, q, dn) == told' = [kind |-> kind, request |-> q, dn |-> dn]

Init ==
  /\ pConnection = Null
  /\ requests = [q \in Requests |-> Null] /\ pEntry = Null
  /\ call = Idle
  /\ directory = [members |-> Members, changes |-> 0]
  /\ trusted = TRUE /\ process = "running"
  /\ told = [kind |-> "other", request |-> Null, dn |-> Null]

-----------------------------------------------------------------------------
(* The host and the server.                                                 *)

MayCall == process = "running" /\ call = Idle
MayUseConnection ==
  /\ MayCall /\ pConnection # Null
  /\ CarefulHost => trusted
MayUseRequest(q) == MayUseConnection /\ requests[q] # Null

(* Values are added and removed at the end of the attribute, and entries    *)
(* are deleted.                                                             *)
DirectoryChanges ==
  /\ process = "running" /\ directory.changes < MaxChanges
  /\ \E dn \in {d \in DNs : Exists(d)} :
       \E n \in {directory.members[dn] + 1, directory.members[dn] - 1, Deleted} :
         /\ n \in 0..MaxMembers \cup {Deleted}
         /\ directory' = [members |-> [directory.members EXCEPT ![dn] = n],
                          changes |-> directory.changes + 1]
         /\ call' = IF call # Idle /\ call.entry.dn = dn
                    THEN [call EXCEPT !.seen = @ \cup {n}] ELSE call
  /\ UNCHANGED <<pConnection, requests, pEntry, trusted, process, told>>

(* A call on a session that was unbound, or a page that is freed again.     *)
Dies ==
  /\ process' = "dead" /\ Told("other", Null, Null)
  /\ UNCHANGED <<pConnection, requests, pEntry, call, directory, trusted>>

-----------------------------------------------------------------------------
(* The connection. LdapConnectW leaves a connection behind on all errors    *)
(* but the first two, and does not close it: its session may be unbound     *)
(* when the extraction of the root DSE failed.                              *)
Connected(session, ok) ==
  /\ pConnection' = session
  /\ trusted' = (ok \/ session = Null)
  /\ Told(IF ok THEN "other" ELSE "refused", Null, Null)
  /\ UNCHANGED <<requests, pEntry, call, directory, process>>

LdapConnect(wantsRootDse) ==
  /\ MayCall /\ pConnection = Null
  /\ \/ Connected("open", TRUE)
     \/ /\ ServerFailures
        /\ \/ Connected(Null, FALSE)
           \/ Connected("open", FALSE)
           \/ wantsRootDse /\ Connected("open", FALSE)
           \/ wantsRootDse /\ Connected("unbound", FALSE)

(* LdapBindExW                                                              *)
LdapBind ==
  /\ MayUseConnection
  /\ IF pConnection = "unbound" THEN Dies
     ELSE /\ \/ Told("other", Null, Null)
             \/ ServerFailures /\ Told("refused", Null, Null)
          /\ UNCHANGED <<pConnection, requests, pEntry, call, directory, trusted, process>>

(* LdapCloseConnection unbinds and destroys the heap, with all requests and *)
(* entries; the host drops what points to them.                             *)
LdapCloseConnection ==
  /\ MayUseConnection
  /\ IF pConnection = "unbound" THEN Dies
     ELSE /\ \/ /\ pConnection' = Null
                /\ requests' = [q \in Requests |-> Null]
                /\ pEntry' = Null
                /\ Told("closed", Null, Null)
             \/ /\ ServerFailures /\ Told("other", Null, Null)
                /\ UNCHANGED <<pConnection, requests, pEntry>>
          /\ UNCHANGED <<call, directory, trusted, process>>

(* A host that does not trust its connection drops it, and with it all that *)
(* came from it; nothing is closed.                                         *)
HostGivesUp ==
  /\ MayCall /\ pConnection # Null /\ ~trusted
  /\ pConnection' = Null /\ trusted' = TRUE
  /\ requests' = [q \in Requests |-> Null]
  /\ pEntry' = Null
  /\ Told("closed", Null, Null)
  /\ UNCHANGED <<call, directory, process>>

-----------------------------------------------------------------------------
(* Requests. position is what the server and wldap32 keep of the search: the*)
(* number of results that are behind it.                                    *)

LdapInitRequestEx(q, attributes) ==
  /\ MayUseConnection /\ requests[q] = Null
  /\ IF pConnection = "unbound" THEN Dies
     ELSE /\ \/ /\ requests' = [requests EXCEPT ![q] =
                     [attributes |-> attributes, position |-> 0, over |-> FALSE,
                      page |-> <<>>, count |-> 0, index |-> 0]]
                /\ Told("searching", q, Null)
             \/ /\ ServerFailures
                /\ Told("other", Null, Null) /\ UNCHANGED requests
          /\ UNCHANGED <<pConnection, pEntry, call, directory, trusted, process>>

(* LdapReleaseRequest and LdapReleaseEntry touch only the heap; a page that *)
(* the request still has is lost.                                           *)
LdapReleaseRequest(q) ==
  /\ MayUseRequest(q)
  /\ requests' = [requests EXCEPT ![q] = Null]
  /\ Told("released", q, Null)
  /\ UNCHANGED <<pConnection, pEntry, call, directory, trusted, process>>

LdapReleaseEntry ==
  /\ MayUseConnection /\ pEntry # Null
  /\ pEntry' = Null
  /\ Told("other", Null, Null)
  /\ UNCHANGED <<pConnection, requests, call, directory, trusted, process>>

-----------------------------------------------------------------------------
(* LdapGetNextEntry: a page when the one before is used up, then the next   *)
(* entry of the page.                                                       *)

(* Mutant: more than one entry is asked for at once.                        *)
LargePages == 3

PageSize == 1

(* What the server still has, from a position on: the existing entries that *)
(* are left, in their order.                                                *)
Left(position) == {i \in position + 1..Len(Results) : Exists(Results[i])}
Remaining(position) ==
  [k \in 1..Cardinality(Left(position)) |->
     Results[CHOOSE i \in Left(position) : Cardinality({j \in Left(position) : j <= i}) = k]]
PositionOf(dn) == CHOOSE i \in DOMAIN Results : Results[i] = dn

(* The attributes of an entry, as far as they were asked for and present,   *)
(* in any order.                                                            *)
Messages(dn, attributes) ==
  LET present == {Attribute("name", NoRange, <<1>>)}
                   \cup IF directory.members[dn] = 0 THEN {}
                        ELSE {Sent("member", directory.members[dn], RangeSize)}
      wanted == {a \in present : attributes = <<>>
                   \/ \E i \in DOMAIN attributes : attributes[i].type = a.type}
  IN  SetToSeqs(wanted)

(* A call that ends without an entry.                                       *)
Ends(q, page) ==
  /\ requests' = [requests EXCEPT ![q].page = page, ![q].over = TRUE]
  /\ Told("end", q, Null)
  /\ UNCHANGED <<pConnection, pEntry, call, directory, trusted, process>>

(* A call that fails; the session is unbound and its pointer stays.         *)
Unbinds(cause) ==
  /\ pConnection' = "unbound" /\ trusted' = FALSE
  /\ Told(cause, Null, Null)

(* The next entry of the page. ldap_next_entry is given the page and not    *)
(* the entry before: behind the first entry it gives the second.            *)
EntryAt(page, index) ==
  IF index = 0 THEN page[1] ELSE IF Len(page) > 1 THEN page[2] ELSE Null

Extracts(q, page, index, position) ==
  LET r == requests[q]
      dn == EntryAt(page, index)
  IN  IF dn = Null
      THEN /\ Unbinds("broken")
           /\ requests' = [requests EXCEPT ![q].over = TRUE]
           /\ UNCHANGED <<pEntry, call, directory, process>>
      ELSE /\ requests' = [requests EXCEPT ![q] =
                [r EXCEPT !.page = page, !.count = Len(page), !.index = index + 1,
                          !.position = position]]
           /\ \E message \in Messages(dn, r.attributes) :
                call' = [request |-> q, entry |-> NewEntry(dn, r.attributes),
                         todo |-> message, slot |-> 0, asked |-> 0,
                         seen |-> {directory.members[dn]}]
           /\ Told("busy", q, dn)
           /\ UNCHANGED <<pConnection, pEntry, directory, trusted, process>>

(* The pointer to a page that was freed stays when no other page arrives,   *)
(* or wldap32 clears it; <<>> is no page, or one without entries.           *)
PageAnswers(q) ==
  LET r == requests[q]
      rest == Remaining(r.position)
      count == IF Len(rest) < PageSize THEN Len(rest) ELSE PageSize
      leftovers == IF r.page = <<>> THEN {<<>>} ELSE {<<>>, Freed}
  IN  \/ /\ rest # <<>>
         /\ Extracts(q, SubSeq(rest, 1, count), 0, PositionOf(rest[count]))
      \/ /\ rest = <<>> \/ SilentEnds
         /\ \E page \in leftovers : Ends(q, page)
      \/ /\ ServerFailures
         /\ Unbinds("failed")
         /\ \E page \in leftovers :
              requests' = [requests EXCEPT ![q].page = page, ![q].over = TRUE]
         /\ UNCHANGED <<pEntry, call, directory, process>>

LdapGetNextEntry(q) ==
  LET r == requests[q]
  IN  /\ MayUseRequest(q)
      /\ CarefulHost => ~r.over
      /\ IF r.page = <<>> \/ r.index = r.count
         THEN IF pConnection = "unbound" \/ r.page = Freed THEN Dies ELSE PageAnswers(q)
         ELSE IF pConnection = "unbound" THEN Dies
              ELSE Extracts(q, r.page, r.index, r.position)

-----------------------------------------------------------------------------
(* LdapExtractEntryDataFromLdapMsg, one attribute at a time.                *)
Extracting == process = "running" /\ call # Idle
Ready == Extracting /\ call.slot = 0
Current == call.todo[1]
Listed == requests[call.request].attributes # <<>>

(* The current attribute is done.                                           *)
Done(entry) == [call EXCEPT !.entry = entry, !.todo = Tail(@), !.slot = 0]

(* The entry with the slot of the current attribute, and the slot.          *)
Located ==
  IF Listed THEN [entry |-> call.entry, slot |-> LdapLocateNamedAttr(call.entry, Current.type)]
  ELSE [entry |-> WithSlot(call.entry, Current.type), slot |-> Len(call.entry.attributes) + 1]
Reference ==
  IF Listed THEN <<requests[call.request].attributes[Located.slot]>> ELSE <<>>

(* Mutant: the session is unbound on this path too.                         *)
NotLocatedUnbinds ==
  /\ Ready /\ call.todo # <<>> /\ Located.slot = 0
  /\ Told("notRequested", Null, Null)
  /\ pConnection' = "unbound"
  /\ call' = Idle
  /\ requests' = [requests EXCEPT ![call.request].over = TRUE]
  /\ UNCHANGED <<pEntry, directory, trusted, process>>

(* An attribute that was requested with an option is not found again. The   *)
(* session stays as it is.                                                  *)
NotLocated ==
  /\ Ready /\ call.todo # <<>> /\ Located.slot = 0
  /\ Told("notRequested", Null, Null)
  /\ call' = Idle
  /\ requests' = [requests EXCEPT ![call.request].over = TRUE]
  /\ UNCHANGED <<pConnection, pEntry, directory, trusted, process>>

(* LdapExtractAttributes                                                    *)
LdapExtractAttributes ==
  /\ Ready /\ call.todo # <<>> /\ Located.slot # 0
  /\ ~IsRangedAtt(Current, Reference)
  /\ call' = Done(WithValues(Located.entry, Located.slot, Current.values))
  /\ UNCHANGED <<pConnection, requests, pEntry, directory, trusted, process, told>>

(* LdapExtractRangedAttributes asks for the first range once more.          *)
LdapExtractRangedAttributes ==
  /\ Ready /\ call.todo # <<>> /\ Located.slot # 0
  /\ IsRangedAtt(Current, Reference)
  /\ call' = [call EXCEPT !.entry = Located.entry, !.slot = Located.slot,
                          !.asked = Current.range[1]]
  /\ UNCHANGED <<pConnection, requests, pEntry, directory,
                 trusted, process, told>>

(* One round of its loop: a range is asked for, parsed and appended.        *)
InRange == Extracting /\ call.slot # 0

RangeArrives ==
  LET n == directory.members[call.entry.dn]
      reply == Ranged(Current.type, call.asked, n, RangeSize)
      entry == WithValues(call.entry, call.slot, reply.values)
  IN  /\ n > call.asked
      /\ call' = IF reply.range[2] = AllOthers THEN Done(entry)
                 ELSE [call EXCEPT !.entry = entry,
                                   !.asked = NextStart(reply.range[1], reply.values)]
     

(* Mutant: a reply without the attribute does not end the loop.             *)
RangeIsEmptyRepeats ==
  /\ directory.members[call.entry.dn] \in 0..call.asked
  /\ UNCHANGED call

(* The attribute has no such values any more: the reply is without it.      *)
RangeIsEmpty ==
  /\ directory.members[call.entry.dn] \in 0..call.asked
  /\ call' = Done(call.entry)

(* The entry was deleted, the one failure of the inner search that is not   *)
(* fatal.                                                                   *)
EntryIsGone ==
  /\ ~Exists(call.entry.dn)
  /\ call' = Done(call.entry)

RangeStep ==
  /\ InRange
  /\ RangeArrives \/ RangeIsEmpty \/ EntryIsGone
  /\ UNCHANGED <<pConnection, requests, pEntry, directory, trusted, process, told>>

(* Every other failure of the inner search is fatal.                        *)
RangeFails ==
  /\ InRange /\ ServerFailures
  /\ Unbinds("failed")
  /\ call' = Idle
  /\ requests' = [requests EXCEPT ![call.request].over = TRUE]
  /\ UNCHANGED <<pEntry, directory, process>>

(* No attribute is left: the call returns the entry.                        *)
EntryReturned ==
  /\ Ready /\ call.todo = <<>>
  /\ pEntry' = [dn |-> call.entry.dn, attributes |-> call.entry.attributes, seen |-> call.seen]
  /\ Told("entry", call.request, call.entry.dn)
  /\ call' = Idle
  /\ UNCHANGED <<pConnection, requests, directory, trusted, process>>

(* What the library does by itself, or with an answer of the server to an   *)
(* inner search.                                                            *)
Library ==
  \/ NotLocated \/ LdapExtractAttributes \/ LdapExtractRangedAttributes
  \/ RangeStep \/ EntryReturned

Next ==
  \/ DirectoryChanges
  \/ \E wantsRootDse \in BOOLEAN : LdapConnect(wantsRootDse)
  \/ LdapBind \/ LdapCloseConnection \/ HostGivesUp \/ LdapReleaseEntry
  \/ \E q \in Requests :
       \/ \E attributes \in AttributeLists : LdapInitRequestEx(q, attributes)
       \/ LdapGetNextEntry(q) \/ LdapReleaseRequest(q)
  \/ Library \/ RangeFails

(* A call goes on by itself: the server answers, or the connection is lost. *)
(* Nothing makes the host call or the directory change.                     *)
Spec == Init /\ [][Next]_vars /\ WF_vars(Library)

-----------------------------------------------------------------------------
(* Properties.                                                              *)

(* The variables keep their types, an entry has a slot for each requested   *)
(* attribute, and a page is never indexed behind its end.                   *)
TypeOK ==
  /\ pConnection \in {Null, "open", "unbound"}
  /\ requests \in [Requests -> LdapRequest \cup {Null}]
  /\ \A q \in Requests : requests[q] # Null /\ requests[q].page \notin {<<>>, Freed} =>
       requests[q].index <= requests[q].count /\ requests[q].count = Len(requests[q].page)
  /\ call = Idle \/ (call.entry.dn \in DNs /\ call.slot \in 0..Len(call.entry.attributes))
  /\ directory.members \in [DNs -> -1..MaxMembers]
  /\ trusted \in BOOLEAN /\ process \in {"running", "dead"}

(* The error paths unbind the session and leave its pointer, and the end of *)
(* a result leaves the pointer to a freed page. A host that stops using a   *)
(* connection after a failed connect, and after every failure of            *)
(* LdapGetNextEntry but LDAP_NO_SUCH_ATTRIBUTE, never makes a call on a     *)
(* dead session or has a page freed twice.                                  *)
NeverDies == process = "running"

(* An attribute that arrived in ranges, while the directory changed between *)
(* the rounds, has a number of values that the server had in between, each  *)
(* once and in order; each requested attribute has its own values, in       *)
(* whatever order the server sent them.                                     *)
AttributesComplete ==
  pEntry # Null => \A i \in DOMAIN pEntry.attributes :
    LET a == pEntry.attributes[i]
    IN  /\ a.values = From(1, Len(a.values))
        /\ a.name = Requested("name") => Len(a.values) = 1
        /\ a.name = Requested("member") =>
             /\ \E n \in pEntry.seen : Len(a.values) <= n
             /\ \E n \in pEntry.seen : Len(a.values) >= n

(* Every call returns to the host: the loop over the ranges of an attribute *)
(* ends, although the attribute may grow and shrink while it runs (but not  *)
(* for ever, see MaxChanges).                                               *)
CallsReturn == call # Idle ~> call = Idle

(* LibLdap implements LdapResults: each existing entry of the search once,  *)
(* in order, then the end; a request with an attribute that has an option   *)
(* and the server are the only reasons to fail.                             *)
Cursor ==
  [q \in Requests |->
    IF requests[q] = Null THEN Null
    ELSE IF requests[q].page \in {<<>>, Freed} THEN requests[q].position
    ELSE LET dn == EntryAt(requests[q].page, requests[q].index - 1)
         IN  IF dn = Null THEN requests[q].position ELSE PositionOf(dn)]
Stream == INSTANCE LdapResults
            WITH cursor <- Cursor, members <- directory.members
ResultsImplemented == Stream!Spec
=============================================================================
