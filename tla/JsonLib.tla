-------------------------------- MODULE JsonLib --------------------------------
(***************************************************************************)
(* LibJson: the table of internal objects, the public objects the host     *)
(* holds, the calls that open a text, walk over a container, restart and   *)
(* release, and the two loops that hand each element to a callback. The    *)
(* library has no lock and the host calls it from one thread; what happens *)
(* between two elements of a loop is the callback.                         *)
(***************************************************************************)
EXTENDS JsonCursor, TLC

CONSTANTS
  Refs,            (* the variables of the host, and of a loop, that point   *)
                   (* to public objects                                      *)
  Texts,           (* the files and strings the host opens                   *)
  NameSets,        (* the names it searches; {} asks for any element         *)
  Requests,        (* what it passes to JsonObjectForeachRequestedElement    *)
  HandleTableDelta,(* JSON_HANDLE_TABLE_DELTA                                *)
  MaxEntries,      (* bound: internal objects, most of which nobody releases *)
  MaxFailures,     (* bound: an open fails only while fewer objects exist    *)
  CarefulHost,     (* the host restarts a container whose first search found *)
                   (* nothing before it reads it again, and no container     *)
                   (* that it has not read                                   *)
  Null

ASSUME DeltaAssumption == HandleTableDelta \in Nat \ {0}
ASSUME TextsAssumption == \A text \in Texts : text \in Seq(Chars)
ASSUME BoundsAssumption == MaxEntries \in Nat /\ MaxFailures \in Nat

(* The values of eObjectType.                                               *)
ObjectTypes == {"Unknown", "Object", "Array", "Number", "Boolean", "String"}
ASSUME NullAssumption == Null \notin Refs \cup ObjectTypes

VARIABLES
  gs_sJsonHandleTable, (* dwTableSize, dwEntryCount and pEntries             *)
  gs_dwJsonLastError,
  objects,             (* the public object each variable of the host holds  *)
  loop,                (* the loop that runs: its container, what it asks    *)
                       (* for, its current element, and what it has found    *)
  phase,               (* "unloaded", "loaded", "dead" after a wild read, or *)
                       (* "cleaned"                                          *)
  told                 (* what the last call told the host                   *)

vars == <<gs_sJsonHandleTable, gs_dwJsonLastError, objects, loop, phase, told>>

Table == gs_sJsonHandleTable
(* A free entry of the table, and a variable that points to no object.      *)
NoObject == [type |-> Null]
NoLoop == [ref |-> Null]
Looping == loop # NoLoop
Told(kind) == [kind |-> kind, ref |-> Null, names |-> {}, element |-> Null]

Init ==
  /\ gs_sJsonHandleTable = [dwTableSize |-> 0, dwEntryCount |-> 0,
                            pEntries |-> [i \in {} |-> NoObject]]
  /\ gs_dwJsonLastError = "NO_ERROR"
  /\ objects = [r \in Refs |-> NoObject]
  /\ loop = NoLoop
  /\ phase = "unloaded"
  /\ told = Told("other")

-----------------------------------------------------------------------------
(* The table.                                                               *)

(* JsoniExtendHandleTable *)
Extended(table) ==
  LET size == table.dwTableSize + HandleTableDelta
  IN  [table EXCEPT !.dwTableSize = size,
                    !.pEntries = [i \in 0..size - 1 |->
                      IF i < table.dwTableSize THEN table.pEntries[i] ELSE NoObject]]

(* Mutant: the count is taken for the first free entry.                     *)
CountedHandle(table) == table.dwEntryCount

(* JsoniNewInternalObject: the table grows when it is full, and the scan    *)
(* stops at the first free entry.                                           *)
FreeHandle(table) ==
  CHOOSE i \in 0..table.dwTableSize :
    /\ i = table.dwTableSize \/ table.pEntries[i] = NoObject
    /\ \A j \in 0..i - 1 : table.pEntries[j] # NoObject

(* Mutant: the table grows one object late.                                 *)
RoomyTooLate(table) ==
  IF table.dwEntryCount > table.dwTableSize THEN Extended(table) ELSE table

Roomy(table) ==
  IF table.dwEntryCount = table.dwTableSize THEN Extended(table) ELSE table
JsoniNewInternalObject(table, o) ==
  LET roomy == Roomy(table)
  IN  [roomy EXCEPT !.pEntries[FreeHandle(roomy)] = o, !.dwEntryCount = @ + 1]
NewHandle(table) == FreeHandle(Roomy(table))

NewObject(type, data) ==
  [type |-> type, data |-> data, parser |-> jsmn_init, num |-> 0,
   idx |-> 0, rem |-> 0, state |-> "NOT_STARTED"]

(* Mutant: the count stays.                                                 *)
ReleasedUncounted(table, h) == [table EXCEPT !.pEntries[h] = NoObject]

(* JsoniReleaseInternalObject *)
Released(table, h) ==
  [table EXCEPT !.pEntries[h] = NoObject, !.dwEntryCount = @ - 1]

(* JsoniAllocAndFillJsonObj: the child gets an internal object of its own   *)
(* with a copy of its text, and the host a public object.                   *)
ChildOf(o, token) ==
  LET text == TextOf(o.data, token)
      type == ObjectType(token, text)
  IN  [public |-> [type |-> type, text |-> text],
       internal |-> NewObject(InternalType(type), text)]

Parsed(o) ==
  LET r == JsoniParseJS(o.data, o.parser)
  IN  [obj |-> [o EXCEPT !.parser = r.parser, !.num = r.num,
                         !.idx = 0, !.rem = 1, !.state = "START"],
       err |-> CASE r.err = "INVAL" -> "INVALID_JSON_FILE"
                 [] r.err = "PART" -> "TRUNCATED_JSON_FILE"
                 [] OTHER -> "NO_ERROR"]

-----------------------------------------------------------------------------
(* What may be called when. A callback may use every object but its loop's  *)
(* container and its element.                                               *)
HasRoom(count) == Table.dwEntryCount + count <= MaxEntries
MayFail == Table.dwEntryCount < MaxFailures
Held(r) == objects[r] # NoObject
Internal(r) == Table.pEntries[objects[r].hJson]
MayUse(r) ==
  /\ phase = "loaded" /\ Held(r)
  /\ Looping => loop.elem # Null /\ r \notin {loop.ref, loop.elem}
MayCall == phase = "loaded" /\ (Looping => loop.elem # Null)
DirectChildren(o) ==   (* the indexes of the tokens right under the root token *)
  {i \in 1..Len(o.parser.tokens) - 1 :
     \A j \in 1..i - 1 : o.parser.tokens[j + 1].end <= o.parser.tokens[i + 1].start}
Passed(o) ==   (* how many elements stand before the cursor                  *)
  Cardinality({i \in DirectChildren(o) : i < o.idx}) \div (IF o.type = "Object" THEN 2 ELSE 1)
Missed(o) == o.idx = 0 /\ o.state \in {"KEY", "SKIP", "PRINT"}
(* Which of its free variables the host uses makes no difference.          *)
FreeRef == CHOOSE r \in Refs : ~Held(r)
SomeRefFree == \E r \in Refs : ~Held(r)

Returns(err, t) == gs_dwJsonLastError' = err /\ told' = t

-----------------------------------------------------------------------------
(* JsonLibInit and JsonLibCleanup, which destroys the heap and all objects  *)
(* and leaves the table as it is.                                           *)
JsonLibInit ==
  /\ phase = "unloaded" /\ phase' = "loaded"
  /\ Returns("NO_ERROR", Told("other"))
  /\ UNCHANGED <<gs_sJsonHandleTable, objects, loop>>

JsonLibCleanup ==
  /\ phase = "loaded" /\ ~Looping /\ phase' = "cleaned"
  /\ objects' = [r \in Refs |-> NoObject]
  /\ Returns("NO_ERROR", Told("cleaned"))
  /\ UNCHANGED <<gs_sJsonHandleTable, loop>>

(* JsonOpenFileReadW when the file cannot be opened, or cannot be mapped as *)
(* an empty file cannot: the object it made stays in the table. The error   *)
(* of the first is the success of making that object, the second leaves the *)
(* one of the system.                                                       *)
OpenFails ==
  /\ MayCall /\ HasRoom(1) /\ MayFail
  /\ gs_sJsonHandleTable' = JsoniNewInternalObject(Table, NewObject("Unknown", <<>>))
  /\ \/ Returns("NO_ERROR", Told("nofile"))
     \/ Returns("FILE_INVALID", Told("unmapped"))
  /\ UNCHANGED <<objects, loop, phase>>

(* JsonOpenFileReadW and JsonParseStringReadW: an object for the text, which *)
(* nobody can release, and one for its root token. (A quantifier over one   *)
(* value names it, so that it is computed once.)                            *)
OpenError(root) ==
  IF root.err = "NO_ERROR" /\ ~IsContainer(TokenAt(root.obj.parser.tokens, root.obj.num, 0))
  THEN "INVALID_JSON_FILE" ELSE root.err

OpenSucceeds(root, table) ==
  \E child \in {ChildOf(root.obj, root.obj.parser.tokens[1])} :
    /\ OpenError(root) = "NO_ERROR"
    /\ gs_sJsonHandleTable' = JsoniNewInternalObject(table, child.internal)
    /\ objects' = [objects EXCEPT ![FreeRef] =
         [type |-> child.public.type, key |-> <<>>,
          text |-> child.public.text, hJson |-> NewHandle(table)]]
    /\ Returns("NO_ERROR", [Told("opened") EXCEPT !.ref = FreeRef])

OpenRejects(root, table) ==
  /\ OpenError(root) # "NO_ERROR" /\ MayFail
  /\ gs_sJsonHandleTable' = table
  /\ Returns(OpenError(root), Told("rejected"))
  /\ UNCHANGED objects

JsonOpen(text) ==
  /\ MayCall /\ HasRoom(2) /\ SomeRefFree
  /\ \E root \in {Parsed(NewObject("Unknown", text))} :
       \E table \in {JsoniNewInternalObject(Table, root.obj)} :
         OpenSucceeds(root, table) \/ OpenRejects(root, table)
  /\ UNCHANGED <<loop, phase>>

(* JsonGetNextObjectW on the container of r, which was parsed on its first  *)
(* use (p) and browsed (b): the new table and objects, the error, and what  *)
(* the host is told.                                                        *)
Prepared(o) ==
  IF o.state = "NOT_STARTED" /\ IsWalkable(o.type) THEN Parsed(o)
  ELSE [obj |-> o, err |-> "NO_ERROR"]

AnswerFrom(r, p, b) ==
  LET with(o) == [Table EXCEPT !.pEntries[objects[r].hJson] = o]
      answer(table, err, kind) == [table |-> table, objects |-> objects,
                                   element |-> Null, err |-> err, kind |-> kind]
  IN  IF ~IsWalkable(p.obj.type) THEN answer(Table, "INVALID_JSON_FILE", "refused")
      ELSE IF p.err # "NO_ERROR" THEN answer(with(p.obj), p.err, "refused")
      ELSE IF p.obj.rem = 0 THEN answer(Table, "NO_ERROR", "none")
      ELSE IF p.obj.num = 0 \/ b.err = "WILD" THEN answer(Table, "NO_ERROR", "crashed")
      ELSE CASE b.err = "TOKEN_NOT_FOUND" -> answer(with(b.obj), "NO_ERROR", "none")
        [] b.err = "SUCCESS" ->
             LET child == ChildOf(b.obj, b.token)
                 element == [type |-> child.public.type, key |-> b.key,
                             text |-> child.public.text]
             IN  [answer(JsoniNewInternalObject(with(b.obj), child.internal),
                         "NO_ERROR", "element")
                    EXCEPT !.element = element,
                           !.objects[FreeRef] =
                             [type |-> child.public.type, key |-> b.key,
                              text |-> child.public.text,
                              hJson |-> NewHandle(with(b.obj))]]
        [] OTHER -> answer(with(b.obj), b.err, "refused")

(* The one answer to a call.                                                *)
GetNext(r, names) ==
  {AnswerFrom(r, walked[1], walked[2]) :
     walked \in {<<p, JsoniBrowseJsonFile(p.obj, names)>> : p \in {Prepared(Internal(r))}}}

Crashes(answer) ==
  phase' = IF answer.kind = "crashed" THEN "dead" ELSE phase
TellsOf(r, names, answer) ==
  [kind |-> answer.kind, ref |-> r, names |-> names, element |-> answer.element]

JsonGetNextObject(r, names) ==
  /\ MayUse(r) /\ HasRoom(1) /\ SomeRefFree
  /\ CarefulHost => ~Missed(Internal(r))
  /\ \E answer \in GetNext(r, names) :
       /\ gs_sJsonHandleTable' = answer.table
       /\ objects' = answer.objects
       /\ Returns(answer.err, TellsOf(r, names, answer))
       /\ Crashes(answer)
  /\ UNCHANGED loop

(* Mutant: the count of remaining tokens is not reset.                      *)
RestartKeepsCount(r) ==
  LET h == objects[r].hJson
  IN  /\ MayUse(r) /\ IsWalkable(Internal(r).type)
      /\ CarefulHost => Internal(r).state # "NOT_STARTED"
      /\ gs_sJsonHandleTable' =
           [Table EXCEPT !.pEntries[h] = [@ EXCEPT !.idx = 0, !.state = "START"]]
      /\ Returns("NO_ERROR", [Told("restarted") EXCEPT !.ref = r])
      /\ UNCHANGED <<objects, loop, phase>>

(* JsonRestartParsing does not parse: a container that was not read before  *)
(* is taken for one with tokens.                                            *)
JsonRestartParsing(r) ==
  LET h == objects[r].hJson
  IN  /\ MayUse(r) /\ IsWalkable(Internal(r).type)
      /\ CarefulHost => Internal(r).state # "NOT_STARTED"
      /\ gs_sJsonHandleTable' =
           [Table EXCEPT !.pEntries[h] = [@ EXCEPT !.idx = 0, !.rem = 1, !.state = "START"]]
      /\ Returns("NO_ERROR", [Told("restarted") EXCEPT !.ref = r])
      /\ UNCHANGED <<objects, loop, phase>>

RestartRefused(r) ==
  /\ MayUse(r) /\ ~IsWalkable(Internal(r).type)
  /\ Returns("INVALID_JSON_FILE", [Told("refused") EXCEPT !.ref = r])
  /\ UNCHANGED <<gs_sJsonHandleTable, objects, loop, phase>>

(* JsonReleaseObject *)
JsonReleaseObject(r) ==
  /\ MayUse(r)
  /\ gs_sJsonHandleTable' = Released(Table, objects[r].hJson)
  /\ objects' = [objects EXCEPT ![r] = NoObject]
  /\ Returns("NO_ERROR", [Told("released") EXCEPT !.ref = r])
  /\ UNCHANGED <<loop, phase>>

-----------------------------------------------------------------------------
(* The loops. request is Null for JsonForeachElement; for the other loop it *)
(* says whether unknown elements are allowed and gives, for each key in     *)
(* keys, the type it must have and whether it must be there. The callback   *)
(* of an element runs while loop.elem is set.                               *)
Started(r, request) ==
  [ref |-> r, request |-> request, elem |-> Null, count |-> 0, found |-> {},
   from |-> Passed(Internal(r))]

(* JsonForeachElement takes both kinds of containers, the other loop objects.*)
Loopable(r, request) ==
  IsWalkable(objects[r].type) /\ (request # Null => objects[r].type = "Object")

ForeachStart(r, request) ==
  /\ ~Looping /\ MayUse(r) /\ SomeRefFree
  /\ Loopable(r, request)
  /\ CarefulHost => ~Missed(Internal(r))
  /\ loop' = Started(r, request)
  /\ Returns(gs_dwJsonLastError, [Told("looping") EXCEPT !.ref = r])
  /\ UNCHANGED <<gs_sJsonHandleTable, objects, phase>>

ForeachRefused(r, request) ==
  /\ ~Looping /\ MayUse(r)
  /\ ~Loopable(r, request)
  /\ Returns("INVALID_PARAMETER", [kind |-> "noloop", ref |-> r, names |-> {},
                                   element |-> Null, requested |-> request # Null])
  /\ UNCHANGED <<gs_sJsonHandleTable, objects, loop, phase>>

Requested(key) == loop.request # Null => key \in loop.request.keys
RightType(element) ==
  loop.request # Null => loop.request.type[element.key] = element.type
AllPresent == loop.request # Null => loop.request.present \subseteq loop.found

EndLoop(kind) ==
  [kind |-> kind, ref |-> loop.ref, names |-> {}, element |-> Null,
   request |-> loop.request, count |-> loop.count, from |-> loop.from]

(* One call of JsonGetNextObject by the loop, up to its callback. An unknown *)
(* element is forgotten and never released; so is one that ends the loop    *)
(* because it is unknown or of the wrong type.                              *)
Stopped(answer, err) ==
  Returns(err, [TellsOf(loop.ref, {}, answer) EXCEPT !.kind = "stopped"])

ElementToCallback(answer) ==
  /\ answer.kind = "element"
  /\ Requested(answer.element.key) /\ RightType(answer.element)
  /\ objects' = answer.objects
  /\ loop' = [loop EXCEPT !.elem = FreeRef]
  /\ Returns("NO_ERROR", TellsOf(loop.ref, {}, answer))

ElementPassed(answer) ==
  /\ answer.kind = "element" /\ ~Requested(answer.element.key) /\ loop.request.unknown
  /\ UNCHANGED <<objects, loop>>
  /\ Returns("NO_ERROR", [TellsOf(loop.ref, {}, answer) EXCEPT !.kind = "passed"])

ElementStops(answer) ==
  /\ answer.kind = "element"
  /\ UNCHANGED objects /\ loop' = NoLoop
  /\ \/ /\ ~Requested(answer.element.key) /\ ~loop.request.unknown
        /\ Stopped(answer, "INVALID_TOKEN")
     \/ /\ Requested(answer.element.key) /\ ~RightType(answer.element)
        /\ Stopped(answer, "INVALID_OBJECT_TYPE")

(* Nothing is left, or the call failed.                                     *)
NoMoreElements(answer) ==
  /\ answer.kind # "element"
  /\ UNCHANGED objects /\ loop' = NoLoop
  /\ CASE answer.kind # "none" -> Returns(answer.err, TellsOf(loop.ref, {}, answer))
       [] answer.kind = "none" /\ AllPresent -> Returns("NO_ERROR", EndLoop("looped"))
       [] OTHER -> Returns("TOKEN_NOT_FOUND", EndLoop("absent"))

ForeachNext ==
  /\ Looping /\ phase = "loaded" /\ loop.elem = Null /\ HasRoom(1) /\ SomeRefFree
  /\ \E answer \in GetNext(loop.ref, {}) :
       /\ gs_sJsonHandleTable' = answer.table
       /\ Crashes(answer)
       /\ \/ ElementToCallback(answer) \/ ElementPassed(answer)
          \/ ElementStops(answer) \/ NoMoreElements(answer)

(* The callback succeeds: the element is released and the loop goes on.     *)
CallbackSucceeds ==
  /\ Looping /\ phase = "loaded" /\ loop.elem # Null
  /\ gs_sJsonHandleTable' = Released(Table, objects[loop.elem].hJson)
  /\ objects' = [objects EXCEPT ![loop.elem] = NoObject]
  /\ loop' = [loop EXCEPT !.elem = Null, !.count = @ + 1,
                          !.found = @ \cup {objects[loop.elem].key}]
  /\ Returns("NO_ERROR", [Told("released") EXCEPT !.ref = loop.elem])
  /\ UNCHANGED phase

(* Mutant: the error of the last library call is told again.                *)
CallbackFailsSameError ==
  /\ Looping /\ phase = "loaded" /\ loop.elem # Null
  /\ gs_sJsonHandleTable' = IF loop.request = Null
                            THEN Released(Table, objects[loop.elem].hJson) ELSE Table
  /\ objects' = [objects EXCEPT ![loop.elem] = NoObject]
  /\ loop' = NoLoop
  /\ Returns("NO_ERROR", [Told("failed") EXCEPT !.ref = loop.elem])
  /\ UNCHANGED phase

(* It fails: JsonForeachElement releases the element, the other loop does   *)
(* not.                                                                     *)
CallbackFails ==
  /\ Looping /\ phase = "loaded" /\ loop.elem # Null
  /\ gs_sJsonHandleTable' = IF loop.request = Null
                            THEN Released(Table, objects[loop.elem].hJson) ELSE Table
  /\ objects' = [objects EXCEPT ![loop.elem] = NoObject]
  /\ loop' = NoLoop
  /\ Returns("UNKNOWN_TODO", [Told("failed") EXCEPT !.ref = loop.elem])
  /\ UNCHANGED phase

Next ==
  \/ JsonLibInit \/ JsonLibCleanup \/ OpenFails
  \/ \E text \in Texts : JsonOpen(text)
  \/ \E r \in Refs :
       \/ \E names \in NameSets : JsonGetNextObject(r, names)
       \/ JsonRestartParsing(r) \/ RestartRefused(r)
       \/ JsonReleaseObject(r)
       \/ \E request \in Requests \cup {Null} :
            ForeachStart(r, request) \/ ForeachRefused(r, request)
  \/ ForeachNext \/ CallbackSucceeds \/ CallbackFails

Spec == Init /\ [][Next]_vars

-----------------------------------------------------------------------------
(* Properties.                                                              *)

Handles == 0..Table.dwTableSize - 1
InternalObject == [type : {"Unknown", "Object", "Array", "Number", "Boolean"},
                   data : Seq(Chars), idx : Nat, rem : Nat, num : Nat,
                   parser : Parser, state : States]

(* The variables stay within what the C types and enumerations allow.       *)
TypeOK ==
  /\ Table.dwTableSize \in Nat /\ Table.dwEntryCount \in 0..Table.dwTableSize
  /\ Table.pEntries \in [Handles -> InternalObject \cup {NoObject}]
  /\ \A r \in Refs : ~Held(r) \/ objects[r].hJson \in Handles
  /\ phase \in {"unloaded", "loaded", "dead", "cleaned"}
  /\ Looping => loop.ref \in Refs /\ loop.elem \in Refs \cup {Null}

(* JsoniNewInternalObject decides by the count whether the scan will find a *)
(* free entry, so the count has to be exact after every call and on every   *)
(* error path.                                                              *)
EntryCountExact ==
  Table.dwEntryCount = Cardinality({h \in Handles : Table.pEntries[h] # NoObject})

(* Each public object has an internal object to itself, although entries    *)
(* are released and given out again, by the host and by loops.              *)
HandlesAreExclusive ==
  \A r \in Refs : Held(r) =>
    /\ Internal(r) # NoObject
    /\ \A s \in Refs \ {r} : Held(s) => objects[s].hJson # objects[r].hJson

(* The tokens are those of a parse with enough room from the start, however *)
(* often JsoniParseJS had to enlarge the array and resume, and each token   *)
(* counts its direct children.                                              *)
TokensAreOfText ==
  \A h \in Handles : Table.pEntries[h] # NoObject /\ Table.pEntries[h].num > 0 =>
    LET o == Table.pEntries[h]
        tokens == o.parser.tokens
        inside(i, j) == tokens[j].start <= tokens[i].start /\ tokens[i].end <= tokens[j].end
    IN  /\ o.parser = jsmn_parse(o.data, Len(o.data) + 1, jsmn_init).parser
        /\ LastOpen(tokens) = -1 =>
             \A j \in DOMAIN tokens : tokens[j].size =
               Cardinality({i \in j + 1..Len(tokens) :
                 inside(i, j) /\ \A k \in j + 1..i - 1 : ~inside(i, k)})

(* "If we found an array or an object, we need to skip to attend next       *)
(* sibling element": between two calls the tokens that remain are the       *)
(* elements (in an object, the keys and values) from the cursor on.         *)
CursorAtElement ==
  \A r \in Refs : Held(r) /\ IsWalkable(Internal(r).type) /\ Internal(r).num > 0 =>
    LET o == Internal(r)
        ahead == {i \in DirectChildren(o) : i >= o.idx}
    IN  IF o.idx = 0 THEN o.rem = 1
        ELSE /\ o.rem = Cardinality(ahead)
             /\ ahead # {} => o.idx \in ahead
             /\ o.type = "Object" => o.rem % 2 = 0

(* How a call or a loop fails, and how it succeeds.                         *)
Failures == {"nofile", "unmapped", "rejected", "refused", "noloop", "stopped",
             "absent", "failed"}
Successes == {"opened", "element", "none", "looped", "restarted", "released"}

(* gs_dwJsonLastError tells a failure from a success, after the releases of *)
(* the error paths and the callbacks of a loop too; the one failure that    *)
(* passes for a success is that of a file that cannot be opened.            *)
OnlyMissingFilesUntold ==
  /\ told.kind \in Failures
       => (gs_dwJsonLastError = "NO_ERROR" <=> told.kind = "nofile")
  /\ told.kind \in Successes => gs_dwJsonLastError = "NO_ERROR"

(* What the host has open, as JsonWalk sees it.                             *)
OpenView ==
  [r \in Refs |->
    IF ~Held(r) \/ Internal(r) = NoObject THEN NoObject
    ELSE [type |-> objects[r].type, text |-> Internal(r).data,
          passed |-> Passed(Internal(r))]]
Walk == INSTANCE JsonWalk WITH open <- OpenView, Closed <- NoObject

(* A loop that succeeds has counted each requested element from its start   *)
(* on once, whatever the callback did to other objects in between.          *)
LoopCountsEach ==
  told.kind = "looped" =>
    LET elements == Walk!Elements(Internal(told.ref).data)
    IN  told.count = Cardinality({j \in DOMAIN elements :
                       j > told.from /\ (\/ told.request = Null
                                         \/ elements[j].key \in told.request.keys)})

(* No call reads behind the tokens or follows a NULL token array.           *)
NeverCrashes == phase # "dead"

(* The calls implement JsonWalk: each container gives the elements of its   *)
(* text, in order and once, to searches and loops.                          *)
WalkImplemented == Walk!Spec

-----------------------------------------------------------------------------
(* What the walks ask of the texts. SkipJsonTokenIfNeeded starts its search *)
(* one token late and stops at the tokens only, so a cursor goes astray     *)
(* behind an empty container, and behind one that ends a full token array.  *)

(* The container of a token, as a type and a text.                          *)
ContainerOf(js, token) == <<ObjectType(token, TextOf(js, token)), TextOf(js, token)>>

(* Containers that are walked without trouble: the text parses, its root is *)
(* of the type, nothing follows the root, the search behind each container  *)
(* in it stops, none of them is empty, and they are such containers.        *)
Untroubled(W) ==
  \A w \in W :
    LET r == JsoniParseJS(w[2], jsmn_init)
        ts == r.parser.tokens
    IN  /\ r.err = "SUCCESS" /\ ts # <<>> /\ InReach(ts, r.num)
        /\ w[1] = IF ts[1].type = "OBJECT" THEN "Object" ELSE "Array"
        /\ IsContainer(ts[1])
        /\ \A i \in 2..Len(ts) :
             /\ ts[i].start < ts[1].end
             /\ IsContainer(ts[i]) => ts[i].size # 0 /\ ContainerOf(w[2], ts[i]) \in W

(* The texts that open have such a container for a root.                    *)
Roots(W) ==
  \A text \in Texts :
    LET r == JsoniParseJS(text, jsmn_init)
    IN  r.err = "SUCCESS" /\ r.parser.tokens # <<>> /\ IsContainer(r.parser.tokens[1])
        => ContainerOf(text, r.parser.tokens[1]) \in W

(* The elements of a container as its tokens tell them: the children of the *)
(* root, which in an object are keys and values in turn.                    *)
TokenElements(type, js) ==
  LET r == JsoniParseJS(js, jsmn_init)
      children == DirectChildren(r)
      child(n) == r.parser.tokens[1 + CHOOSE i \in children :
                                        Cardinality({k \in children : k < i}) = n - 1]
      Element(key, value) == LET text == TextOf(js, value)
                             IN  [key |-> key, type |-> ObjectType(value, text), text |-> text]
  IN  IF type = "Array" THEN [n \in 1..Cardinality(children) |-> Element(<<>>, child(n))]
      ELSE [n \in 1..Cardinality(children) \div 2 |->
              Element(TextOf(js, child(2 * n - 1)), child(2 * n))]

(* Keys are strings, and each has its value.                                *)
KeysAndValues(js) ==
  LET r == JsoniParseJS(js, jsmn_init)
      children == DirectChildren(r)
  IN  /\ Cardinality(children) % 2 = 0
      /\ \A i \in children : Cardinality({k \in children : k < i}) % 2 = 0
                             => r.parser.tokens[i + 1].type = "STRING"

(* The tokenizer and the grammar agree on the texts and the containers: on  *)
(* what is a document, on its root, and on the elements.                    *)
Opens(r) == r.err = "SUCCESS" /\ IsContainer(TokenAt(r.parser.tokens, r.num, 0))
GrammarAgrees(W) ==
  /\ \A text \in Texts :
       LET r == JsoniParseJS(text, jsmn_init)
       IN  /\ Opens(r) <=> Walk!IsDocument(text)
           /\ Opens(r) => ContainerOf(text, r.parser.tokens[1])
                           = <<Walk!TypeOfText(Walk!Root(text)), Walk!Root(text)>>
  /\ \A w \in W : /\ Walk!Elements(w[2]) = TokenElements(w[1], w[2])
                  /\ w[1] = "Object" => KeysAndValues(w[2])
=============================================================================
