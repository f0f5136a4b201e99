------------------------------- MODULE JsonProofs -------------------------------
(***************************************************************************)
(* Proofs about JsonLib. The table of internal objects: its count is exact,*)
(* and no two public objects share an internal one. What the objects       *)
(* contain: their tokens are those of their text, and their cursors stay   *)
(* within the C types. What the host is told: a failure with its reason.   *)
(* Where the cursors are when the host is careful: at the elements; and    *)
(* that the calls then implement JsonWalk.                                 *)
(***************************************************************************)
EXTENDS JsonLib, JsonTextProofs

-----------------------------------------------------------------------------
(* Objects.                                                                 *)

(* The tokens are those of a parse with enough room, and an object that was *)
(* not read has none.                                                       *)
ParserOk(o) ==
  /\ o.parser \in ParserIn(TokenOf(o.data))
  /\ o.state = "NOT_STARTED" => o.parser = jsmn_init
  /\ o.num > 0 => o.parser = jsmn_parse(o.data, Len(o.data) + 1, jsmn_init).parser
IsObject(o) == o \in InternalObject /\ ParserOk(o)

LEMMA ObjectFields ==
  ASSUME NEW o \in InternalObject
  PROVE  /\ o.type \in {"Unknown", "Object", "Array", "Number", "Boolean"}
         /\ o.data \in Seq(Chars) /\ o.idx \in Nat /\ o.rem \in Nat /\ o.num \in Nat
         /\ o.parser \in Parser /\ o.state \in States
BY DEF InternalObject

LEMMA ObjectIsSome ==
  ASSUME NEW o, IsObject(o)
  PROVE  o # NoObject
<1>1. NoObject.type = Null BY DEF NoObject
<1>2. o.type \in ObjectTypes BY ObjectFields DEF IsObject, ObjectTypes
<1> QED BY <1>1, <1>2, NullAssumption

LEMMA ParserOfText ==
  ASSUME NEW data \in Seq(Chars), NEW p \in ParserIn(TokenOf(data))
  PROVE  p \in Parser
BY BoundedTokens, ParserInIsParser

LEMMA InitParser ==
  ASSUME NEW data \in Seq(Chars)
  PROVE  jsmn_init \in ParserIn(TokenOf(data)) /\ jsmn_init.tokens = <<>>
<1>1. <<>> \in Seq(TokenOf(data)) OBVIOUS
<1> QED BY <1>1 DEF ParserIn, jsmn_init

(* A new object, one that was parsed and one whose cursor moved are objects.*)
LEMMA NewObjectFacts ==
  ASSUME NEW type \in {"Unknown", "Object", "Array", "Number", "Boolean"},
         NEW data \in Seq(Chars)
  PROVE  /\ IsObject(NewObject(type, data)) /\ NewObject(type, data).state = "NOT_STARTED"
         /\ NewObject(type, data).data = data
<1> DEFINE o == NewObject(type, data)
<1>1. /\ o.data = data /\ o.parser = jsmn_init /\ o.num = 0 /\ o.state = "NOT_STARTED"
  BY DEF NewObject
<1>2. jsmn_init \in ParserIn(TokenOf(data)) /\ jsmn_init \in Parser BY InitParser, ParserOfText
<1>3. o \in InternalObject BY <1>2 DEF NewObject, InternalObject, States
<1> HIDE DEF o
<1>4. ParserOk(o) BY <1>1, <1>2 DEF ParserOk
<1> QED BY <1>1, <1>3, <1>4 DEF IsObject, o

LEMMA ParsedFacts ==
  ASSUME NEW o, IsObject(o), o.state = "NOT_STARTED"
  PROVE  IsObject(Parsed(o).obj) /\ Parsed(o).obj.data = o.data
<1> DEFINE r == JsoniParseJS(o.data, o.parser)
           parser == r.parser
           num == r.num
           d == [o EXCEPT !.parser = parser, !.num = num, !.idx = 0, !.rem = 1, !.state = "START"]
           S == TokenOf(o.data)
<1>1. o \in InternalObject /\ o.data \in Seq(Chars) /\ o.parser = jsmn_init
  BY ObjectFields DEF IsObject, ParserOk
<1>2. AttemptOf(S, o.data, jsmn_init, JsoniParseJS(o.data, jsmn_init))
  BY <1>1, BoundedTokens, InitParser, ParseJSFacts
<1>3. num \in Nat /\ parser \in ParserIn(S) BY <1>1, <1>2 DEF AttemptOf
<1>4. parser = jsmn_parse(o.data, Len(o.data) + 1, jsmn_init).parser
  <2> DEFINE more == Len(o.data) + 1
  <2>1. Len(o.data) \in Nat BY <1>1, LenProperties
  <2>2. Room(o.data, jsmn_init) = Len(o.data)
    <3>1. jsmn_init.tokens = <<>> /\ jsmn_init.pos = 0 BY DEF jsmn_init
    <3>2. Len(jsmn_init.tokens) = 0 BY <3>1
    <3> QED BY <2>1, <3>1, <3>2 DEF Room, Ahead
  <2>3. more \in Nat /\ Room(o.data, jsmn_init) < more BY <2>1, <2>2
  <2> HIDE DEF more
  <2> QED BY <1>1, <1>2, <2>3 DEF AttemptOf, more
<1>5. Parsed(o).obj = d BY DEF Parsed
<1>6. parser \in Parser BY <1>1, <1>3, ParserOfText
<1> HIDE DEF parser, num, r
<1>7. /\ d \in InternalObject /\ d.data = o.data /\ d.parser = parser /\ d.num = num
      /\ d.state = "START"
  BY <1>1, <1>3, <1>6 DEF InternalObject, States
<1> HIDE DEF d
<1>8. ParserOk(d) BY <1>3, <1>4, <1>7 DEF ParserOk
<1> QED BY <1>5, <1>7, <1>8 DEF IsObject

LEMMA BrowsedFacts ==
  ASSUME NEW o, IsObject(o), NEW names
  PROVE  LET b == JsoniBrowseJsonFile(o, names) IN
         /\ IsObject(b.obj) /\ b.obj.data = o.data /\ b.err \in Errors
         /\ b.token \in TokenOf(o.data) \cup Blanks
<1> DEFINE b == JsoniBrowseJsonFile(o, names)
           end == EndOfWalk(o, names)
           state == end.state
           idx == end.idx
           rem == end.rem
           found == [o EXCEPT !.state = state, !.idx = idx, !.rem = rem]
           lost == [o EXCEPT !.state = state]
<1>1. o \in InternalObject /\ Readable(o) /\ o.idx \in Nat /\ o.rem \in Nat /\ o.state \in States
  BY ObjectFields DEF IsObject, ParserOk, Readable
<1>2. /\ b.err \in Errors /\ b.obj = CursorAfter(o, end)
      /\ idx \in Nat /\ rem \in Nat /\ state \in States
      /\ state = "NOT_STARTED" => o.state = "NOT_STARTED"
      /\ b.token \in TokenOf(o.data) \cup Blanks
  BY <1>1, BrowseFacts
<1>3. b.obj = found \/ b.obj = lost BY <1>2 DEF CursorAfter
<1> HIDE DEF b, end, state, idx, rem
<1>4. /\ found \in InternalObject /\ found.data = o.data /\ found.parser = o.parser
      /\ found.num = o.num /\ found.state = state
  BY <1>1, <1>2 DEF InternalObject
<1>5. /\ lost \in InternalObject /\ lost.data = o.data /\ lost.parser = o.parser
      /\ lost.num = o.num /\ lost.state = state
  BY <1>1, <1>2 DEF InternalObject
<1> HIDE DEF found, lost
<1>6. ParserOk(o) BY DEF IsObject
<1>7. ParserOk(found) BY <1>2, <1>4, <1>6 DEF ParserOk
<1>8. ParserOk(lost) BY <1>2, <1>5, <1>6 DEF ParserOk
<1> QED BY <1>2, <1>3, <1>4, <1>5, <1>7, <1>8 DEF IsObject, b

(* The child of an object has a type.                                       *)
LEMMA ChildFacts ==
  ASSUME NEW o, o.data \in Seq(Chars), NEW token \in TokenOf(o.data) \cup Blanks
  PROVE  /\ ChildOf(o, token).public.type \in ObjectTypes
         /\ IsObject(ChildOf(o, token).internal)
<1> DEFINE text == TextOf(o.data, token)  type == ObjectType(token, text)
<1>1. type \in {"Object", "Array", "Number", "Boolean", "String"} BY DEF ObjectType
<1>2. InternalType(type) \in {"Unknown", "Object", "Array", "Number", "Boolean"}
  BY <1>1 DEF InternalType
<1>3. /\ ChildOf(o, token).public.type = type
      /\ ChildOf(o, token).internal = NewObject(InternalType(type), text)
  BY DEF ChildOf
<1>4. text \in Seq(Chars) BY TextOfFacts
<1> HIDE DEF text, type
<1>5. type \in ObjectTypes BY <1>1 DEF ObjectTypes
<1> QED BY <1>2, <1>3, <1>4, <1>5, NewObjectFacts

-----------------------------------------------------------------------------
(* The table.                                                               *)

Used(t) == {h \in DOMAIN t.pEntries : t.pEntries[h] # NoObject}
TableOk(t) ==
  /\ DOMAIN t = {"dwTableSize", "dwEntryCount", "pEntries"}
  /\ t.dwTableSize \in Nat /\ DOMAIN t.pEntries = 0..t.dwTableSize - 1
  /\ t.pEntries = [h \in DOMAIN t.pEntries |-> t.pEntries[h]]
  /\ \A h \in Used(t) : IsObject(t.pEntries[h])
  /\ t.dwEntryCount = Cardinality(Used(t))

LEMMA UsedIsFinite ==
  ASSUME NEW t, TableOk(t)
  PROVE  IsFiniteSet(Used(t)) /\ Cardinality(Used(t)) \in Nat
<1>1. IsFiniteSet(0..t.dwTableSize - 1) BY FS_Interval DEF TableOk
<1>2. Used(t) \subseteq 0..t.dwTableSize - 1 BY DEF Used, TableOk
<1> QED BY <1>1, <1>2, FS_Subset, FS_CardinalityType

(* A table that grows has the same objects.                                 *)
LEMMA ExtendedFacts ==
  ASSUME NEW t, TableOk(t), NEW u, u = Extended(t)
  PROVE  /\ TableOk(u) /\ Used(u) = Used(t)
         /\ DOMAIN t.pEntries \subseteq DOMAIN u.pEntries
         /\ \A h \in DOMAIN t.pEntries : u.pEntries[h] = t.pEntries[h]
         /\ u.dwTableSize > t.dwTableSize /\ u.dwEntryCount = t.dwEntryCount
<1> DEFINE size == t.dwTableSize + HandleTableDelta
           entries == [i \in 0..size - 1 |->
                         IF i < t.dwTableSize THEN t.pEntries[i] ELSE NoObject]
<1>1. t.dwTableSize \in Nat /\ size \in Nat /\ size > t.dwTableSize
  BY DeltaAssumption DEF TableOk
<1>2. /\ DOMAIN u = DOMAIN t /\ u.dwTableSize = size /\ u.pEntries = entries
      /\ u.dwEntryCount = t.dwEntryCount
  BY DEF Extended, TableOk
<1>3. DOMAIN t.pEntries = 0..t.dwTableSize - 1 BY DEF TableOk
<1>4. /\ DOMAIN entries = 0..size - 1
      /\ DOMAIN t.pEntries \subseteq DOMAIN entries
      /\ \A h \in DOMAIN t.pEntries : entries[h] = t.pEntries[h]
      /\ \A h \in DOMAIN entries : h \notin DOMAIN t.pEntries => entries[h] = NoObject
      /\ entries = [h \in DOMAIN entries |-> entries[h]]
  BY <1>1, <1>3
<1> HIDE DEF entries, size
<1>5. Used(u) = Used(t) BY <1>2, <1>4 DEF Used
<1>6. TableOk(u) BY <1>1, <1>2, <1>4, <1>5 DEF TableOk, Used
<1> QED BY <1>1, <1>2, <1>4, <1>5, <1>6

(* Since the count is exact, a table with room has a free entry where the   *)
(* scan stops.                                                              *)
LEMMA FreeHandleFacts ==
  ASSUME NEW t, TableOk(t), t.dwEntryCount # t.dwTableSize
  PROVE  FreeHandle(t) \in DOMAIN t.pEntries /\ t.pEntries[FreeHandle(t)] = NoObject
<1> DEFINE n == t.dwTableSize
           Stops(i) == i = n \/ t.pEntries[i] = NoObject
           T == {i \in 0..n : Stops(i)}
<1>1. n \in Nat /\ DOMAIN t.pEntries = 0..n - 1 BY DEF TableOk
<1>2. \E i \in 0..n : Stops(i) /\ \A j \in 0..i - 1 : t.pEntries[j] # NoObject
  <2>1. T \subseteq Nat /\ n \in T BY <1>1
  <2>2. PICK i \in T : \A j \in T : i <= j
    <3> HIDE DEF T
    <3> QED BY <2>1, LeastOfNat
  <2>3. \A j \in 0..i - 1 : j \in 0..n /\ ~(i <= j) BY <1>1, <2>2
  <2> QED BY <2>2, <2>3
<1>3. /\ FreeHandle(t) \in 0..n /\ Stops(FreeHandle(t))
      /\ \A j \in 0..FreeHandle(t) - 1 : t.pEntries[j] # NoObject
  BY <1>2 DEF FreeHandle
<1>4. ASSUME FreeHandle(t) = n PROVE FALSE
  <2>1. \A j \in 0..n - 1 : t.pEntries[j] # NoObject BY <1>3, <1>4
  <2>2. Used(t) = 0..n - 1 BY <1>1, <2>1 DEF Used
  <2>3. Cardinality(0..n - 1) = n
    <3>1. 0 \in Int /\ n - 1 \in Int BY <1>1
    <3>2. Cardinality(0..n - 1) = IF 0 > n - 1 THEN 0 ELSE (n - 1) - 0 + 1
      BY <3>1, FS_Interval
    <3> QED BY <1>1, <3>2
  <2> QED BY <2>2, <2>3 DEF TableOk
<1> QED BY <1>1, <1>3, <1>4

(* A new object takes an entry that was free, and no other entry changes.   *)
LEMMA NewInternalObjectFacts ==
  ASSUME NEW t, TableOk(t), NEW o, IsObject(o),
         NEW u, u = JsoniNewInternalObject(t, o), NEW h, h = NewHandle(t)
  PROVE  /\ TableOk(u) /\ h \in Used(u) /\ h \notin Used(t)
         /\ Used(u) = Used(t) \cup {h}
         /\ u.pEntries[h] = o /\ \A k \in Used(t) : u.pEntries[k] = t.pEntries[k]
<1> DEFINE v == Roomy(t)
<1>1. /\ TableOk(v) /\ Used(v) = Used(t) /\ v.dwEntryCount # v.dwTableSize
      /\ \A k \in Used(t) : v.pEntries[k] = t.pEntries[k]
  <2>1. CASE t.dwEntryCount = t.dwTableSize
    <3>1. v = Extended(t) BY <2>1 DEF Roomy
    <3> HIDE DEF v
    <3>2. /\ TableOk(v) /\ Used(v) = Used(t) /\ v.dwTableSize > t.dwTableSize
          /\ v.dwEntryCount = t.dwEntryCount
          /\ \A k \in DOMAIN t.pEntries : v.pEntries[k] = t.pEntries[k]
      BY <3>1, ExtendedFacts
    <3>3. v.dwTableSize \in Nat /\ t.dwTableSize \in Nat BY <3>2 DEF TableOk
    <3> QED BY <2>1, <3>2, <3>3 DEF Used
  <2>2. CASE t.dwEntryCount # t.dwTableSize
    <3>1. v = t BY <2>2 DEF Roomy
    <3> QED BY <2>2, <3>1
  <2> QED BY <2>1, <2>2
<1>2. h = FreeHandle(v) /\ u = [v EXCEPT !.pEntries[h] = o, !.dwEntryCount = @ + 1]
  BY DEF NewHandle, JsoniNewInternalObject
<1> HIDE DEF v
<1>3. h \in DOMAIN v.pEntries /\ v.pEntries[h] = NoObject BY <1>1, <1>2, FreeHandleFacts
<1>4. /\ DOMAIN u = DOMAIN v /\ u.dwTableSize = v.dwTableSize
      /\ u.dwEntryCount = v.dwEntryCount + 1
      /\ u.pEntries = [v.pEntries EXCEPT ![h] = o]
  BY <1>1, <1>2 DEF TableOk
<1>5. o # NoObject BY ObjectIsSome
<1>6. Used(u) = Used(v) \cup {h} /\ h \notin Used(v)
      /\ \A k \in Used(v) : u.pEntries[k] = v.pEntries[k]
  BY <1>3, <1>4, <1>5 DEF Used
<1>7. Cardinality(Used(u)) = Cardinality(Used(v)) + 1
  <2>1. IsFiniteSet(Used(v)) BY <1>1, UsedIsFinite
  <2> QED BY <1>6, <2>1, FS_AddElement
<1>8. \A k \in Used(u) : IsObject(u.pEntries[k])
  BY <1>1, <1>3, <1>4, <1>6 DEF TableOk
<1>9. TableOk(u) BY <1>1, <1>4, <1>7, <1>8 DEF TableOk
<1>10. u.pEntries[h] = o BY <1>3, <1>4
<1> QED BY <1>1, <1>6, <1>9, <1>10

(* An object that is released leaves its entry free.                        *)
LEMMA ReleasedFacts ==
  ASSUME NEW t, TableOk(t), NEW h \in Used(t), NEW u, u = Released(t, h)
  PROVE  /\ TableOk(u) /\ Used(u) = Used(t) \ {h}
         /\ \A k \in Used(u) : u.pEntries[k] = t.pEntries[k]
<1>1. /\ DOMAIN u = DOMAIN t /\ u.dwTableSize = t.dwTableSize
      /\ u.dwEntryCount = t.dwEntryCount - 1
      /\ u.pEntries = [t.pEntries EXCEPT ![h] = NoObject]
  BY DEF Released, TableOk
<1>2. /\ Used(u) = Used(t) \ {h}
      /\ \A k \in Used(u) : u.pEntries[k] = t.pEntries[k]
  BY <1>1 DEF Used
<1>3. Cardinality(Used(u)) = Cardinality(Used(t)) - 1
  BY <1>2, UsedIsFinite, FS_RemoveElement
<1>4. TableOk(u) BY <1>1, <1>2, <1>3 DEF TableOk
<1> QED BY <1>2, <1>4

(* An object may be replaced by another.                                    *)
LEMMA ReplacedFacts ==
  ASSUME NEW t, TableOk(t), NEW h \in Used(t), NEW o, IsObject(o),
         NEW u, u = [t EXCEPT !.pEntries[h] = o]
  PROVE  TableOk(u) /\ Used(u) = Used(t)
<1>1. /\ DOMAIN u = DOMAIN t /\ u.dwTableSize = t.dwTableSize
      /\ u.dwEntryCount = t.dwEntryCount
      /\ u.pEntries = [t.pEntries EXCEPT ![h] = o]
  BY DEF TableOk
<1>2. o # NoObject BY ObjectIsSome
<1>3. Used(u) = Used(t) BY <1>1, <1>2 DEF Used
<1>4. \A k \in Used(u) : IsObject(u.pEntries[k]) BY <1>1, <1>3 DEF TableOk, Used
<1> QED BY <1>1, <1>3, <1>4 DEF TableOk

-----------------------------------------------------------------------------
(* Who holds what.                                                          *)

HoldersOk(os, t) ==
  /\ DOMAIN os = Refs
  /\ \A r \in Refs : os[r] # NoObject =>
       /\ os[r].hJson \in Used(t)
       /\ \A s \in Refs \ {r} : os[s] # NoObject => os[s].hJson # os[r].hJson
LoopOk(l, os) ==
  l # NoLoop =>
    /\ DOMAIN l = {"ref", "request", "elem", "count", "found", "from"}
    /\ l.ref \in Refs /\ os[l.ref] # NoObject
    /\ l.elem # Null => l.elem \in Refs /\ l.elem # l.ref /\ os[l.elem] # NoObject
TableInv == TableOk(Table) /\ HoldersOk(objects, Table) /\ LoopOk(loop, objects)

LEMMA HoldersStay ==
  ASSUME NEW os, NEW t, HoldersOk(os, t), NEW u, Used(t) \subseteq Used(u)
  PROVE  HoldersOk(os, u)
BY DEF HoldersOk

LEMMA HoldsOneMore ==
  ASSUME NEW os, NEW t, HoldersOk(os, t), NEW u, Used(t) \subseteq Used(u),
         NEW f \in Refs, os[f] = NoObject, NEW p, p.hJson \in Used(u) \ Used(t)
  PROVE  HoldersOk([os EXCEPT ![f] = p], u)
<1> DEFINE n == [os EXCEPT ![f] = p]
<1>1. DOMAIN n = Refs /\ n[f] = p /\ \A r \in Refs \ {f} : n[r] = os[r]
  BY DEF HoldersOk
<1> HIDE DEF n
<1>2. ASSUME NEW r \in Refs, n[r] # NoObject PROVE n[r].hJson \in Used(u)
  BY <1>1, <1>2 DEF HoldersOk
<1>3. ASSUME NEW r \in Refs, n[r] # NoObject, NEW s \in Refs \ {r}, n[s] # NoObject
      PROVE  n[s].hJson # n[r].hJson
  BY <1>1, <1>3 DEF HoldersOk
<1> QED BY <1>1, <1>2, <1>3 DEF HoldersOk, n

LEMMA HoldsOneLess ==
  ASSUME NEW os, NEW t, HoldersOk(os, t), NEW u, NEW f \in Refs, os[f] # NoObject,
         Used(t) \ {os[f].hJson} \subseteq Used(u)
  PROVE  HoldersOk([os EXCEPT ![f] = NoObject], u)
<1> DEFINE n == [os EXCEPT ![f] = NoObject]
<1>1. DOMAIN n = Refs /\ n[f] = NoObject /\ \A r \in Refs \ {f} : n[r] = os[r]
  BY DEF HoldersOk
<1> HIDE DEF n
<1> QED BY <1>1 DEF HoldersOk, n

(* What the host has free is free.                                          *)
LEMMA FreeRefFacts ==
  ASSUME SomeRefFree
  PROVE  FreeRef \in Refs /\ objects[FreeRef] = NoObject
BY DEF SomeRefFree, FreeRef, Held

(* A held variable has an internal object.                                  *)
LEMMA InternalFacts ==
  ASSUME TableInv, NEW r \in Refs, Held(r)
  PROVE  /\ objects[r].hJson \in Used(Table)
         /\ IsObject(Internal(r)) /\ Internal(r) # NoObject
BY DEF TableInv, HoldersOk, TableOk, Held, Internal, Used

(* The answers of JsonGetNextObjectW: with an element comes a new object,   *)
(* and on every other path no entry is taken or given up. A call that is    *)
(* refused has an error, one that is answered has none.                     *)
ToldAs(kind, err) ==
  /\ kind \in {"refused", "none", "crashed", "element"}
  /\ kind = "refused" => err # "NO_ERROR"
  /\ kind \in {"none", "element"} => err = "NO_ERROR"
Answered(a) ==
  /\ ToldAs(a.kind, a.err)
  /\ TableOk(a.table)
  /\ a.kind # "element" => a.objects = objects /\ Used(a.table) = Used(Table)
  /\ a.kind = "element" => \E p :
       /\ a.objects = [objects EXCEPT ![FreeRef] = p] /\ p # NoObject
       /\ p.hJson \in Used(a.table) \ Used(Table)
       /\ Used(Table) \subseteq Used(a.table)

LEMMA AnswerFromFacts ==
  ASSUME TableInv, NEW r \in Refs, Held(r), NEW p, IsObject(p.obj),
         NEW b, IsObject(b.obj), b.err \in Errors, b.token \in TokenOf(b.obj.data) \cup Blanks
  PROVE  Answered(AnswerFrom(r, p, b))
<1> DEFINE a == AnswerFrom(r, p, b)
           with(o) == [Table EXCEPT !.pEntries[objects[r].hJson] = o]
           answer(table, err, kind) == [table |-> table, objects |-> objects,
                                        element |-> Null, err |-> err, kind |-> kind]
           child == ChildOf(b.obj, b.token)
           table == JsoniNewInternalObject(with(b.obj), child.internal)
           public == [type |-> child.public.type, key |-> b.key,
                      text |-> child.public.text, hJson |-> NewHandle(with(b.obj))]
           element == [type |-> child.public.type, key |-> b.key, text |-> child.public.text]
           found == [answer(table, "NO_ERROR", "element")
                       EXCEPT !.element = element, !.objects[FreeRef] = public]
<1>1. TableOk(Table) /\ objects[r].hJson \in Used(Table)
  BY InternalFacts DEF TableInv
<1>2. ASSUME NEW o, IsObject(o)
      PROVE  TableOk(with(o)) /\ Used(with(o)) = Used(Table)
  <2> DEFINE t == Table  h == objects[r].hJson  u == [t EXCEPT !.pEntries[h] = o]
  <2>1. TableOk(t) /\ h \in Used(t) BY <1>1
  <2>2. u = [t EXCEPT !.pEntries[h] = o] OBVIOUS
  <2> HIDE DEF t, h, u
  <2>3. TableOk(u) /\ Used(u) = Used(t) BY <1>2, <2>1, <2>2, ReplacedFacts
  <2> QED BY <2>3 DEF t, h, u
<1>3. \/ \E t, err, kind : /\ a = answer(t, err, kind) /\ kind # "element"
                           /\ t \in {Table, with(p.obj), with(b.obj)} /\ ToldAs(kind, err)
      \/ a = found
  <2>1. a = IF ~IsWalkable(p.obj.type) THEN answer(Table, "INVALID_JSON_FILE", "refused")
            ELSE IF p.err # "NO_ERROR" THEN answer(with(p.obj), p.err, "refused")
            ELSE IF p.obj.rem = 0 THEN answer(Table, "NO_ERROR", "none")
            ELSE IF p.obj.num = 0 \/ b.err = "WILD" THEN answer(Table, "NO_ERROR", "crashed")
            ELSE CASE b.err = "TOKEN_NOT_FOUND" -> answer(with(b.obj), "NO_ERROR", "none")
                   [] b.err = "SUCCESS" -> found
                   [] OTHER -> answer(with(b.obj), b.err, "refused")
    BY DEF AnswerFrom
  <2>2. b.err # "NO_ERROR" BY DEF Errors
  <2> HIDE DEF a, with, answer, found
  <2>3. \/ a = answer(Table, "INVALID_JSON_FILE", "refused")
        \/ p.err # "NO_ERROR" /\ a = answer(with(p.obj), p.err, "refused")
        \/ a = answer(Table, "NO_ERROR", "none")
        \/ a = answer(Table, "NO_ERROR", "crashed")
        \/ a = answer(with(b.obj), "NO_ERROR", "none")
        \/ a = found
        \/ a = answer(with(b.obj), b.err, "refused")
    BY <2>1
  <2>4. /\ ToldAs("refused", "INVALID_JSON_FILE") /\ ToldAs("none", "NO_ERROR")
        /\ ToldAs("crashed", "NO_ERROR") /\ ToldAs("refused", b.err)
        /\ p.err # "NO_ERROR" => ToldAs("refused", p.err)
    BY <2>2 DEF ToldAs
  <2>5. {"refused", "none", "crashed"} \cap {"element"} = {} OBVIOUS
  <2> QED BY <2>3, <2>4, <2>5
<1>4. ASSUME NEW t \in {Table, with(p.obj), with(b.obj)}, NEW err, NEW kind,
             kind # "element", a = answer(t, err, kind), ToldAs(kind, err)
      PROVE  Answered(a)
  <2>1. TableOk(t) /\ Used(t) = Used(Table) BY <1>1, <1>2, <1>4
  <2>2. a.table = t /\ a.objects = objects /\ a.kind = kind /\ a.err = err BY <1>4
  <2> HIDE DEF a
  <2> QED BY <1>4, <2>1, <2>2 DEF Answered
<1>5. ASSUME a = found PROVE Answered(a)
  <2> DEFINE t == with(b.obj)  o == child.internal  h == NewHandle(t)
  <2>1. TableOk(t) /\ Used(t) = Used(Table) BY <1>2
  <2>2. IsObject(o) /\ child.public.type \in ObjectTypes
    BY ObjectFields, ChildFacts DEF IsObject
  <2>3. table = JsoniNewInternalObject(t, o) /\ h = NewHandle(t) /\ public.hJson = h
        /\ public.type = child.public.type
    OBVIOUS
  <2>4. /\ found.table = table /\ found.kind = "element" /\ found.err = "NO_ERROR"
        /\ found.objects = [objects EXCEPT ![FreeRef] = public]
    OBVIOUS
  <2>5. public # NoObject
    <3>1. NoObject.type = Null BY DEF NoObject
    <3> HIDE DEF public, child
    <3> QED BY <2>2, <2>3, <3>1, NullAssumption
  <2> HIDE DEF t, o, h, table, found, public, child, a
  <2>6. TableOk(table) /\ h \in Used(table) /\ h \notin Used(t)
        /\ Used(table) = Used(t) \cup {h}
    BY <2>1, <2>2, <2>3, NewInternalObjectFacts
  <2>7. ToldAs("element", "NO_ERROR") BY DEF ToldAs
  <2> QED BY <1>5, <2>1, <2>3, <2>4, <2>5, <2>6, <2>7 DEF Answered
<1> QED BY <1>3, <1>4, <1>5

LEMMA AnswerFacts ==
  ASSUME TableInv, NEW r \in Refs, Held(r), NEW names, NEW a \in GetNext(r, names)
  PROVE  Answered(a)
<1> DEFINE p == Prepared(Internal(r))  b == JsoniBrowseJsonFile(p.obj, names)
<1>1. a = AnswerFrom(r, p, b) BY DEF GetNext
<1>2. IsObject(Internal(r)) BY InternalFacts
<1>3. IsObject(p.obj)
  <2>1. \/ p = Parsed(Internal(r)) /\ Internal(r).state = "NOT_STARTED"
        \/ p.obj = Internal(r)
    BY DEF Prepared
  <2> QED BY <1>2, <2>1, ParsedFacts
<1> HIDE DEF p
<1>4. IsObject(b.obj) /\ b.err \in Errors /\ b.token \in TokenOf(b.obj.data) \cup Blanks
  BY <1>3, BrowsedFacts
<1> HIDE DEF b
<1> QED BY <1>1, <1>3, <1>4, AnswerFromFacts

-----------------------------------------------------------------------------
(* Every step keeps the table and its holders.                              *)

(* A loop is an object that is not NoLoop.                                  *)
LEMMA LoopFacts ==
  ASSUME TableInv, Looping
  PROVE  /\ DOMAIN loop = {"ref", "request", "elem", "count", "found", "from"}
         /\ loop.ref \in Refs /\ Held(loop.ref)
         /\ loop.elem # Null => loop.elem \in Refs /\ loop.elem # loop.ref /\ Held(loop.elem)
BY DEF TableInv, LoopOk, Looping, Held

LEMMA InitTable == Init => TableInv
<1> SUFFICES ASSUME Init PROVE TableInv
  OBVIOUS
<1>1. /\ DOMAIN Table = {"dwTableSize", "dwEntryCount", "pEntries"}
      /\ Table.dwTableSize = 0 /\ Table.dwEntryCount = 0
      /\ DOMAIN Table.pEntries = {}
      /\ Table.pEntries = [h \in DOMAIN Table.pEntries |-> Table.pEntries[h]]
  BY DEF Init, Table
<1>2. Used(Table) = {} BY <1>1 DEF Used
<1>3. 0 = Cardinality(Used(Table)) BY <1>2, FS_EmptySet
<1>4. 0..0 - 1 = {} /\ 0 \in Nat OBVIOUS
<1>5. TableOk(Table) BY <1>1, <1>2, <1>3, <1>4 DEF TableOk
<1>6. HoldersOk(objects, Table) BY DEF Init, HoldersOk
<1>7. LoopOk(loop, objects) BY DEF Init, LoopOk
<1> QED BY <1>5, <1>6, <1>7 DEF TableInv

(* Calls that change neither the table nor an object.                       *)
LEMMA SameTable ==
  ASSUME TableInv, UNCHANGED <<gs_sJsonHandleTable, objects>>, LoopOk(loop, objects)'
  PROVE  TableInv'
BY DEF TableInv, Table, TableOk, HoldersOk, Used

LEMMA OtherCallsTable ==
  ASSUME TableInv, NEW r \in Refs,
         \/ JsonLibInit \/ RestartRefused(r)
         \/ \E request \in Requests \cup {Null} :
              ForeachStart(r, request) \/ ForeachRefused(r, request)
  PROVE  TableInv'
<1>1. UNCHANGED <<gs_sJsonHandleTable, objects>>
  BY DEF JsonLibInit, RestartRefused, ForeachRefused, ForeachStart
<1>2. CASE UNCHANGED loop
  <2>1. LoopOk(loop, objects)' BY <1>1, <1>2 DEF TableInv, LoopOk
  <2> QED BY <1>1, <2>1, SameTable
<1>3. ASSUME NEW request, ForeachStart(r, request) PROVE TableInv'
  <2>1. loop' = Started(r, request) /\ objects[r] # NoObject
    BY <1>3 DEF ForeachStart, MayUse, Held
  <2>2. /\ DOMAIN loop' = {"ref", "request", "elem", "count", "found", "from"}
        /\ loop'.ref = r /\ loop'.elem = Null
    BY <2>1 DEF Started
  <2>3. LoopOk(loop, objects)' BY <1>1, <2>1, <2>2 DEF LoopOk
  <2> QED BY <1>1, <2>3, SameTable
<1> QED BY <1>2, <1>3 DEF JsonLibInit, RestartRefused, ForeachRefused

LEMMA CleanupTable ==
  ASSUME TableInv, JsonLibCleanup
  PROVE  TableInv'
<1>1. /\ objects' = [r \in Refs |-> NoObject] /\ loop' = NoLoop
      /\ UNCHANGED gs_sJsonHandleTable
  BY DEF JsonLibCleanup, Looping
<1>2. TableOk(Table)' BY <1>1 DEF TableInv, Table, TableOk, Used
<1>3. HoldersOk(objects, Table)' BY <1>1 DEF HoldersOk
<1>4. LoopOk(loop, objects)' BY <1>1 DEF LoopOk
<1> QED BY <1>2, <1>3, <1>4 DEF TableInv

(* A loop that goes on while nothing that it uses is given up.              *)
LEMMA LoopStays ==
  ASSUME TableInv, UNCHANGED loop,
         \A r \in Refs : Looping /\ r \in {loop.ref, loop.elem} /\ Held(r) => objects'[r] # NoObject
  PROVE  LoopOk(loop, objects)'
BY DEF TableInv, LoopOk, Looping, Held

(* A text that opens has a root token.                                      *)
LEMMA RootTokenFacts ==
  ASSUME NEW root, root.obj.parser \in ParserIn(TokenOf(root.obj.data)),
         OpenError(root) = "NO_ERROR"
  PROVE  root.obj.parser.tokens[1] \in TokenOf(root.obj.data)
<1> DEFINE p == root.obj.parser
           js == root.obj.data
           num == root.obj.num
           first == 0
           token == TokenAt(p.tokens, num, first)
<1>1. IsContainer(token) BY DEF OpenError
<1>2. p \in ParserIn(TokenOf(js)) /\ first \in Nat OBVIOUS
<1>3. first < Len(p.tokens)
  <2> SUFFICES ASSUME ~(first < Len(p.tokens)) PROVE FALSE OBVIOUS
  <2> HIDE DEF p, js, num, first
  <2>1. token.type = "PRIMITIVE" BY <1>2, TokenAtFacts
  <2> QED BY <1>1, <2>1 DEF IsContainer
<1> HIDE DEF p, js
<1>4. 1 \in 1..Len(p.tokens) BY <1>2, <1>3, ParserFields
<1>5. p.tokens[1] \in TokenOf(js) BY <1>2, <1>4, ParserFields
<1> QED BY <1>5 DEF p, js

LEMMA OpenTable ==
  ASSUME TableInv, OpenFails \/ \E text \in Texts : JsonOpen(text)
  PROVE  TableInv'
<1> DEFINE t == Table
<1>1. TableOk(t) /\ HoldersOk(objects, t) BY DEF TableInv
<1>2. ASSUME NEW o, IsObject(o), gs_sJsonHandleTable' = JsoniNewInternalObject(t, o),
             UNCHANGED <<objects, loop>>
      PROVE  TableInv'
  <2> DEFINE u == gs_sJsonHandleTable'
  <2>1. Table' = u BY DEF Table
  <2> HIDE DEF t, u
  <2>2. TableOk(u) /\ Used(t) \subseteq Used(u)
    BY <1>1, <1>2, NewInternalObjectFacts DEF u
  <2>3. HoldersOk(objects', u) BY <1>1, <1>2, <2>2, HoldersStay
  <2>4. LoopOk(loop, objects)' BY <1>2, LoopStays DEF Held
  <2> QED BY <2>1, <2>2, <2>3, <2>4 DEF TableInv, TableOk, HoldersOk, Used
<1>3. CASE OpenFails
  <2>1. IsObject(NewObject("Unknown", <<>>))
    <3>1. <<>> \in Seq(Chars) OBVIOUS
    <3> QED BY <3>1, NewObjectFacts
  <2> QED BY <1>2, <1>3, <2>1 DEF OpenFails
<1>4. ASSUME NEW text \in Texts, JsonOpen(text) PROVE TableInv'
  <2> DEFINE new == NewObject("Unknown", text)  root == Parsed(new)  o == root.obj
             v == JsoniNewInternalObject(t, o)
  <2>1. SomeRefFree /\ UNCHANGED loop /\ (OpenSucceeds(root, v) \/ OpenRejects(root, v))
    BY <1>4 DEF JsonOpen
  <2>2. IsObject(o) /\ o.data = text /\ text \in Seq(Chars)
    <3>1. text \in Seq(Chars) BY TextsAssumption
    <3>2. IsObject(new) /\ new.state = "NOT_STARTED" /\ new.data = text BY <3>1, NewObjectFacts
    <3> HIDE DEF new
    <3> QED BY <3>1, <3>2, ParsedFacts
  <2>3. v = JsoniNewInternalObject(t, o) OBVIOUS
  <2> HIDE DEF o, v
  <2>4. TableOk(v) /\ Used(t) \subseteq Used(v) BY <1>1, <2>2, <2>3, NewInternalObjectFacts
  <2>5. CASE OpenRejects(root, v)
    BY <1>2, <2>1, <2>2, <2>3, <2>5 DEF OpenRejects
  <2>6. CASE OpenSucceeds(root, v)
    <3> DEFINE child == ChildOf(root.obj, root.obj.parser.tokens[1])
               c == child.internal  h == NewHandle(v)
               u == gs_sJsonHandleTable'
               p == [type |-> child.public.type, key |-> <<>>,
                     text |-> child.public.text, hJson |-> h]
    <3>1. u = JsoniNewInternalObject(v, c) /\ objects' = [objects EXCEPT ![FreeRef] = p]
      BY <2>6 DEF OpenSucceeds
    <3>2. IsObject(c)
      <4>1. root.obj.data \in Seq(Chars) /\ root.obj.parser \in ParserIn(TokenOf(root.obj.data))
        BY <2>2 DEF o, IsObject, ParserOk
      <4> HIDE DEF root, o
      <4>2. root.obj.parser.tokens[1] \in TokenOf(root.obj.data)
        BY <2>6, <4>1, RootTokenFacts DEF OpenSucceeds
      <4> QED BY <4>1, <4>2, ChildFacts
    <3>3. p.hJson = h /\ h = NewHandle(v) /\ Table' = u BY DEF Table
    <3> HIDE DEF u, c, h, p, t, child, root
    <3>4. TableOk(u) /\ h \in Used(u) /\ h \notin Used(v) /\ Used(v) \subseteq Used(u)
      BY <2>4, <3>1, <3>2, <3>3, NewInternalObjectFacts
    <3>5. Used(t) \subseteq Used(u) /\ p.hJson \in Used(u) \ Used(t)
      BY <2>4, <3>3, <3>4
    <3>6. HoldersOk(objects', u)
      BY <1>1, <2>1, <3>1, <3>5, FreeRefFacts, HoldsOneMore
    <3>7. LoopOk(loop, objects)'
      <4>1. \A r \in Refs : Held(r) => objects'[r] = objects[r]
        BY <1>1, <2>1, <3>1, FreeRefFacts DEF Held, HoldersOk
      <4> QED BY <2>1, <4>1, LoopStays DEF Held
    <3> QED BY <3>3, <3>4, <3>6, <3>7 DEF TableInv, TableOk, HoldersOk, Used
  <2> QED BY <2>1, <2>5, <2>6
<1> QED BY <1>3, <1>4

(* A call to JsonGetNextObjectW, by the host or by a loop, of which the     *)
(* element is kept or forgotten.                                            *)
LEMMA AnsweredTable ==
  ASSUME TableInv, SomeRefFree, NEW a, Answered(a), gs_sJsonHandleTable' = a.table,
         objects' = objects \/ objects' = a.objects, LoopOk(loop, objects)'
  PROVE  TableInv'
<1>1. HoldersOk(objects, Table) BY DEF TableInv
<1> DEFINE u == a.table
<1>2. Table' = u /\ TableOk(u) BY DEF Answered, Table
<1>3. Used(Table) \subseteq Used(u) BY DEF Answered
<1>4. HoldersOk(objects', u)
  <2>1. CASE objects' = objects BY <1>1, <1>3, <2>1, HoldersStay
  <2>2. CASE objects' # objects
    <3>1. a.kind = "element" /\ objects' = a.objects BY <2>2 DEF Answered
    <3>2. PICK p : /\ objects' = [objects EXCEPT ![FreeRef] = p]
                   /\ p.hJson \in Used(u) \ Used(Table)
      BY <3>1 DEF Answered
    <3> HIDE DEF u
    <3> QED BY <1>1, <1>3, <3>2, FreeRefFacts, HoldsOneMore
  <2> QED BY <2>1, <2>2
<1> HIDE DEF u
<1> QED BY <1>2, <1>4 DEF TableInv, TableOk, HoldersOk, Used

(* What was held is held after a call of which the element is kept.         *)
LEMMA AnsweredHolds ==
  ASSUME TableInv, SomeRefFree, NEW a, Answered(a), objects' = objects \/ objects' = a.objects
  PROVE  \A r \in Refs : Held(r) => objects'[r] = objects[r]
<1>1. DOMAIN objects = Refs BY DEF TableInv, HoldersOk
<1>2. objects' = objects \/ \E p : objects' = [objects EXCEPT ![FreeRef] = p]
  BY DEF Answered
<1> QED BY <1>1, <1>2, FreeRefFacts DEF Held

LEMMA GetNextTable ==
  ASSUME TableInv, NEW r \in Refs, NEW names \in NameSets, JsonGetNextObject(r, names)
  PROVE  TableInv'
<1>1. Held(r) /\ SomeRefFree /\ UNCHANGED loop BY DEF JsonGetNextObject, MayUse
<1>2. PICK a \in GetNext(r, names) :
        gs_sJsonHandleTable' = a.table /\ objects' = a.objects
  BY DEF JsonGetNextObject
<1>3. Answered(a) BY <1>1, AnswerFacts
<1>4. LoopOk(loop, objects)'
  BY <1>1, <1>2, <1>3, AnsweredHolds, LoopStays DEF Held
<1> QED BY <1>1, <1>2, <1>3, <1>4, AnsweredTable

LEMMA ForeachNextTable ==
  ASSUME TableInv, ForeachNext
  PROVE  TableInv'
<1>1. Looping /\ SomeRefFree /\ loop.elem = Null BY DEF ForeachNext
<1>2. /\ DOMAIN loop = {"ref", "request", "elem", "count", "found", "from"}
      /\ loop.ref \in Refs /\ Held(loop.ref)
  BY <1>1, LoopFacts
<1>3. PICK a \in GetNext(loop.ref, {}) :
        /\ gs_sJsonHandleTable' = a.table
        /\ \/ ElementToCallback(a) \/ ElementPassed(a)
           \/ ElementStops(a) \/ NoMoreElements(a)
  BY DEF ForeachNext
<1>4. Answered(a)
  <2> DEFINE q == loop.ref
  <2>1. q \in Refs /\ Held(q) /\ a \in GetNext(q, {}) BY <1>2
  <2> HIDE DEF q
  <2> QED BY <2>1, AnswerFacts
<1>5. objects' = objects \/ objects' = a.objects
  BY <1>3 DEF ElementToCallback, ElementPassed, ElementStops, NoMoreElements
<1>6. \A r \in Refs : Held(r) => objects'[r] = objects[r]
  BY <1>1, <1>4, <1>5, AnsweredHolds
<1>7. LoopOk(loop, objects)'
  <2>1. CASE ElementToCallback(a)
    <3>1. /\ loop' = [loop EXCEPT !.elem = FreeRef] /\ objects' = a.objects
          /\ a.kind = "element"
      BY <2>1 DEF ElementToCallback
    <3>2. /\ DOMAIN loop' = DOMAIN loop /\ loop'.ref = loop.ref /\ loop'.elem = FreeRef
      BY <1>2, <3>1
    <3>3. FreeRef \in Refs /\ objects[FreeRef] = NoObject BY <1>1, FreeRefFacts
    <3>4. objects'[FreeRef] # NoObject
      <4>1. DOMAIN objects = Refs BY DEF TableInv, HoldersOk
      <4>2. PICK p : objects' = [objects EXCEPT ![FreeRef] = p] /\ p # NoObject
        BY <1>4, <3>1 DEF Answered
      <4> QED BY <3>3, <4>1, <4>2
    <3>5. FreeRef # loop.ref /\ objects'[loop.ref] # NoObject
      BY <1>2, <1>6, <3>3 DEF Held
    <3> QED BY <1>2, <3>2, <3>3, <3>4, <3>5 DEF LoopOk
  <2>2. CASE ElementPassed(a)
    <3>1. UNCHANGED <<objects, loop>> BY <2>2 DEF ElementPassed
    <3> QED BY <3>1, LoopStays DEF Held
  <2>3. CASE ElementStops(a) \/ NoMoreElements(a)
    BY <2>3 DEF ElementStops, NoMoreElements, LoopOk
  <2> QED BY <1>3, <2>1, <2>2, <2>3
<1> QED BY <1>1, <1>3, <1>4, <1>5, <1>7, AnsweredTable

LEMMA RestartedFacts ==
  ASSUME NEW o, IsObject(o)
  PROVE  IsObject([o EXCEPT !.idx = 0, !.rem = 1, !.state = "START"])
<1> DEFINE d == [o EXCEPT !.idx = 0, !.rem = 1, !.state = "START"]
<1>1. o \in InternalObject /\ ParserOk(o) BY DEF IsObject
<1>2. /\ d \in InternalObject /\ d.data = o.data /\ d.parser = o.parser
      /\ d.num = o.num /\ d.state = "START"
  BY <1>1 DEF InternalObject, States
<1> HIDE DEF d
<1>3. ParserOk(d) BY <1>1, <1>2 DEF ParserOk
<1> QED BY <1>2, <1>3 DEF IsObject, d

LEMMA RestartTable ==
  ASSUME TableInv, NEW r \in Refs, JsonRestartParsing(r)
  PROVE  TableInv'
<1> DEFINE t == Table  h == objects[r].hJson  u == gs_sJsonHandleTable'
           o == [t.pEntries[h] EXCEPT !.idx = 0, !.rem = 1, !.state = "START"]
<1>1. /\ Held(r) /\ UNCHANGED <<objects, loop>> /\ Table' = u
      /\ u = [t EXCEPT !.pEntries[h] = [@ EXCEPT !.idx = 0, !.rem = 1, !.state = "START"]]
  BY DEF JsonRestartParsing, MayUse, Table
<1>2. TableOk(t) /\ HoldersOk(objects, t) /\ h \in Used(t) /\ IsObject(t.pEntries[h])
  BY <1>1, InternalFacts DEF TableInv, Internal
<1> HIDE DEF t, h, u
<1>3. IsObject(o) BY <1>2, RestartedFacts
<1>4. u = [t EXCEPT !.pEntries[h] = o] BY <1>1, <1>2 DEF TableOk, Used
<1> HIDE DEF o
<1>5. TableOk(u) /\ Used(u) = Used(t) BY <1>2, <1>3, <1>4, ReplacedFacts
<1>6. HoldersOk(objects', u) BY <1>1, <1>2, <1>5, HoldersStay
<1>7. LoopOk(loop, objects)' BY <1>1, LoopStays DEF Held
<1> QED BY <1>1, <1>5, <1>6, <1>7 DEF TableInv, TableOk, HoldersOk, Used

(* An object is given up, with or without its entry.                        *)
LEMMA GivenUpTable ==
  ASSUME TableInv, NEW r \in Refs, Held(r), objects' = [objects EXCEPT ![r] = NoObject],
         gs_sJsonHandleTable' \in {Table, Released(Table, objects[r].hJson)},
         LoopOk(loop, objects)'
  PROVE  TableInv'
<1> DEFINE t == Table  h == objects[r].hJson  u == gs_sJsonHandleTable'
<1>1. /\ TableOk(t) /\ HoldersOk(objects, t) /\ h \in Used(t) /\ Table' = u
      /\ u \in {t, Released(t, h)} /\ objects[r] # NoObject
  BY InternalFacts DEF TableInv, Table, Held
<1> HIDE DEF t, u
<1>2. TableOk(u) /\ Used(t) \ {h} \subseteq Used(u)
  <2> HIDE DEF h
  <2>1. CASE u = t BY <1>1, <2>1
  <2>2. CASE u = Released(t, h) BY <1>1, <2>2, ReleasedFacts
  <2> QED BY <1>1, <2>1, <2>2
<1>3. HoldersOk(objects', u) BY <1>1, <1>2, HoldsOneLess
<1> QED BY <1>1, <1>2, <1>3 DEF TableInv, TableOk, HoldersOk, Used

LEMMA ReleaseTable ==
  ASSUME TableInv, NEW r \in Refs, JsonReleaseObject(r)
  PROVE  TableInv'
<1>1. /\ Held(r) /\ UNCHANGED loop
      /\ gs_sJsonHandleTable' = Released(Table, objects[r].hJson)
      /\ objects' = [objects EXCEPT ![r] = NoObject]
      /\ Looping => r \notin {loop.ref, loop.elem}
  BY DEF JsonReleaseObject, MayUse
<1>2. DOMAIN objects = Refs BY DEF TableInv, HoldersOk
<1>3. LoopOk(loop, objects)' BY <1>1, <1>2, LoopStays DEF Held
<1> QED BY <1>1, <1>3, GivenUpTable

LEMMA CallbackTable ==
  ASSUME TableInv, CallbackSucceeds \/ CallbackFails
  PROVE  TableInv'
<1> DEFINE r == loop.elem
<1>1. Looping /\ r # Null BY DEF CallbackSucceeds, CallbackFails
<1>2. /\ DOMAIN loop = {"ref", "request", "elem", "count", "found", "from"}
      /\ loop.ref \in Refs /\ Held(loop.ref)
      /\ r \in Refs /\ r # loop.ref /\ Held(r)
  BY <1>1, LoopFacts
<1>3. /\ objects' = [objects EXCEPT ![r] = NoObject]
      /\ gs_sJsonHandleTable' \in {Table, Released(Table, objects[r].hJson)}
  BY DEF CallbackSucceeds, CallbackFails
<1>4. DOMAIN objects = Refs BY DEF TableInv, HoldersOk
<1>5. LoopOk(loop, objects)'
  <2>1. CASE loop' = NoLoop BY <2>1 DEF LoopOk
  <2>2. CASE CallbackSucceeds
    <3>1. loop' = [loop EXCEPT !.elem = Null, !.count = @ + 1,
                               !.found = @ \cup {objects[loop.elem].key}]
      BY <2>2 DEF CallbackSucceeds
    <3>2. DOMAIN loop' = DOMAIN loop /\ loop'.ref = loop.ref /\ loop'.elem = Null
      BY <1>2, <3>1
    <3> HIDE DEF r
    <3>3. objects'[loop.ref] # NoObject BY <1>2, <1>3, <1>4 DEF Held
    <3> QED BY <1>2, <3>2, <3>3 DEF LoopOk
  <2> QED BY <2>1, <2>2 DEF CallbackFails
<1> HIDE DEF r
<1> QED BY <1>2, <1>3, <1>5, GivenUpTable

LEMMA NextTable == TableInv /\ [Next]_vars => TableInv'
<1> SUFFICES ASSUME TableInv, [Next]_vars PROVE TableInv'
  OBVIOUS
<1>1. CASE JsonLibInit
  <2>1. UNCHANGED <<gs_sJsonHandleTable, objects, loop>> BY <1>1 DEF JsonLibInit
  <2>2. LoopOk(loop, objects)' BY <2>1 DEF TableInv, LoopOk
  <2> QED BY <2>1, <2>2, SameTable
<1>2. CASE JsonLibCleanup BY <1>2, CleanupTable
<1>3. CASE OpenFails \/ \E text \in Texts : JsonOpen(text) BY <1>3, OpenTable
<1>4. ASSUME NEW r \in Refs,
             \/ \E names \in NameSets : JsonGetNextObject(r, names)
             \/ JsonRestartParsing(r) \/ RestartRefused(r) \/ JsonReleaseObject(r)
             \/ \E request \in Requests \cup {Null} :
                  ForeachStart(r, request) \/ ForeachRefused(r, request)
      PROVE  TableInv'
  BY <1>4, GetNextTable, RestartTable, ReleaseTable, OtherCallsTable
<1>5. CASE ForeachNext BY <1>5, ForeachNextTable
<1>6. CASE CallbackSucceeds \/ CallbackFails BY <1>6, CallbackTable
<1>7. CASE UNCHANGED vars
  <2>1. UNCHANGED <<gs_sJsonHandleTable, objects, loop>> BY <1>7 DEF vars
  <2>2. LoopOk(loop, objects)' BY <2>1 DEF TableInv, LoopOk
  <2> QED BY <2>1, <2>2, SameTable
<1> QED BY <1>1, <1>2, <1>3, <1>4, <1>5, <1>6, <1>7 DEF Next

LEMMA TableHolds == Spec => []TableInv
<1> QED BY InitTable, NextTable, PTL DEF Spec

(* After every call, and on every error path of the opens, searches and     *)
(* loops, dwEntryCount is the number of entries in use, for every size by   *)
(* which the table grows: JsoniNewInternalObject finds a free entry         *)
(* whenever the count says that there is one.                               *)
THEOREM CountIsExact == Spec => []EntryCountExact
<1>1. TableInv => EntryCountExact
  BY DEF TableInv, TableOk, Used, EntryCountExact, Handles
<1> QED BY <1>1, TableHolds, PTL

(* Each public object has an internal object that exists and that no other  *)
(* public object has, although entries are released and given out again,    *)
(* by the host, by its callbacks and by the loops that run them.            *)
THEOREM HandlesStayExclusive == Spec => []HandlesAreExclusive
<1>1. TableInv => HandlesAreExclusive
  <2> SUFFICES ASSUME TableInv PROVE HandlesAreExclusive
    OBVIOUS
  <2>1. \A r \in Refs : Held(r) => Internal(r) # NoObject BY InternalFacts
  <2> QED BY <2>1 DEF TableInv, HoldersOk, HandlesAreExclusive, Held
<1> QED BY <1>1, TableHolds, PTL

-----------------------------------------------------------------------------
(* What the table and the objects contain.                                  *)

PhaseOk == phase \in {"unloaded", "loaded", "dead", "cleaned"}

LEMMA PhaseHolds == Spec => []PhaseOk
<1>1. Init => PhaseOk BY DEF Init, PhaseOk
<1>2. PhaseOk /\ [Next]_vars => PhaseOk'
  <2> SUFFICES ASSUME PhaseOk, [Next]_vars PROVE PhaseOk'
    OBVIOUS
  <2>1. CASE JsonLibInit \/ JsonLibCleanup
    BY <2>1 DEF JsonLibInit, JsonLibCleanup, PhaseOk
  <2>2. CASE OpenFails \/ \E text \in Texts : JsonOpen(text)
    BY <2>2 DEF OpenFails, JsonOpen, PhaseOk
  <2>3. ASSUME NEW r \in Refs, NEW names \in NameSets, JsonGetNextObject(r, names)
        PROVE  PhaseOk'
    <3>1. PICK a \in GetNext(r, names) : Crashes(a) BY <2>3 DEF JsonGetNextObject
    <3> QED BY <3>1 DEF Crashes, PhaseOk
  <2>4. ASSUME NEW r \in Refs,
               \/ JsonRestartParsing(r) \/ RestartRefused(r) \/ JsonReleaseObject(r)
               \/ \E request \in Requests \cup {Null} :
                    ForeachStart(r, request) \/ ForeachRefused(r, request)
        PROVE  PhaseOk'
    BY <2>4 DEF JsonRestartParsing, RestartRefused, JsonReleaseObject, ForeachStart,
                ForeachRefused, PhaseOk
  <2>5. CASE ForeachNext
    <3>1. PICK a \in GetNext(loop.ref, {}) : Crashes(a) BY <2>5 DEF ForeachNext
    <3> QED BY <3>1 DEF Crashes, PhaseOk
  <2>6. CASE CallbackSucceeds \/ CallbackFails
    BY <2>6 DEF CallbackSucceeds, CallbackFails, PhaseOk
  <2>7. CASE UNCHANGED vars BY <2>7 DEF vars, PhaseOk
  <2> QED BY <2>1, <2>2, <2>3, <2>4, <2>5, <2>6, <2>7 DEF Next
<1> QED BY <1>1, <1>2, PTL DEF Spec

LEMMA TableIsTyped ==
  ASSUME TableInv, PhaseOk
  PROVE  TypeOK
<1> DEFINE t == Table  n == t.dwTableSize
<1>1. TableOk(t) BY DEF TableInv
<1>2. n \in Nat /\ DOMAIN t.pEntries = 0..n - 1 /\ Handles = 0..n - 1
  BY <1>1 DEF TableOk, Handles
<1>3. t.dwEntryCount \in 0..n
  <2>1. Used(t) \subseteq 0..n - 1 BY <1>2 DEF Used
  <2>2. IsFiniteSet(0..n - 1) /\ Cardinality(0..n - 1) = n
    <3>1. 0 \in Int /\ n - 1 \in Int BY <1>2
    <3>2. /\ IsFiniteSet(0..n - 1)
          /\ Cardinality(0..n - 1) = IF 0 > n - 1 THEN 0 ELSE (n - 1) - 0 + 1
      BY <3>1, FS_Interval
    <3> QED BY <1>2, <3>2
  <2>3. Cardinality(Used(t)) <= n
    <3> DEFINE all == 0..n - 1
    <3>1. Used(t) \in SUBSET all /\ IsFiniteSet(all) BY <2>1, <2>2
    <3> HIDE DEF all
    <3>2. Cardinality(Used(t)) <= Cardinality(all) BY <3>1, FS_Subset
    <3> QED BY <2>2, <3>2 DEF all
  <2>4. t.dwEntryCount = Cardinality(Used(t)) /\ Cardinality(Used(t)) \in Nat
    BY <1>1, UsedIsFinite DEF TableOk
  <2> QED BY <1>2, <2>3, <2>4
<1>4. t.pEntries \in [Handles -> InternalObject \cup {NoObject}]
  <2> DEFINE e == t.pEntries
  <2>1. e = [h \in DOMAIN e |-> e[h]] BY <1>1 DEF TableOk
  <2>2. \A h \in DOMAIN e : e[h] \in InternalObject \cup {NoObject}
    BY <1>1 DEF TableOk, Used, IsObject
  <2>3. DOMAIN e = Handles BY <1>2
  <2> HIDE DEF e
  <2> QED BY <2>1, <2>2, <2>3 DEF e
<1>5. \A r \in Refs : ~Held(r) \/ objects[r].hJson \in Handles
  BY <1>2, InternalFacts DEF Used
<1>6. Looping => loop.ref \in Refs /\ loop.elem \in Refs \cup {Null} BY LoopFacts
<1> QED BY <1>2, <1>3, <1>4, <1>5, <1>6 DEF TypeOK, PhaseOk

(* The table, the objects and the loop stay within the C types and the      *)
(* enumerations, for texts of any length and nesting: the tokens of the     *)
(* tokenizer are tokens however often its array grows, and the cursor of    *)
(* JsoniBrowseJsonFile never counts its remaining tokens below zero.        *)
THEOREM TypesHold == Spec => []TypeOK
<1> QED BY TableIsTyped, TableHolds, PhaseHolds, PTL

(* The tokens that an object keeps are those of one parse of its text with  *)
(* enough room, although JsoniParseJS doubled the array and resumed in the  *)
(* middle, and once every token has its end each counts its direct          *)
(* children, which is what the cursor and the loops count by.               *)
THEOREM TokensHold == Spec => []TokensAreOfText
<1>1. TableInv => TokensAreOfText
  <2> SUFFICES ASSUME TableInv, NEW h \in Handles, Table.pEntries[h] # NoObject,
                      Table.pEntries[h].num > 0
               PROVE  LET o == Table.pEntries[h]
                          tokens == o.parser.tokens
                          inside(i, j) == /\ tokens[j].start <= tokens[i].start
                                          /\ tokens[i].end <= tokens[j].end
                      IN  /\ o.parser = jsmn_parse(o.data, Len(o.data) + 1, jsmn_init).parser
                          /\ LastOpen(tokens) = -1 =>
                               \A j \in DOMAIN tokens : tokens[j].size =
                                 Cardinality({i \in j + 1..Len(tokens) :
                                   inside(i, j) /\ \A k \in j + 1..i - 1 : ~inside(i, k)})
    BY DEF TokensAreOfText
  <2> DEFINE o == Table.pEntries[h]
             p == o.parser
             more == Len(o.data) + 1
  <2>1. IsObject(o) BY DEF TableInv, TableOk, Used, Handles
  <2>2. p = jsmn_parse(o.data, more, jsmn_init).parser BY <2>1 DEF IsObject, ParserOk
  <2>3. p \in Parser /\ o.data \in Seq(Chars) BY <2>1, ObjectFields DEF IsObject
  <2>4. Nested(p)
    <3> HIDE DEF more, p, o
    <3> QED BY <2>2, <2>3, InitNested, ParseKeepsNested
  <2>5. DOMAIN p.tokens = 1..Len(p.tokens) BY <2>3, ParserIsParserIn, ParserFields
  <2>6. ASSUME LastOpen(p.tokens) = -1, NEW j \in DOMAIN p.tokens
        PROVE  LET tokens == p.tokens
                   inside(a, b) == /\ tokens[b].start <= tokens[a].start
                                   /\ tokens[a].end <= tokens[b].end
               IN  tokens[j].size = Cardinality({i \in j + 1..Len(tokens) :
                                      inside(i, j) /\ \A k \in j + 1..i - 1 : ~inside(i, k)})
    <3> HIDE DEF p
    <3> QED BY <2>3, <2>4, <2>5, <2>6, ChildrenCounted
  <2> QED BY <2>2, <2>6
<1> QED BY <1>1, TableHolds, PTL

-----------------------------------------------------------------------------
(* What the host is told.                                                   *)

ToldOk(kind, err) ==
  /\ kind \in Failures => (err = "NO_ERROR" <=> kind = "nofile")
  /\ kind \in Successes => err = "NO_ERROR"

LEMMA ReturnsTold ==
  ASSUME NEW err, NEW t, NEW kind, Returns(err, t), t.kind = kind, ToldOk(kind, err)
  PROVE  OnlyMissingFilesUntold'
BY DEF Returns, OnlyMissingFilesUntold, ToldOk, Failures, Successes

(* The kinds of calls that tell no element.                                 *)
LEMMA ToldKinds ==
  /\ \A kind, ref : /\ Told(kind).kind = kind
                    /\ [Told(kind) EXCEPT !.ref = ref].kind = kind
  /\ \A kind : EndLoop(kind).kind = kind
<1>1. ASSUME NEW kind, NEW ref
      PROVE  Told(kind).kind = kind /\ [Told(kind) EXCEPT !.ref = ref].kind = kind
  BY DEF Told
<1>2. ASSUME NEW kind PROVE EndLoop(kind).kind = kind BY DEF EndLoop
<1> QED BY <1>1, <1>2

(* A call to JsonGetNextObjectW tells what its answer says; a loop may stop *)
(* at the element of an answer.                                             *)
LEMMA ToldAsAnswered ==
  ASSUME NEW a, Answered(a)
  PROVE  ToldOk(a.kind, a.err)
BY DEF Answered, ToldAs, ToldOk, Failures, Successes

LEMMA TellsOfKind ==
  ASSUME NEW r, NEW names, NEW a
  PROVE  TellsOf(r, names, a).kind = a.kind
BY DEF TellsOf

LEMMA OpenTold ==
  ASSUME NEW text \in Texts, JsonOpen(text)
  PROVE  OnlyMissingFilesUntold'
<1>1. PICK root, table : OpenSucceeds(root, table) \/ OpenRejects(root, table)
  BY DEF JsonOpen
<1>2. CASE OpenSucceeds(root, table)
  <2>1. Returns("NO_ERROR", [Told("opened") EXCEPT !.ref = FreeRef])
    BY <1>2 DEF OpenSucceeds
  <2>2. ToldOk("opened", "NO_ERROR") BY DEF ToldOk, Failures, Successes
  <2> DEFINE t == [Told("opened") EXCEPT !.ref = FreeRef]
  <2>3. t.kind = "opened" BY DEF Told
  <2> HIDE DEF t
  <2> QED BY <2>1, <2>2, <2>3, ReturnsTold DEF t
<1>3. CASE OpenRejects(root, table)
  <2>1. Returns(OpenError(root), Told("rejected")) /\ OpenError(root) # "NO_ERROR"
    BY <1>3 DEF OpenRejects
  <2>2. ToldOk("rejected", OpenError(root)) BY <2>1 DEF ToldOk, Failures, Successes
  <2> QED BY <2>1, <2>2, ToldKinds, ReturnsTold
<1> QED BY <1>1, <1>2, <1>3

LEMMA GetNextTold ==
  ASSUME TableInv, NEW r \in Refs, NEW names \in NameSets, JsonGetNextObject(r, names)
  PROVE  OnlyMissingFilesUntold'
<1>1. Held(r) BY DEF JsonGetNextObject, MayUse
<1>2. PICK a \in GetNext(r, names) : Returns(a.err, TellsOf(r, names, a))
  BY DEF JsonGetNextObject
<1>3. ToldOk(a.kind, a.err) BY <1>1, AnswerFacts, ToldAsAnswered
<1> QED BY <1>2, <1>3, TellsOfKind, ReturnsTold

LEMMA ForeachNextTold ==
  ASSUME TableInv, ForeachNext
  PROVE  OnlyMissingFilesUntold'
<1>1. Looping BY DEF ForeachNext
<1> DEFINE q == loop.ref
<1>2. PICK a \in GetNext(q, {}) :
        \/ ElementToCallback(a) \/ ElementPassed(a)
        \/ ElementStops(a) \/ NoMoreElements(a)
  BY DEF ForeachNext
<1>3. Answered(a)
  <2>1. q \in Refs /\ Held(q) BY <1>1, LoopFacts
  <2> HIDE DEF q
  <2> QED BY <2>1, <1>2, AnswerFacts
<1>4. /\ ToldOk("element", "NO_ERROR") /\ ToldOk("passed", "NO_ERROR")
      /\ ToldOk("stopped", "INVALID_TOKEN") /\ ToldOk("stopped", "INVALID_OBJECT_TYPE")
      /\ ToldOk("looped", "NO_ERROR") /\ ToldOk("absent", "TOKEN_NOT_FOUND")
  BY DEF ToldOk, Failures, Successes
<1>5. CASE ElementToCallback(a)
  <2>1. Returns("NO_ERROR", TellsOf(q, {}, a)) /\ a.kind = "element"
    BY <1>5 DEF ElementToCallback
  <2> QED BY <1>4, <2>1, TellsOfKind, ReturnsTold
<1>6. CASE ElementPassed(a)
  <2>1. Returns("NO_ERROR", [TellsOf(q, {}, a) EXCEPT !.kind = "passed"])
    BY <1>6 DEF ElementPassed
  <2> DEFINE t == [TellsOf(q, {}, a) EXCEPT !.kind = "passed"]
  <2>2. t.kind = "passed" BY DEF TellsOf
  <2> HIDE DEF t
  <2> QED BY <1>4, <2>1, <2>2, ReturnsTold DEF t
<1>7. CASE ElementStops(a)
  <2>1. PICK err \in {"INVALID_TOKEN", "INVALID_OBJECT_TYPE"} :
          Returns(err, [TellsOf(q, {}, a) EXCEPT !.kind = "stopped"])
    BY <1>7 DEF ElementStops, Stopped
  <2>2. ToldOk("stopped", err) BY <1>4
  <2> DEFINE t == [TellsOf(q, {}, a) EXCEPT !.kind = "stopped"]
  <2>3. t.kind = "stopped" BY DEF TellsOf
  <2> HIDE DEF t
  <2> QED BY <2>1, <2>2, <2>3, ReturnsTold DEF t
<1>8. CASE NoMoreElements(a)
  <2>1. \/ Returns(a.err, TellsOf(q, {}, a))
        \/ Returns("NO_ERROR", EndLoop("looped"))
        \/ Returns("TOKEN_NOT_FOUND", EndLoop("absent"))
    BY <1>8 DEF NoMoreElements
  <2>2. ToldOk(a.kind, a.err) BY <1>3, ToldAsAnswered
  <2>3. CASE Returns(a.err, TellsOf(q, {}, a))
    BY <2>2, <2>3, TellsOfKind, ReturnsTold
  <2>4. CASE Returns("NO_ERROR", EndLoop("looped"))
    BY <1>4, <2>4, ToldKinds, ReturnsTold
  <2>5. CASE Returns("TOKEN_NOT_FOUND", EndLoop("absent"))
    BY <1>4, <2>5, ToldKinds, ReturnsTold
  <2> QED BY <2>1, <2>3, <2>4, <2>5
<1> QED BY <1>2, <1>5, <1>6, <1>7, <1>8

(* Calls that tell neither an element nor an open.                          *)
LEMMA OtherCallsTold ==
  ASSUME \/ JsonLibInit \/ JsonLibCleanup \/ OpenFails \/ CallbackSucceeds \/ CallbackFails
         \/ \E r \in Refs :
              \/ JsonRestartParsing(r) \/ RestartRefused(r) \/ JsonReleaseObject(r)
              \/ \E request \in Requests \cup {Null} :
                   ForeachStart(r, request) \/ ForeachRefused(r, request)
  PROVE  OnlyMissingFilesUntold'
<1> DEFINE Tells(err, kind) ==
             \/ Returns(err, Told(kind))
             \/ \E ref : Returns(err, [Told(kind) EXCEPT !.ref = ref])
<1>1. ASSUME NEW err, NEW kind, Tells(err, kind), ToldOk(kind, err) PROVE OnlyMissingFilesUntold'
  <2>1. PICK ref, t : Returns(err, t) /\ t \in {Told(kind), [Told(kind) EXCEPT !.ref = ref]}
    BY <1>1
  <2>2. t.kind = kind BY <2>1, ToldKinds
  <2> QED BY <1>1, <2>1, <2>2, ReturnsTold
<1>2. /\ ToldOk("other", "NO_ERROR") /\ ToldOk("cleaned", "NO_ERROR")
      /\ ToldOk("nofile", "NO_ERROR") /\ ToldOk("released", "NO_ERROR")
      /\ ToldOk("restarted", "NO_ERROR") /\ ToldOk("failed", "UNKNOWN_TODO")
      /\ ToldOk("refused", "INVALID_JSON_FILE") /\ ToldOk("unmapped", "FILE_INVALID")
      /\ ToldOk("looping", gs_dwJsonLastError)
  BY DEF ToldOk, Failures, Successes
<1>3. \/ \E r \in Refs, request \in Requests \cup {Null} : ForeachRefused(r, request)
      \/ Tells("NO_ERROR", "other") \/ Tells("NO_ERROR", "cleaned")
      \/ Tells("NO_ERROR", "nofile") \/ Tells("NO_ERROR", "released")
      \/ Tells("NO_ERROR", "restarted") \/ Tells("UNKNOWN_TODO", "failed")
      \/ Tells("INVALID_JSON_FILE", "refused") \/ Tells("FILE_INVALID", "unmapped")
      \/ Tells(gs_dwJsonLastError, "looping")
  BY DEF JsonLibInit, JsonLibCleanup, OpenFails, CallbackSucceeds, CallbackFails,
         JsonRestartParsing, RestartRefused, JsonReleaseObject, ForeachStart
<1> HIDE DEF Tells
<1>4. ASSUME NEW r, NEW request, ForeachRefused(r, request) PROVE OnlyMissingFilesUntold'
  <2>1. told'.kind = "noloop" /\ gs_dwJsonLastError' = "INVALID_PARAMETER"
    BY <1>4 DEF ForeachRefused, Returns
  <2> QED BY <2>1 DEF OnlyMissingFilesUntold, Failures, Successes
<1> QED BY <1>1, <1>2, <1>3, <1>4

LEMMA NextTold == TableInv /\ OnlyMissingFilesUntold /\ [Next]_vars => OnlyMissingFilesUntold'
<1> SUFFICES ASSUME TableInv, OnlyMissingFilesUntold, [Next]_vars PROVE OnlyMissingFilesUntold'
  OBVIOUS
<1>1. CASE \E text \in Texts : JsonOpen(text) BY <1>1, OpenTold
<1>2. CASE \E r \in Refs, names \in NameSets : JsonGetNextObject(r, names)
  BY <1>2, GetNextTold
<1>3. CASE ForeachNext BY <1>3, ForeachNextTold
<1>4. CASE \/ JsonLibInit \/ JsonLibCleanup \/ OpenFails \/ CallbackSucceeds \/ CallbackFails
           \/ \E r \in Refs :
                \/ JsonRestartParsing(r) \/ RestartRefused(r) \/ JsonReleaseObject(r)
                \/ \E request \in Requests \cup {Null} :
                     ForeachStart(r, request) \/ ForeachRefused(r, request)
  BY <1>4, OtherCallsTold
<1>5. CASE UNCHANGED vars BY <1>5 DEF vars, OnlyMissingFilesUntold
<1> QED BY <1>1, <1>2, <1>3, <1>4, <1>5 DEF Next

(* gs_dwJsonLastError tells each failure from a success, after the objects  *)
(* of the error path were released and the callbacks of a loop have made    *)
(* their own calls too, for every text, every set of names and every        *)
(* request: the errors of jsmn_parse, of JsoniBrowseJsonFile, of the file   *)
(* mapping and of the loops all reach the host. The one that does not is    *)
(* that of CreateFileW.                                                     *)
THEOREM OnlyMissingFilesGoUntold == Spec => []OnlyMissingFilesUntold
<1>1. Init => OnlyMissingFilesUntold
  <2> SUFFICES ASSUME Init PROVE OnlyMissingFilesUntold
    OBVIOUS
  <2>1. told.kind = "other" BY ToldKinds DEF Init
  <2> QED BY <2>1 DEF OnlyMissingFilesUntold, Failures, Successes
<1> QED BY <1>1, NextTold, TableHolds, PTL DEF Spec

-----------------------------------------------------------------------------
(* The cursors of a host that is careful.                                   *)

(* A container that is to be read, or that was read and rests between two   *)
(* children.                                                                *)
CursorIsOk(W, o) ==
  IsWalkable(o.type) =>
    /\ <<o.type, o.data>> \in W
    /\ o.state = "NOT_STARTED" => o.num = 0
    /\ o.state # "NOT_STARTED" =>
         /\ o.parser = JsoniParseJS(o.data, jsmn_init).parser
         /\ o.num = JsoniParseJS(o.data, jsmn_init).num
         /\ CursorOk(o)
CursorsOk(W, t) == \A h \in Used(t) : CursorIsOk(W, t.pEntries[h])

LEMMA ParseOfText ==
  ASSUME NEW js \in Seq(Chars), NEW r, r = JsoniParseJS(js, jsmn_init)
  PROVE  /\ r.err \in {"SUCCESS", "INVAL", "PART"}
         /\ r.num \in Nat /\ r.parser \in ParserIn(TokenOf(js)) /\ Len(r.parser.tokens) <= r.num
         /\ r.err = "SUCCESS" => WellParsed(r.parser)
<1> DEFINE more == Len(js) + 1
<1>1. AttemptOf(TokenOf(js), js, jsmn_init, r) BY BoundedTokens, InitParser, ParseJSFacts
<1>2. more \in Nat /\ Room(js, jsmn_init) < more
  <2>1. Len(js) \in Nat BY LenProperties
  <2>2. jsmn_init.tokens = <<>> /\ jsmn_init.pos = 0 BY DEF jsmn_init
  <2>3. Len(jsmn_init.tokens) = 0 BY <2>2
  <2> QED BY <2>1, <2>2, <2>3 DEF Room, Ahead
<1> HIDE DEF more
<1>3. jsmn_parse(js, more, jsmn_init).parser = r.parser /\ jsmn_parse(js, more, jsmn_init).err = r.err
  BY <1>1, <1>2 DEF AttemptOf
<1>4. r.err = "SUCCESS" => WellParsed(r.parser) BY <1>3, SuccessIsWellParsed
<1> QED BY <1>1, <1>4 DEF AttemptOf

(* A container that was read is one over which the walk is understood.      *)
LEMMA ReadIsShaped ==
  ASSUME NEW W, Untroubled(W), NEW o, IsObject(o), <<o.type, o.data>> \in W, IsWalkable(o.type),
         o.parser = JsoniParseJS(o.data, jsmn_init).parser,
         o.num = JsoniParseJS(o.data, jsmn_init).num
  PROVE  Shaped(o) /\ o.num # 0
<1> DEFINE w == <<o.type, o.data>>
           r == JsoniParseJS(o.data, jsmn_init)
           ts == r.parser.tokens
<1>1. w \in W /\ w[1] = o.type /\ w[2] = o.data OBVIOUS
<1>2. o.data \in Seq(Chars) BY ObjectFields DEF IsObject
<1>3. /\ r.err = "SUCCESS" /\ ts # <<>> /\ InReach(ts, r.num)
      /\ o.type = (IF ts[1].type = "OBJECT" THEN "Object" ELSE "Array")
      /\ IsContainer(ts[1])
      /\ \A i \in 2..Len(ts) : /\ ts[i].start < ts[1].end
                               /\ IsContainer(ts[i]) => ts[i].size # 0
  BY <1>1 DEF Untroubled
<1> HIDE DEF w
<1>4. /\ r.num \in Nat /\ r.parser \in ParserIn(TokenOf(o.data)) /\ WellParsed(r.parser)
      /\ Len(ts) <= r.num
  BY <1>2, <1>3, ParseOfText
<1>5. Len(ts) \in Nat /\ Len(ts) # 0
  <2>1. Len(ts) \in Nat /\ ts \in Seq(Token) BY <1>4, WellParsedNumbers DEF Numbers
  <2>2. ts # <<>> BY <1>3
  <2> HIDE DEF ts
  <2> QED BY <2>1, <2>2
<1> HIDE DEF r
<1>6. Readable(o) BY <1>2, <1>4 DEF Readable, r
<1>7. o.parser = r.parser /\ o.num = r.num BY DEF r
<1>8. Shaped(o)
  BY <1>3, <1>4, <1>6, <1>7 DEF Shaped, IsContainer, IsWalkable
<1>9. r.num # 0
  <2> DEFINE n == Len(ts)
             num == r.num
  <2>1. n \in Nat /\ n # 0 /\ num \in Nat /\ n <= num BY <1>4, <1>5
  <2> HIDE DEF n, num
  <2>2. num # 0 BY <2>1
  <2> QED BY <2>2 DEF num
<1> QED BY <1>7, <1>8, <1>9

LEMMA NewIsOk ==
  ASSUME NEW W, NEW type, NEW data, IsWalkable(type) => <<type, data>> \in W
  PROVE  CursorIsOk(W, NewObject(type, data))
<1> DEFINE o == NewObject(type, data)
<1>1. o.type = type /\ o.data = data /\ o.state = "NOT_STARTED" /\ o.num = 0 BY DEF NewObject
<1> HIDE DEF o
<1> QED BY <1>1 DEF CursorIsOk, o

LEMMA ChildIsOk ==
  ASSUME NEW W, NEW o, NEW token, IsContainer(token) => ContainerOf(o.data, token) \in W
  PROVE  CursorIsOk(W, ChildOf(o, token).internal)
<1> DEFINE text == TextOf(o.data, token)
           type == ObjectType(token, text)
<1>1. ChildOf(o, token).internal = NewObject(InternalType(type), text) BY DEF ChildOf
<1>2. IsWalkable(InternalType(type)) => InternalType(type) = type /\ IsContainer(token)
  BY DEF IsWalkable, InternalType, ObjectType, IsContainer
<1>3. IsContainer(token) => <<type, text>> \in W BY DEF ContainerOf
<1> HIDE DEF text, type
<1> QED BY <1>1, <1>2, <1>3, NewIsOk

(* What is read the first time.                                             *)
LEMMA ParsedIsOk ==
  ASSUME NEW W, Untroubled(W), NEW o, IsObject(o), o.state = "NOT_STARTED",
         IsWalkable(o.type), CursorIsOk(W, o)
  PROVE  /\ CursorIsOk(W, Parsed(o).obj) /\ Parsed(o).err = "NO_ERROR"
         /\ Parsed(o).obj.type = o.type /\ Parsed(o).obj.state = "START"
<1> DEFINE r == JsoniParseJS(o.data, o.parser)
           parser == r.parser
           num == r.num
           d == [o EXCEPT !.parser = parser, !.num = num, !.idx = 0, !.rem = 1, !.state = "START"]
<1>1. o \in InternalObject /\ o.parser = jsmn_init BY DEF IsObject, ParserOk
<1>2. Parsed(o).obj = d BY DEF Parsed
<1>3. <<o.type, o.data>> \in W BY DEF CursorIsOk
<1>4. r.err = "SUCCESS"
  <2> DEFINE w == <<o.type, o.data>>
  <2>1. w \in W /\ w[2] = o.data BY <1>3
  <2> HIDE DEF w
  <2> QED BY <1>1, <2>1 DEF Untroubled
<1>5. Parsed(o).err = "NO_ERROR" BY <1>4 DEF Parsed
<1>6. parser = JsoniParseJS(o.data, jsmn_init).parser /\ num = JsoniParseJS(o.data, jsmn_init).num
  BY <1>1
<1> HIDE DEF parser, num, r
<1>7. /\ d.parser = parser /\ d.num = num /\ d.idx = 0 /\ d.rem = 1 /\ d.state = "START"
      /\ d.type = o.type /\ d.data = o.data
  BY <1>1 DEF InternalObject
<1> HIDE DEF d
<1>8. CursorOk(d) BY <1>7 DEF CursorOk, States
<1> QED BY <1>2, <1>3, <1>5, <1>6, <1>7, <1>8 DEF CursorIsOk

LEMMA RestartedIsOk ==
  ASSUME NEW W, NEW o, IsObject(o), CursorIsOk(W, o), o.state # "NOT_STARTED"
  PROVE  CursorIsOk(W, [o EXCEPT !.idx = 0, !.rem = 1, !.state = "START"])
<1> DEFINE d == [o EXCEPT !.idx = 0, !.rem = 1, !.state = "START"]
<1>1. o \in InternalObject BY DEF IsObject
<1>2. /\ d.parser = o.parser /\ d.num = o.num /\ d.idx = 0 /\ d.rem = 1 /\ d.state = "START"
      /\ d.type = o.type /\ d.data = o.data
  BY <1>1 DEF InternalObject
<1> HIDE DEF d
<1>3. CursorOk(d) BY <1>2 DEF CursorOk, States
<1> QED BY <1>2, <1>3 DEF CursorIsOk, d

(* A call of JsoniBrowseJsonFile.                                           *)
LEMMA BrowsedIsOk ==
  ASSUME NEW W, Untroubled(W), NEW o, IsObject(o), IsWalkable(o.type), CursorIsOk(W, o),
         o.state # "NOT_STARTED", ~Missed(o), o.rem # 0, NEW names
  PROVE  LET b == JsoniBrowseJsonFile(o, names) IN
         /\ b.err # "WILD" /\ CursorIsOk(W, b.obj)
         /\ b.err = "SUCCESS" => ~Missed(b.obj) /\ CursorIsOk(W, ChildOf(b.obj, b.token).internal)
<1> DEFINE b == JsoniBrowseJsonFile(o, names)
           end == EndOfWalk(o, names)
           state == end.state
           idx == end.idx
           rem == end.rem
           found == [o EXCEPT !.state = state, !.idx = idx, !.rem = rem]
           lost == [o EXCEPT !.state = state]
           ts == o.parser.tokens
<1>1. /\ <<o.type, o.data>> \in W /\ CursorOk(o)
      /\ o.parser = JsoniParseJS(o.data, jsmn_init).parser
      /\ o.num = JsoniParseJS(o.data, jsmn_init).num
      /\ o \in InternalObject
  BY DEF CursorIsOk, IsObject
<1>2. Shaped(o) BY <1>1, ReadIsShaped
<1>3. ~(o.idx = 0 /\ o.state \in {"KEY", "SKIP", "PRINT"}) BY DEF Missed
<1>4. /\ b.err # "WILD" /\ b.obj = CursorAfter(o, end) /\ b.err = end.err
      /\ IF b.err = "SUCCESS"
         THEN /\ idx # 0 /\ Standing(ts, idx, rem) /\ idx \in Nat /\ rem \in Nat
              /\ state = Resting(o) /\ (o.type = "Object" => Even(rem))
              /\ \E i \in 2..Len(ts) : b.token = ts[i]
         ELSE /\ state \in States \ {"NOT_STARTED"}
              /\ IF o.idx = 0 THEN state = "STOP" => ts[1].size = 0 ELSE state = Resting(o)
  BY <1>1, <1>2, <1>3, BrowseKeepsCursor
<1>5. b.obj = IF b.err = "SUCCESS" THEN found ELSE lost BY <1>4 DEF CursorAfter
<1> HIDE DEF b, end, state, idx, rem
<1>6. /\ found.parser = o.parser /\ found.num = o.num /\ found.type = o.type
      /\ found.data = o.data /\ found.idx = idx /\ found.rem = rem /\ found.state = state
  BY <1>1 DEF InternalObject
<1>7. /\ lost.parser = o.parser /\ lost.num = o.num /\ lost.type = o.type
      /\ lost.data = o.data /\ lost.idx = o.idx /\ lost.rem = o.rem /\ lost.state = state
  BY <1>1 DEF InternalObject
<1> HIDE DEF found, lost
<1>8. CASE b.err = "SUCCESS"
  <2>1. Resting(o) \in States \ {"NOT_STARTED"} BY DEF Resting, States
  <2>2. Resting(found) = Resting(o) BY <1>6 DEF Resting
  <2>3. /\ idx # 0 /\ Standing(ts, idx, rem) /\ idx \in Nat /\ rem \in Nat
        /\ state = Resting(o) /\ (o.type = "Object" => Even(rem))
    BY <1>4, <1>8
  <2>4. CursorIsOk(W, found)
    <3>1. found.state \in States \ {"NOT_STARTED"} BY <1>6, <2>1, <2>3
    <3>2. CursorOk(found) BY <1>6, <2>2, <2>3, <3>1 DEF CursorOk
    <3> QED BY <1>1, <1>6, <3>1, <3>2 DEF CursorIsOk
  <2>5. ~Missed(found) BY <1>4, <1>6, <1>8 DEF Missed
  <2>6. PICK i \in 2..Len(ts) : b.token = ts[i] BY <1>4, <1>8
  <2>7. IsContainer(ts[i]) => ContainerOf(o.data, ts[i]) \in W
    <3> DEFINE w == <<o.type, o.data>>
    <3>1. w \in W /\ w[2] = o.data BY <1>1
    <3>2. ts = JsoniParseJS(o.data, jsmn_init).parser.tokens BY <1>1
    <3> HIDE DEF w, ts
    <3> QED BY <2>6, <3>1, <3>2 DEF Untroubled
  <2>8. CursorIsOk(W, ChildOf(found, b.token).internal) BY <1>6, <2>6, <2>7, ChildIsOk
  <2> QED BY <1>4, <1>5, <1>8, <2>4, <2>5, <2>8 DEF b
<1>9. CASE b.err # "SUCCESS"
  <2>1. Resting(lost) = Resting(o) /\ Resting(o) \in States BY <1>7 DEF Resting, States
  <2>2. CursorOk(lost) BY <1>1, <1>4, <1>7, <1>9, <2>1 DEF CursorOk
  <2>3. CursorIsOk(W, lost)
    <3>1. state # "NOT_STARTED" BY <1>4, <1>9, <2>1 DEF Resting
    <3> QED BY <1>1, <1>7, <2>2, <3>1 DEF CursorIsOk
  <2> QED BY <1>4, <1>5, <1>9, <2>3 DEF b
<1> QED BY <1>8, <1>9

-----------------------------------------------------------------------------
(* The cursors in the table.                                                *)

LEMMA NewInTableIsOk ==
  ASSUME NEW W, NEW t, TableOk(t), CursorsOk(W, t), NEW o, IsObject(o), CursorIsOk(W, o),
         NEW u, u = JsoniNewInternalObject(t, o)
  PROVE  CursorsOk(W, u) /\ \A k \in Used(t) : u.pEntries[k] = t.pEntries[k]
<1> DEFINE h == NewHandle(t)
<1>1. /\ Used(u) = Used(t) \cup {h} /\ u.pEntries[h] = o
      /\ \A k \in Used(t) : u.pEntries[k] = t.pEntries[k]
  BY NewInternalObjectFacts
<1> HIDE DEF h
<1> QED BY <1>1 DEF CursorsOk

LEMMA ReplacedIsOk ==
  ASSUME NEW W, NEW t, TableOk(t), CursorsOk(W, t), NEW h \in Used(t),
         NEW o, IsObject(o), CursorIsOk(W, o), NEW u, u = [t EXCEPT !.pEntries[h] = o]
  PROVE  /\ TableOk(u) /\ CursorsOk(W, u) /\ Used(u) = Used(t) /\ u.pEntries[h] = o
         /\ \A k \in Used(t) \ {h} : u.pEntries[k] = t.pEntries[k]
<1>1. TableOk(u) /\ Used(u) = Used(t) BY ReplacedFacts
<1>2. u.pEntries = [t.pEntries EXCEPT ![h] = o] BY DEF TableOk
<1>3. u.pEntries[h] = o /\ \A k \in Used(t) \ {h} : u.pEntries[k] = t.pEntries[k]
  BY <1>2 DEF Used
<1> QED BY <1>1, <1>3 DEF CursorsOk

LEMMA ReleasedIsOk ==
  ASSUME NEW W, NEW t, TableOk(t), CursorsOk(W, t), NEW h \in Used(t), NEW u, u = Released(t, h)
  PROVE  CursorsOk(W, u) /\ \A k \in Used(t) \ {h} : u.pEntries[k] = t.pEntries[k]
<1>1. Used(u) = Used(t) \ {h} /\ \A k \in Used(u) : u.pEntries[k] = t.pEntries[k]
  BY ReleasedFacts
<1> QED BY <1>1 DEF CursorsOk

(* The objects between the calls, and of the loop that runs.                *)
CursorInv(W) ==
  /\ CursorsOk(W, Table) /\ phase # "dead"
  /\ Looping => ~Missed(Internal(loop.ref))

(* The answer to a call of JsonGetNextObjectW that starts between two       *)
(* children.                                                                *)
AnsweredWell(W, r, a) ==
  /\ a.kind # "crashed" /\ CursorsOk(W, a.table)
  /\ \A k \in Used(Table) \ {objects[r].hJson} : a.table.pEntries[k] = Table.pEntries[k]
  /\ a.kind = "element" => ~Missed(a.table.pEntries[objects[r].hJson])

LEMMA PreparedIsOk ==
  ASSUME NEW W, Untroubled(W), NEW o, IsObject(o), CursorIsOk(W, o), ~Missed(o),
         IsWalkable(o.type), NEW p, p = Prepared(o)
  PROVE  /\ IsObject(p.obj) /\ CursorIsOk(W, p.obj) /\ ~Missed(p.obj)
         /\ IsWalkable(p.obj.type) /\ p.obj.state # "NOT_STARTED"
         /\ p.err = "NO_ERROR" /\ p.obj.num # 0
<1>1. /\ IsObject(p.obj) /\ CursorIsOk(W, p.obj) /\ ~Missed(p.obj)
      /\ IsWalkable(p.obj.type) /\ p.obj.state # "NOT_STARTED" /\ p.err = "NO_ERROR"
  <2>1. CASE o.state = "NOT_STARTED"
    <3>1. p = Parsed(o) BY <2>1 DEF Prepared
    <3>2. /\ CursorIsOk(W, p.obj) /\ p.err = "NO_ERROR" /\ p.obj.type = o.type
          /\ p.obj.state = "START" /\ IsObject(p.obj)
      BY <2>1, <3>1, ParsedIsOk, ParsedFacts
    <3> QED BY <3>2 DEF Missed
  <2>2. CASE o.state # "NOT_STARTED"
    <3>1. p.obj = o /\ p.err = "NO_ERROR" BY <2>2 DEF Prepared
    <3> QED BY <2>2, <3>1
  <2> QED BY <2>1, <2>2
<1> DEFINE q == p.obj
<1>2. q.num # 0
  <2>1. /\ <<q.type, q.data>> \in W /\ q.parser = JsoniParseJS(q.data, jsmn_init).parser
        /\ q.num = JsoniParseJS(q.data, jsmn_init).num /\ IsObject(q) /\ IsWalkable(q.type)
    BY <1>1 DEF CursorIsOk
  <2> HIDE DEF q
  <2> QED BY <2>1, ReadIsShaped
<1> QED BY <1>1, <1>2

LEMMA AnswerIsOk ==
  ASSUME NEW W, Untroubled(W), TableInv, CursorsOk(W, Table), NEW r \in Refs, Held(r),
         ~Missed(Internal(r)), NEW names, NEW a \in GetNext(r, names)
  PROVE  AnsweredWell(W, r, a)
<1> DEFINE h == objects[r].hJson
           with(o) == [Table EXCEPT !.pEntries[objects[r].hJson] = o]
           answer(table, err, kind) == [table |-> table, objects |-> objects,
                                        element |-> Null, err |-> err, kind |-> kind]
           p == Prepared(Internal(r))
           b == JsoniBrowseJsonFile(p.obj, names)
           child == ChildOf(b.obj, b.token)
           table == JsoniNewInternalObject(with(b.obj), child.internal)
           public == [type |-> child.public.type, key |-> b.key,
                      text |-> child.public.text, hJson |-> NewHandle(with(b.obj))]
           element == [type |-> child.public.type, key |-> b.key, text |-> child.public.text]
           found == [answer(table, "NO_ERROR", "element")
                       EXCEPT !.element = element, !.objects[FreeRef] = public]
<1>1. TableOk(Table) /\ h \in Used(Table) /\ IsObject(Internal(r)) /\ CursorIsOk(W, Internal(r))
  BY InternalFacts DEF TableInv, CursorsOk, Internal
<1>2. a = IF ~IsWalkable(p.obj.type) THEN answer(Table, "INVALID_JSON_FILE", "refused")
          ELSE IF p.err # "NO_ERROR" THEN answer(with(p.obj), p.err, "refused")
          ELSE IF p.obj.rem = 0 THEN answer(Table, "NO_ERROR", "none")
          ELSE IF p.obj.num = 0 \/ b.err = "WILD" THEN answer(Table, "NO_ERROR", "crashed")
          ELSE CASE b.err = "TOKEN_NOT_FOUND" -> answer(with(b.obj), "NO_ERROR", "none")
                 [] b.err = "SUCCESS" -> found
                 [] OTHER -> answer(with(b.obj), b.err, "refused")
  <2>1. a = AnswerFrom(r, p, b) BY DEF GetNext
  <2> QED BY <2>1 DEF AnswerFrom
<1>3. ASSUME NEW t, NEW err, NEW kind, a = answer(t, err, kind), kind \notin {"crashed", "element"},
             CursorsOk(W, t), \A k \in Used(Table) \ {h} : t.pEntries[k] = Table.pEntries[k]
      PROVE  AnsweredWell(W, r, a)
  <2>1. a.table = t /\ a.kind = kind BY <1>3
  <2> HIDE DEF with, found, answer, p, b
  <2> QED BY <1>3, <2>1 DEF AnsweredWell
<1>6. ASSUME NEW o, IsObject(o), CursorIsOk(W, o)
      PROVE  /\ TableOk(with(o)) /\ CursorsOk(W, with(o)) /\ Used(with(o)) = Used(Table)
             /\ with(o).pEntries[h] = o
             /\ \A k \in Used(Table) \ {h} : with(o).pEntries[k] = Table.pEntries[k]
  <2> DEFINE t == Table  u == [t EXCEPT !.pEntries[h] = o]
  <2>1. TableOk(t) /\ h \in Used(t) /\ CursorsOk(W, t) BY <1>1
  <2>2. u = [t EXCEPT !.pEntries[h] = o] OBVIOUS
  <2> HIDE DEF t, h, u
  <2>3. TableOk(u) /\ Used(u) = Used(t) BY <1>6, <2>1, <2>2, ReplacedFacts
  <2>4. u.pEntries = [t.pEntries EXCEPT ![h] = o] BY <2>1, <2>2 DEF TableOk
  <2>5. u.pEntries[h] = o /\ \A k \in Used(t) \ {h} : u.pEntries[k] = t.pEntries[k]
    BY <2>1, <2>4 DEF Used
  <2>6. CursorsOk(W, u) BY <1>6, <2>1, <2>3, <2>5 DEF CursorsOk
  <2> QED BY <2>3, <2>5, <2>6 DEF t, h, u
<1>4. CASE ~IsWalkable(Internal(r).type)
  <2>1. p.obj = Internal(r) BY <1>4 DEF Prepared
  <2> HIDE DEF p
  <2>2. a = answer(Table, "INVALID_JSON_FILE", "refused") BY <1>2, <1>4, <2>1
  <2> HIDE DEF answer, found, b
  <2> QED BY <1>3, <2>2
<1>5. CASE IsWalkable(Internal(r).type)
  <2> DEFINE o == Internal(r)
  <2>1. /\ IsObject(p.obj) /\ CursorIsOk(W, p.obj) /\ ~Missed(p.obj)
        /\ IsWalkable(p.obj.type) /\ p.obj.state # "NOT_STARTED"
        /\ p.err = "NO_ERROR" /\ p.obj.num # 0
    <3>1. p = Prepared(o) OBVIOUS
    <3> HIDE DEF p, o
    <3> QED BY <1>1, <1>5, <3>1, PreparedIsOk DEF o
  <2> HIDE DEF p, o
  <2>2. CASE p.obj.rem = 0
    <3>1. a = answer(Table, "NO_ERROR", "none") BY <1>2, <2>1, <2>2
    <3> HIDE DEF answer, found, b
    <3> QED BY <1>3, <3>1
  <2>3. CASE p.obj.rem # 0
    <3> DEFINE q == p.obj
    <3>1. /\ IsObject(b.obj) /\ b.obj.data = q.data
          /\ b.token \in TokenOf(q.data) \cup Blanks
          /\ b.err # "WILD" /\ CursorIsOk(W, b.obj)
          /\ b.err = "SUCCESS" =>
               ~Missed(b.obj) /\ CursorIsOk(W, ChildOf(b.obj, b.token).internal)
      BY <2>1, <2>3, BrowsedFacts, BrowsedIsOk
    <3>2. a = CASE b.err = "TOKEN_NOT_FOUND" -> answer(with(b.obj), "NO_ERROR", "none")
                [] b.err = "SUCCESS" -> found
                [] OTHER -> answer(with(b.obj), b.err, "refused")
      BY <1>2, <2>1, <2>3, <3>1
    <3> HIDE DEF b
    <3> DEFINE t == with(b.obj)
               y == b.obj
    <3>3. /\ TableOk(t) /\ CursorsOk(W, t) /\ Used(t) = Used(Table) /\ t.pEntries[h] = b.obj
          /\ \A k \in Used(Table) \ {h} : t.pEntries[k] = Table.pEntries[k]
      <4>1. IsObject(y) /\ CursorIsOk(W, y) /\ t = with(y) BY <3>1
      <4> HIDE DEF y, h, with
      <4> QED BY <1>6, <4>1 DEF y
    <3>4. CASE b.err # "SUCCESS"
      <4>1. a = answer(t, "NO_ERROR", "none") \/ a = answer(t, b.err, "refused") BY <3>2, <3>4
      <4> HIDE DEF answer, found, t
      <4> QED BY <1>3, <3>3, <4>1
    <3>5. CASE b.err = "SUCCESS"
      <4> DEFINE c == child.internal
      <4>1. a = found BY <3>2, <3>5
      <4>2. a.table = JsoniNewInternalObject(t, c) /\ a.kind = "element" BY <4>1
      <4>3. IsObject(c)
        <5>1. y.data \in Seq(Chars) /\ b.token \in TokenOf(y.data) \cup Blanks
          BY <3>1, ObjectFields DEF IsObject
        <5>2. c = ChildOf(y, b.token).internal OBVIOUS
        <5> HIDE DEF c, y
        <5> QED BY <5>1, <5>2, ChildFacts
      <4>4. CursorIsOk(W, c) /\ ~Missed(b.obj) BY <3>1, <3>5
      <4> DEFINE u == a.table
      <4>5. u = JsoniNewInternalObject(t, c) BY <4>2
      <4> HIDE DEF c, t, u, found, answer
      <4>6. CursorsOk(W, u) /\ \A k \in Used(t) : u.pEntries[k] = t.pEntries[k]
        BY <3>3, <4>3, <4>4, <4>5, NewInTableIsOk
      <4>7. u.pEntries[h] = b.obj BY <1>1, <3>3, <4>6
      <4>8. \A k \in Used(Table) \ {h} : u.pEntries[k] = Table.pEntries[k] BY <3>3, <4>6
      <4> QED BY <4>2, <4>4, <4>6, <4>7, <4>8 DEF AnsweredWell, u
    <3> QED BY <3>4, <3>5
  <2> QED BY <2>2, <2>3
<1> QED BY <1>4, <1>5

(* Every step keeps the cursors.                                            *)
LEMMA CursorsStay ==
  ASSUME NEW W, CursorInv(W), UNCHANGED <<gs_sJsonHandleTable, objects>>, phase' # "dead",
         loop' = loop \/ loop' = NoLoop
  PROVE  CursorInv(W)'
<1>1. Table' = Table BY DEF Table
<1>2. CursorsOk(W, Table)' BY <1>1 DEF CursorInv, CursorsOk, Used
<1>3. Looping' => Looping /\ loop' = loop BY DEF Looping
<1>4. Looping' => ~Missed(Internal(loop.ref))'
  BY <1>1, <1>3 DEF CursorInv, Internal
<1> QED BY <1>2, <1>4 DEF CursorInv

(* A step that leaves the container of the loop alone.                      *)
LEMMA LoopNotMissed ==
  ASSUME NEW W, TableInv, CursorInv(W), Looping' => Looping /\ loop'.ref = loop.ref,
         Looping => /\ objects'[loop.ref] = objects[loop.ref]
                    /\ Table'.pEntries[objects[loop.ref].hJson]
                         = Table.pEntries[objects[loop.ref].hJson],
         CursorsOk(W, Table'), phase' # "dead"
  PROVE  CursorInv(W)'
<1>1. Looping' => ~Missed(Internal(loop.ref))' BY DEF CursorInv, Internal
<1>2. CursorsOk(W, Table)' BY DEF CursorsOk, Used
<1> QED BY <1>1, <1>2 DEF CursorInv

LEMMA OpenCursors ==
  ASSUME NEW W, Untroubled(W), Roots(W), TableInv, CursorInv(W),
         OpenFails \/ \E text \in Texts : JsonOpen(text)
  PROVE  CursorInv(W)'
<1> DEFINE t == Table  u == gs_sJsonHandleTable'
<1>1. TableOk(t) /\ CursorsOk(W, t) /\ Table' = u BY DEF TableInv, CursorInv, Table
<1>2. phase' # "dead" /\ loop' = loop BY DEF OpenFails, JsonOpen, CursorInv
<1>3. Looping => /\ loop.ref \in Refs /\ objects[loop.ref] # NoObject
                 /\ objects[loop.ref].hJson \in Used(t)
  BY LoopFacts, InternalFacts DEF Held
<1>4. Looping' => Looping /\ loop'.ref = loop.ref BY <1>2 DEF Looping
<1>5. ASSUME CursorsOk(W, u), \A k \in Used(t) : u.pEntries[k] = t.pEntries[k],
             Looping => objects'[loop.ref] = objects[loop.ref]
      PROVE  CursorInv(W)'
  <2>1. Looping => Table'.pEntries[objects[loop.ref].hJson]
                     = Table.pEntries[objects[loop.ref].hJson]
    <3> HIDE DEF u
    <3> QED BY <1>1, <1>3, <1>5
  <2>2. CursorsOk(W, Table') BY <1>1, <1>5
  <2> HIDE DEF t, u
  <2> QED BY <1>2, <1>4, <1>5, <2>1, <2>2, LoopNotMissed
<1>6. CASE OpenFails
  <2> DEFINE new == NewObject("Unknown", <<>>)
  <2>1. IsObject(new)
    <3>1. <<>> \in Seq(Chars) OBVIOUS
    <3> QED BY <3>1, NewObjectFacts
  <2>2. CursorIsOk(W, new)
    <3>1. ~IsWalkable("Unknown") BY DEF IsWalkable
    <3> QED BY <3>1, NewIsOk
  <2>3. u = JsoniNewInternalObject(t, new) /\ objects' = objects BY <1>6 DEF OpenFails
  <2> HIDE DEF new, t, u
  <2>4. CursorsOk(W, u) /\ \A k \in Used(t) : u.pEntries[k] = t.pEntries[k]
    BY <1>1, <2>1, <2>2, <2>3, NewInTableIsOk
  <2> QED BY <1>5, <2>3, <2>4 DEF t, u
<1>7. ASSUME NEW text \in Texts, JsonOpen(text) PROVE CursorInv(W)'
  <2> DEFINE new == NewObject("Unknown", text)  root == Parsed(new)  o == root.obj
             r == JsoniParseJS(text, jsmn_init)
             v == JsoniNewInternalObject(t, o)
  <2>1. SomeRefFree /\ (OpenSucceeds(root, v) \/ OpenRejects(root, v)) BY <1>7 DEF JsonOpen
  <2>2. IsObject(o) /\ o.data = text /\ text \in Seq(Chars)
    <3>1. text \in Seq(Chars) BY TextsAssumption
    <3>2. IsObject(new) /\ new.state = "NOT_STARTED" /\ new.data = text BY <3>1, NewObjectFacts
    <3> HIDE DEF new
    <3> QED BY <3>1, <3>2, ParsedFacts
  <2>3. /\ o.type = "Unknown" /\ o.parser = r.parser /\ o.num = r.num
        /\ root.err = "NO_ERROR" => r.err \notin {"INVAL", "PART"}
    BY DEF Parsed, NewObject
  <2>4. CursorIsOk(W, o) BY <2>3 DEF CursorIsOk, IsWalkable
  <2>5. v = JsoniNewInternalObject(t, o) OBVIOUS
  <2> HIDE DEF o, v, root, new, r, t, u
  <2>6. /\ TableOk(v) /\ CursorsOk(W, v) /\ Used(t) \subseteq Used(v)
        /\ \A k \in Used(t) : v.pEntries[k] = t.pEntries[k]
    BY <1>1, <2>2, <2>4, <2>5, NewInTableIsOk, NewInternalObjectFacts
  <2>7. CASE OpenRejects(root, v)
    <3>1. u = v /\ objects' = objects BY <2>7 DEF OpenRejects, u
    <3> QED BY <1>5, <2>6, <3>1
  <2>8. CASE OpenSucceeds(root, v)
    <3> DEFINE token == root.obj.parser.tokens[1]
               child == ChildOf(root.obj, token)
               c == child.internal
    <3>1. /\ u = JsoniNewInternalObject(v, c) /\ OpenError(root) = "NO_ERROR"
          /\ \E p : objects' = [objects EXCEPT ![FreeRef] = p]
      BY <2>8 DEF OpenSucceeds, u
    <3>2. token \in TokenOf(o.data) /\ o.data \in Seq(Chars)
      <4>1. o.data \in Seq(Chars) /\ o.parser \in ParserIn(TokenOf(o.data))
        BY <2>2 DEF IsObject, ParserOk
      <4> QED BY <3>1, <4>1, RootTokenFacts DEF o
    <3>3. IsObject(c)
      <4>1. root.obj.data \in Seq(Chars) /\ token \in TokenOf(root.obj.data) \cup Blanks
        BY <3>2 DEF o
      <4> HIDE DEF token
      <4> QED BY <4>1, ChildFacts
    <3>4. CursorIsOk(W, c)
      <4>1. root.err = "NO_ERROR" /\ IsContainer(TokenAt(o.parser.tokens, o.num, 0))
        BY <3>1 DEF OpenError, o
      <4>2. r.err = "SUCCESS"
        <5>1. r.err \in {"SUCCESS", "INVAL", "PART"} BY <2>2, ParseOfText DEF r
        <5> QED BY <2>3, <4>1, <5>1
      <4>3. r.parser.tokens # <<>> /\ IsContainer(r.parser.tokens[1])
        <5>1. Len(o.parser.tokens) \in Nat
          BY <2>2, ParserFields DEF IsObject, ParserOk
        <5>2. 0 < Len(o.parser.tokens)
          <6> SUFFICES ASSUME ~(0 < Len(o.parser.tokens)) PROVE FALSE OBVIOUS
          <6>1. TokenAt(o.parser.tokens, o.num, 0) \in Blanks BY DEF TokenAt, Blanks
          <6> DEFINE x == TokenAt(o.parser.tokens, o.num, 0)
          <6> HIDE DEF x
          <6>2. x.type = "PRIMITIVE" BY <6>1, BlankFields DEF x
          <6> QED BY <4>1, <6>2 DEF IsContainer, x
        <5>3. TokenAt(o.parser.tokens, o.num, 0) = o.parser.tokens[1]
          <6>1. 0 + 1 = 1 OBVIOUS
          <6> QED BY <5>2, <6>1 DEF TokenAt
        <5>4. o.parser.tokens # <<>> BY <5>2
        <5> QED BY <2>3, <4>1, <5>3, <5>4
      <4>4. token = r.parser.tokens[1] /\ root.obj.data = text BY <2>2, <2>3 DEF o
      <4>5. ContainerOf(text, r.parser.tokens[1]) \in W BY <4>2, <4>3 DEF Roots, r
      <4> HIDE DEF token
      <4> QED BY <4>4, <4>5, ChildIsOk
    <3> HIDE DEF c, child, token
    <3>5. CursorsOk(W, u) /\ \A k \in Used(v) : u.pEntries[k] = v.pEntries[k]
      BY <2>6, <3>1, <3>3, <3>4, NewInTableIsOk
    <3>6. Looping => objects'[loop.ref] = objects[loop.ref]
      <4>1. DOMAIN objects = Refs BY DEF TableInv, HoldersOk
      <4> QED BY <1>3, <2>1, <3>1, <4>1, FreeRefFacts
    <3> QED BY <1>5, <2>6, <3>5, <3>6
  <2> QED BY <2>1, <2>7, <2>8
<1> QED BY <1>6, <1>7

LEMMA GetNextCursors ==
  ASSUME CarefulHost, NEW W, Untroubled(W), TableInv, CursorInv(W),
         NEW r \in Refs, NEW names \in NameSets, JsonGetNextObject(r, names)
  PROVE  CursorInv(W)'
<1>1. /\ Held(r) /\ SomeRefFree /\ loop' = loop /\ ~Missed(Internal(r))
      /\ Looping => r # loop.ref
  BY DEF JsonGetNextObject, MayUse
<1>2. PICK a \in GetNext(r, names) :
        gs_sJsonHandleTable' = a.table /\ objects' = a.objects /\ Crashes(a)
  BY DEF JsonGetNextObject
<1>3. Answered(a) /\ AnsweredWell(W, r, a)
  <2>1. Answered(a) BY <1>1, AnswerFacts
  <2>2. CursorsOk(W, Table) BY DEF CursorInv
  <2> QED BY <1>1, <2>1, <2>2, AnswerIsOk
<1>4. \A s \in Refs : Held(s) => objects'[s] = objects[s] BY <1>1, <1>2, <1>3, AnsweredHolds
<1>5. Table' = a.table /\ CursorsOk(W, Table') BY <1>2, <1>3 DEF Table, AnsweredWell
<1>6. phase' # "dead" BY <1>2, <1>3 DEF Crashes, AnsweredWell, CursorInv
<1>7. ASSUME Looping
      PROVE  /\ objects'[loop.ref] = objects[loop.ref]
             /\ Table'.pEntries[objects[loop.ref].hJson] = Table.pEntries[objects[loop.ref].hJson]
  <2> DEFINE q == loop.ref
  <2>1. q \in Refs /\ Held(q) /\ q # r BY <1>1, <1>7, LoopFacts
  <2> HIDE DEF q
  <2>2. objects[q].hJson \in Used(Table) /\ objects[q].hJson # objects[r].hJson
    BY <1>1, <2>1, InternalFacts DEF TableInv, HoldersOk, Held
  <2> QED BY <1>3, <1>4, <1>5, <2>1, <2>2 DEF AnsweredWell, q
<1>8. Looping' => Looping /\ loop'.ref = loop.ref BY <1>1 DEF Looping
<1> QED BY <1>5, <1>6, <1>7, <1>8, LoopNotMissed

LEMMA ForeachNextCursors ==
  ASSUME NEW W, Untroubled(W), TableInv, CursorInv(W), ForeachNext
  PROVE  CursorInv(W)'
<1> DEFINE q == loop.ref
<1>1. Looping /\ SomeRefFree BY DEF ForeachNext
<1>2. /\ DOMAIN loop = {"ref", "request", "elem", "count", "found", "from"}
      /\ q \in Refs /\ Held(q) /\ ~Missed(Internal(q))
  BY <1>1, LoopFacts DEF CursorInv
<1>3. PICK a \in GetNext(q, {}) :
        /\ gs_sJsonHandleTable' = a.table /\ Crashes(a)
        /\ \/ ElementToCallback(a) \/ ElementPassed(a)
           \/ ElementStops(a) \/ NoMoreElements(a)
  BY DEF ForeachNext
<1>4. Answered(a) /\ AnsweredWell(W, q, a)
  <2> HIDE DEF q
  <2>1. Answered(a) BY <1>2, <1>3, AnswerFacts
  <2>2. CursorsOk(W, Table) BY DEF CursorInv
  <2> QED BY <1>2, <1>3, <2>1, <2>2, AnswerIsOk
<1>5. objects' = objects \/ objects' = a.objects
  BY <1>3 DEF ElementToCallback, ElementPassed, ElementStops, NoMoreElements
<1>6. objects'[q] = objects[q] BY <1>1, <1>2, <1>4, <1>5, AnsweredHolds
<1>7. Table' = a.table /\ CursorsOk(W, Table)'
  <2>1. Table' = a.table BY <1>3 DEF Table
  <2>2. CursorsOk(W, a.table) BY <1>4 DEF AnsweredWell
  <2> QED BY <2>1, <2>2 DEF CursorsOk, Used
<1>8. phase' # "dead" BY <1>3, <1>4 DEF Crashes, AnsweredWell, CursorInv
<1>9. Looping' => loop'.ref = q /\ a.kind = "element"
  <2>1. CASE ElementToCallback(a)
    <3>1. loop' = [loop EXCEPT !.elem = FreeRef] /\ a.kind = "element"
      BY <2>1 DEF ElementToCallback
    <3> QED BY <1>2, <3>1
  <2>2. CASE ElementPassed(a) BY <2>2 DEF ElementPassed
  <2>3. CASE ElementStops(a) \/ NoMoreElements(a)
    BY <2>3 DEF ElementStops, NoMoreElements, Looping
  <2> QED BY <1>3, <2>1, <2>2, <2>3
<1>10. Looping' => ~Missed(Internal(loop.ref))'
  <2> SUFFICES ASSUME Looping' PROVE ~Missed(Internal(loop.ref))' OBVIOUS
  <2>1. ~Missed(a.table.pEntries[objects[q].hJson]) BY <1>4, <1>9 DEF AnsweredWell
  <2>2. (Internal(loop.ref))' = a.table.pEntries[objects[q].hJson]
    BY <1>6, <1>7, <1>9 DEF Internal
  <2> HIDE DEF q
  <2> QED BY <2>1, <2>2 DEF Missed
<1> QED BY <1>7, <1>8, <1>10 DEF CursorInv

LEMMA RestartCursors ==
  ASSUME CarefulHost, NEW W, TableInv, CursorInv(W), NEW r \in Refs, JsonRestartParsing(r)
  PROVE  CursorInv(W)'
<1> DEFINE t == Table  h == objects[r].hJson  u == gs_sJsonHandleTable'
           o == [t.pEntries[h] EXCEPT !.idx = 0, !.rem = 1, !.state = "START"]
<1>1. /\ Held(r) /\ UNCHANGED <<objects, loop, phase>> /\ Table' = u
      /\ Internal(r).state # "NOT_STARTED" /\ (Looping => r # loop.ref)
      /\ u = [t EXCEPT !.pEntries[h] = [@ EXCEPT !.idx = 0, !.rem = 1, !.state = "START"]]
  BY DEF JsonRestartParsing, MayUse, Table
<1>2. /\ TableOk(t) /\ h \in Used(t) /\ IsObject(t.pEntries[h]) /\ CursorsOk(W, t)
      /\ t.pEntries[h].state # "NOT_STARTED"
  BY <1>1, InternalFacts DEF TableInv, Internal, CursorInv
<1>3. Looping => /\ objects[loop.ref].hJson \in Used(t)
                 /\ objects[loop.ref].hJson # h
  <2> SUFFICES ASSUME Looping PROVE objects[loop.ref].hJson \in Used(t)
                                    /\ objects[loop.ref].hJson # h
    OBVIOUS
  <2> DEFINE q == loop.ref
  <2>1. q \in Refs /\ Held(q) /\ q # r BY <1>1, LoopFacts
  <2> HIDE DEF q
  <2>2. objects[q].hJson \in Used(Table) /\ objects[q].hJson # objects[r].hJson
    BY <1>1, <2>1, InternalFacts DEF TableInv, HoldersOk, Held
  <2> QED BY <2>2 DEF q
<1> HIDE DEF t, h, u
<1>4. IsObject(o) /\ CursorIsOk(W, o)
  <2>1. CursorIsOk(W, t.pEntries[h]) BY <1>2 DEF CursorsOk
  <2> QED BY <1>2, <2>1, RestartedFacts, RestartedIsOk
<1>5. u = [t EXCEPT !.pEntries[h] = o] BY <1>1, <1>2 DEF TableOk, Used
<1> HIDE DEF o
<1>6. CursorsOk(W, u) /\ \A k \in Used(t) \ {h} : u.pEntries[k] = t.pEntries[k]
  BY <1>2, <1>4, <1>5, ReplacedIsOk
<1>7. Looping => Table'.pEntries[objects[loop.ref].hJson] = Table.pEntries[objects[loop.ref].hJson]
  BY <1>1, <1>3, <1>6 DEF t
<1>8. Looping' => Looping /\ loop'.ref = loop.ref BY <1>1 DEF Looping
<1>9. phase' # "dead" BY <1>1 DEF CursorInv
<1> QED BY <1>1, <1>6, <1>7, <1>8, <1>9, LoopNotMissed

LEMMA GivenUpCursors ==
  ASSUME NEW W, TableInv, CursorInv(W), NEW r \in Refs, Held(r),
         objects' = [objects EXCEPT ![r] = NoObject], Looping => r # loop.ref,
         gs_sJsonHandleTable' \in {Table, Released(Table, objects[r].hJson)},
         phase' = phase, Looping' => Looping /\ loop'.ref = loop.ref
  PROVE  CursorInv(W)'
<1> DEFINE t == Table  h == objects[r].hJson  u == gs_sJsonHandleTable'
<1>1. /\ TableOk(t) /\ h \in Used(t) /\ Table' = u /\ CursorsOk(W, t)
      /\ u \in {t, Released(t, h)} /\ DOMAIN objects = Refs
  BY InternalFacts DEF TableInv, Table, CursorInv, HoldersOk
<1> HIDE DEF t, u
<1>2. CursorsOk(W, u) /\ \A k \in Used(t) \ {h} : u.pEntries[k] = t.pEntries[k]
  <2> HIDE DEF h
  <2>1. CASE u = t BY <1>1, <2>1
  <2>2. CASE u = Released(t, h) BY <1>1, <2>2, ReleasedIsOk
  <2> QED BY <1>1, <2>1, <2>2
<1>3. ASSUME Looping
      PROVE  /\ objects'[loop.ref] = objects[loop.ref]
             /\ Table'.pEntries[objects[loop.ref].hJson] = Table.pEntries[objects[loop.ref].hJson]
  <2> DEFINE q == loop.ref
  <2>1. q \in Refs /\ Held(q) /\ q # r BY <1>3, LoopFacts
  <2> HIDE DEF q
  <2>2. objects[q].hJson \in Used(Table) /\ objects[q].hJson # objects[r].hJson
    BY <2>1, InternalFacts DEF TableInv, HoldersOk, Held
  <2>3. objects'[q] = objects[q] BY <1>1, <2>1
  <2> QED BY <1>1, <1>2, <2>2, <2>3 DEF q, t
<1>4. phase' # "dead" BY DEF CursorInv
<1> QED BY <1>1, <1>2, <1>3, <1>4, LoopNotMissed

LEMMA CallbackCursors ==
  ASSUME NEW W, TableInv, CursorInv(W), CallbackSucceeds \/ CallbackFails
  PROVE  CursorInv(W)'
<1> DEFINE r == loop.elem
<1>1. Looping /\ r # Null BY DEF CallbackSucceeds, CallbackFails
<1>2. /\ DOMAIN loop = {"ref", "request", "elem", "count", "found", "from"}
      /\ r \in Refs /\ r # loop.ref /\ Held(r)
  BY <1>1, LoopFacts
<1>3. /\ objects' = [objects EXCEPT ![r] = NoObject] /\ phase' = phase
      /\ gs_sJsonHandleTable' \in {Table, Released(Table, objects[r].hJson)}
  BY DEF CallbackSucceeds, CallbackFails
<1>4. Looping' => loop'.ref = loop.ref
  <2>1. CASE loop' = NoLoop BY <2>1 DEF Looping
  <2>2. CASE CallbackSucceeds
    <3>1. loop' = [loop EXCEPT !.elem = Null, !.count = @ + 1,
                               !.found = @ \cup {objects[loop.elem].key}]
      BY <2>2 DEF CallbackSucceeds
    <3> QED BY <1>2, <3>1
  <2> QED BY <2>1, <2>2 DEF CallbackFails
<1> HIDE DEF r
<1> QED BY <1>1, <1>2, <1>3, <1>4, GivenUpCursors

LEMMA OtherCallsCursors ==
  ASSUME CarefulHost, NEW W, TableInv, CursorInv(W), NEW r \in Refs,
         \/ JsonLibInit \/ JsonLibCleanup \/ RestartRefused(r)
         \/ \E request \in Requests \cup {Null} :
              ForeachStart(r, request) \/ ForeachRefused(r, request)
  PROVE  CursorInv(W)'
<1>1. Table' = Table /\ phase' # "dead" /\ CursorsOk(W, Table)'
  <2>1. UNCHANGED gs_sJsonHandleTable /\ phase' # "dead"
    BY DEF JsonLibInit, JsonLibCleanup, RestartRefused, ForeachRefused, ForeachStart, CursorInv
  <2>2. Table' = Table BY <2>1 DEF Table
  <2> QED BY <2>1, <2>2 DEF CursorInv, CursorsOk, Used
<1>2. CASE loop' = loop /\ objects' = objects
  BY <1>1, <1>2 DEF CursorInv, Internal, Looping
<1>3. CASE JsonLibCleanup
  <2>1. ~Looping' BY <1>3 DEF JsonLibCleanup, Looping
  <2> QED BY <1>1, <2>1 DEF CursorInv
<1>4. ASSUME NEW request, ForeachStart(r, request) PROVE CursorInv(W)'
  <2>1. loop' = Started(r, request) /\ objects' = objects /\ ~Missed(Internal(r))
    BY <1>4 DEF ForeachStart
  <2>2. loop'.ref = r BY <2>1 DEF Started
  <2>3. ~Missed(Internal(loop.ref))' BY <1>1, <2>1, <2>2 DEF Internal
  <2> QED BY <1>1, <2>3 DEF CursorInv
<1> QED BY <1>2, <1>3, <1>4 DEF JsonLibInit, RestartRefused, ForeachRefused

LEMMA NextCursors ==
  ASSUME CarefulHost, NEW W, Untroubled(W), Roots(W), TableInv, CursorInv(W), [Next]_vars
  PROVE  CursorInv(W)'
<1>1. CASE OpenFails \/ \E text \in Texts : JsonOpen(text) BY <1>1, OpenCursors
<1>2. ASSUME NEW r \in Refs, NEW names \in NameSets, JsonGetNextObject(r, names)
      PROVE  CursorInv(W)'
  BY <1>2, GetNextCursors
<1>3. ASSUME NEW r \in Refs, JsonRestartParsing(r) PROVE CursorInv(W)'
  BY <1>3, RestartCursors
<1>4. ASSUME NEW r \in Refs, JsonReleaseObject(r) PROVE CursorInv(W)'
  <2>1. /\ Held(r) /\ loop' = loop /\ phase' = phase /\ (Looping => r # loop.ref)
        /\ gs_sJsonHandleTable' = Released(Table, objects[r].hJson)
        /\ objects' = [objects EXCEPT ![r] = NoObject]
    BY <1>4 DEF JsonReleaseObject, MayUse
  <2>2. Looping' => Looping /\ loop'.ref = loop.ref BY <2>1 DEF Looping
  <2> QED BY <2>1, <2>2, GivenUpCursors
<1>5. ASSUME NEW r \in Refs,
             \/ RestartRefused(r)
             \/ \E request \in Requests \cup {Null} :
                  ForeachStart(r, request) \/ ForeachRefused(r, request)
      PROVE  CursorInv(W)'
  BY <1>5, OtherCallsCursors
<1>6. CASE ForeachNext BY <1>6, ForeachNextCursors
<1>7. CASE CallbackSucceeds \/ CallbackFails BY <1>7, CallbackCursors
<1>8. CASE JsonLibInit
  <2>1. UNCHANGED <<gs_sJsonHandleTable, objects, loop>> /\ phase' # "dead"
    BY <1>8 DEF JsonLibInit
  <2> QED BY <2>1, CursorsStay
<1>9. CASE JsonLibCleanup
  <2>1. Table' = Table /\ phase' # "dead" /\ ~Looping'
    BY <1>9 DEF JsonLibCleanup, Looping, Table
  <2>2. CursorsOk(W, Table)' BY <2>1 DEF CursorInv, CursorsOk, Used
  <2> QED BY <2>1, <2>2 DEF CursorInv
<1>10. CASE UNCHANGED vars
  <2>1. UNCHANGED <<gs_sJsonHandleTable, objects, loop>> /\ phase' # "dead"
    BY <1>10 DEF vars, CursorInv
  <2> QED BY <2>1, CursorsStay
<1> QED BY <1>1, <1>2, <1>3, <1>4, <1>5, <1>6, <1>7, <1>8, <1>9, <1>10 DEF Next

LEMMA CursorsHold ==
  ASSUME CarefulHost, NEW W, Untroubled(W), Roots(W)
  PROVE  Spec => []CursorInv(W)
<1>1. Init => CursorInv(W)
  <2> SUFFICES ASSUME Init PROVE CursorInv(W) OBVIOUS
  <2>1. Used(Table) = {} BY DEF Init, Table, Used
  <2>2. ~Looping /\ phase # "dead" BY DEF Init, Looping
  <2> QED BY <2>1, <2>2 DEF CursorInv, CursorsOk
<1>2. TableInv /\ CursorInv(W) /\ [Next]_vars => CursorInv(W)' BY NextCursors
<1> QED BY <1>1, <1>2, TableHolds, PTL DEF Spec

LEMMA TokensAhead ==
  ASSUME NEW o, NEW ts, ts = o.parser.tokens
  PROVE  DirectChildren(o) = Kids(ts) /\ {i \in DirectChildren(o) : i >= o.idx} = Coming(ts, o.idx)
BY DEF DirectChildren, Kids, Coming

(* "If we found an array or an object, we need to skip to attend next       *)
(* sibling element": whatever names are searched and whatever is read,      *)
(* restarted or released in between, the tokens that a container of the     *)
(* host still counts are the elements from its cursor on, keys and values   *)
(* in pairs. The host restarts as JsonRestartParsing expects it to, and its *)
(* texts are those over which SkipJsonTokenIfNeeded does not go astray.     *)
THEOREM CursorStaysAtElements ==
  ASSUME CarefulHost, NEW W, Untroubled(W), Roots(W)
  PROVE  Spec => []CursorAtElement
<1>1. TableInv /\ CursorInv(W) => CursorAtElement
  <2> SUFFICES ASSUME TableInv, CursorInv(W), NEW r \in Refs, Held(r),
                      IsWalkable(Internal(r).type), Internal(r).num > 0
               PROVE  LET o == Internal(r)
                          ahead == {i \in DirectChildren(o) : i >= o.idx}
                      IN  IF o.idx = 0 THEN o.rem = 1
                          ELSE /\ o.rem = Cardinality(ahead)
                               /\ ahead # {} => o.idx \in ahead
                               /\ o.type = "Object" => o.rem % 2 = 0
    BY DEF CursorAtElement
  <2> DEFINE o == Internal(r)
             ts == o.parser.tokens
  <2>1. IsWalkable(o.type) /\ o.num > 0 OBVIOUS
  <2>2. CursorIsOk(W, o) BY InternalFacts DEF CursorInv, CursorsOk, Internal
  <2> HIDE DEF o
  <2>3. o.state # "NOT_STARTED"
    <3>1. o.num # 0 BY <2>1
    <3> QED BY <2>1, <2>2, <3>1 DEF CursorIsOk
  <2>4. CursorOk(o) BY <2>1, <2>2, <2>3 DEF CursorIsOk
  <2>5. IF o.idx = 0 THEN o.rem = 1
        ELSE Standing(ts, o.idx, o.rem) /\ (o.type = "Object" => o.rem % 2 = 0)
    BY <2>4 DEF CursorOk, Even
  <2>6. {i \in DirectChildren(o) : i >= o.idx} = Coming(ts, o.idx) BY TokensAhead
  <2>7. o.idx \in Nat BY <2>4 DEF CursorOk
  <2>8. Coming(ts, o.idx) # {} /\ Standing(ts, o.idx, o.rem) => o.idx \in Coming(ts, o.idx)
    BY <2>7 DEF Standing, Coming
  <2>9. Standing(ts, o.idx, o.rem) => o.rem = Cardinality(Coming(ts, o.idx)) BY DEF Standing
  <2> QED BY <2>5, <2>6, <2>8, <2>9 DEF o
<1> QED BY <1>1, CursorsHold, TableHolds, PTL

(* No call reads behind the tokens of its container, and none follows the   *)
(* NULL token array of one that was never parsed, for the same host and the *)
(* same texts: every search of SkipJsonTokenIfNeeded stops, in the walks of *)
(* the host and in the loops, however often the host goes back.             *)
THEOREM NothingCrashes ==
  ASSUME CarefulHost, NEW W, Untroubled(W), Roots(W)
  PROVE  Spec => []NeverCrashes
<1>1. CursorInv(W) => NeverCrashes BY DEF CursorInv, NeverCrashes
<1> QED BY <1>1, CursorsHold, PTL

-----------------------------------------------------------------------------
(* What a search gives, in terms of the elements of the text.               *)

(* The j-th element as the tokens of a container tell it.                   *)
ElementOf(o, j) ==
  LET value == Nth(o.parser.tokens, Per(o) * j)
      text == TextOf(o.data, value)
  IN  [key |-> IF o.type = "Object" THEN KeyOf(o, j) ELSE <<>>,
       type |-> ObjectType(value, text), text |-> text]

LEMMA ElementsAre ==
  ASSUME NEW o, Shaped(o),
         o.parser = JsoniParseJS(o.data, jsmn_init).parser,
         NEW es, es = TokenElements(o.type, o.data)
  PROVE  DOMAIN es = 1..Count(o) /\ \A j \in 1..Count(o) : es[j] = ElementOf(o, j)
<1> DEFINE r == JsoniParseJS(o.data, jsmn_init)
           ts == r.parser.tokens
           kids == DirectChildren(r)
           child(n) == ts[1 + CHOOSE i \in kids : Cardinality({k \in kids : k < i}) = n - 1]
           Element(key, value) == [key |-> key, type |-> ObjectType(value, TextOf(o.data, value)),
                                   text |-> TextOf(o.data, value)]
<1>1. kids = Kids(ts) BY DEF DirectChildren, Kids
<1>2. \A n : child(n) = Nth(ts, n) BY <1>1 DEF Nth, Before
<1>3. es = IF o.type = "Array" THEN [n \in 1..Cardinality(kids) |-> Element(<<>>, child(n))]
           ELSE [n \in 1..Cardinality(kids) \div 2 |->
                   Element(TextOf(o.data, child(2 * n - 1)), child(2 * n))]
  BY DEF TokenElements
<1>4. o.parser.tokens = ts OBVIOUS
<1> HIDE DEF r, kids, child, ts
<1>5. CASE o.type = "Array"
  <2> DEFINE c == Cardinality(Kids(ts))
  <2>1. es = [n \in 1..c |-> Element(<<>>, child(n))] BY <1>1, <1>3, <1>5
  <2>2. Count(o) = c \div 1 /\ Per(o) = 1 BY <1>4, <1>5 DEF Count, Per
  <2>3. c \div 1 = c
    <3>1. c \in Nat
      <4>1. IsFiniteSet(Kids(ts)) BY <1>4, KidsCounted
      <4> QED BY <4>1, FS_CardinalityType
    <3> HIDE DEF c
    <3> QED BY <3>1
  <2>4. ASSUME NEW j \in 1..c PROVE es[j] = ElementOf(o, j)
    <3>1. es[j] = Element(<<>>, Nth(ts, j)) BY <1>2, <2>1, <2>4
    <3>2. 1 * j = j BY <2>4
    <3> QED BY <1>4, <1>5, <2>2, <3>1, <3>2 DEF ElementOf
  <2> QED BY <2>1, <2>2, <2>3, <2>4
<1>6. CASE o.type = "Object"
  <2> DEFINE c == Cardinality(Kids(ts)) \div 2
  <2>1. es = [n \in 1..c |-> Element(TextOf(o.data, child(2 * n - 1)), child(2 * n))]
    BY <1>1, <1>3, <1>6
  <2>2. Count(o) = c /\ Per(o) = 2 BY <1>4, <1>6 DEF Count, Per
  <2>3. ASSUME NEW j \in 1..c PROVE es[j] = ElementOf(o, j)
    <3>1. es[j] = Element(TextOf(o.data, Nth(ts, 2 * j - 1)), Nth(ts, 2 * j))
      BY <1>2, <2>1, <2>3
    <3> QED BY <1>4, <1>6, <2>2, <3>1 DEF ElementOf, KeyOf
  <2> QED BY <2>1, <2>2, <2>3
<1> QED BY <1>5, <1>6 DEF Shaped

(* The positions that a search may still find behind the first a, and the   *)
(* least of them.                                                           *)
AheadOf(es, type, a, names) ==
  {j \in DOMAIN es : j > a /\ (names = {} \/ type = "Array" \/ es[j].key \in names)}
IsNext(j, ahead) == j \in ahead /\ \A l \in ahead : j <= l

(* How many elements stand before the cursor.                               *)
LEMMA PassedIs ==
  ASSUME NEW o, Shaped(o), NEW a \in Nat, Cardinality(Before(o.parser.tokens, o.idx)) = Per(o) * a
  PROVE  Passed(o) = a
<1> DEFINE c == Cardinality(Before(o.parser.tokens, o.idx))
<1>1. Passed(o) = c \div Per(o)
  <2>1. DirectChildren(o) = Kids(o.parser.tokens) BY DEF DirectChildren, Kids
  <2> QED BY <2>1 DEF Passed, Before, Per
<1>2. c = Per(o) * a OBVIOUS
<1> HIDE DEF c
<1>3. CASE o.type = "Object"
  <2>1. Per(o) = 2 BY <1>3 DEF Per
  <2>2. c = 2 * a BY <1>2, <2>1
  <2>3. c \div 2 = a BY <2>2
  <2> QED BY <1>1, <2>1, <2>3
<1>4. CASE o.type # "Object"
  <2>1. Per(o) = 1 BY <1>4 DEF Per
  <2>2. c \div 1 = a BY <1>2, <2>1
  <2> QED BY <1>1, <2>1, <2>2
<1> QED BY <1>3, <1>4

(* Between two calls the children before the cursor are whole elements.     *)
LEMMA CursorPassed ==
  ASSUME NEW o, Shaped(o), Keyed(o), CursorOk(o)
  PROVE  /\ Passed(o) \in Nat
         /\ Cardinality(Before(o.parser.tokens, o.idx)) = Per(o) * Passed(o)
         /\ o.rem = 0 => Passed(o) = Count(o)
<1> DEFINE ts == o.parser.tokens
           all == Cardinality(Kids(ts))
           c == Cardinality(Before(ts, o.idx))
<1>1. \E a \in Nat : c = Per(o) * a /\ (o.rem = 0 => a = Count(o))
  <2>1. CASE o.idx = 0
    <3>1. Before(ts, 0) = {}
      <4>1. Len(ts) \in Nat BY WellParsedNumbers DEF Shaped, Numbers
      <4> QED BY <4>1 DEF Before, Kids
    <3>2. c = 0 BY <2>1, <3>1, FS_EmptySet
    <3>3. o.rem # 0 BY <2>1 DEF CursorOk
    <3>4. Per(o) * 0 = 0 BY DEF Per
    <3> QED BY <3>2, <3>3, <3>4
  <2>2. CASE o.idx # 0
    <3> DEFINE rem == o.rem
    <3>1. /\ all \in Nat /\ rem \in Nat /\ rem <= all /\ c = all - rem
          /\ o.type = "Object" => Even(rem) /\ Even(all)
      <4>1. Standing(ts, o.idx, o.rem) /\ o.idx \in Nat BY <2>2 DEF CursorOk
      <4>2. o.type = "Object" => Even(rem) /\ Even(all) BY <2>2 DEF CursorOk, Keyed
      <4> QED BY <4>1, <4>2, BeforeCounted
    <3>2. Count(o) = all \div Per(o) BY DEF Count
    <3> HIDE DEF all, c, rem
    <3>3. CASE o.type = "Object"
      <4>1. Per(o) = 2 BY <3>3 DEF Per
      <4> DEFINE a == (all - rem) \div 2
      <4>2. a \in Nat /\ c = 2 * a /\ (rem = 0 => a = all \div 2) BY <3>1, <3>3 DEF Even
      <4> QED BY <3>2, <4>1, <4>2 DEF rem
    <3>4. CASE o.type # "Object"
      <4>1. Per(o) = 1 BY <3>4 DEF Per
      <4> DEFINE a == all - rem
      <4>2. a \in Nat /\ c = 1 * a /\ (rem = 0 => a = all \div 1) BY <3>1
      <4> QED BY <3>2, <4>1, <4>2 DEF rem
    <3> QED BY <3>3, <3>4
  <2> QED BY <2>1, <2>2
<1>2. PICK a \in Nat : c = Per(o) * a /\ (o.rem = 0 => a = Count(o)) BY <1>1
<1>3. Passed(o) = a BY <1>2, PassedIs
<1> QED BY <1>2, <1>3

(* The wanted elements are those that are ahead.                            *)
LEMMA AheadIs ==
  ASSUME NEW o, Shaped(o), o.parser = JsoniParseJS(o.data, jsmn_init).parser,
         NEW es, es = TokenElements(o.type, o.data), NEW a \in Nat, NEW names
  PROVE  /\ Count(o) \in Nat
         /\ AheadOf(es, o.type, a, names) = {j \in a + 1..Count(o) : Wanted(o, names, j)}
<1>1. DOMAIN es = 1..Count(o) /\ \A j \in 1..Count(o) : es[j] = ElementOf(o, j) BY ElementsAre
<1>2. Count(o) \in Nat
  <2> DEFINE all == Cardinality(Kids(o.parser.tokens))
  <2>1. all \in Nat
    <3>1. IsFiniteSet(Kids(o.parser.tokens)) BY KidsCounted
    <3> QED BY <3>1, FS_CardinalityType
  <2>2. Count(o) = all \div Per(o) BY DEF Count
  <2> HIDE DEF all
  <2>3. all \div 2 \in Nat /\ all \div 1 \in Nat BY <2>1
  <2> QED BY <2>2, <2>3 DEF Per
<1>3. \A j \in 1..Count(o) :
        (names = {} \/ o.type = "Array" \/ es[j].key \in names) <=> Wanted(o, names, j)
  <2> SUFFICES ASSUME NEW j \in 1..Count(o)
               PROVE  (names = {} \/ o.type = "Array" \/ es[j].key \in names)
                      <=> Wanted(o, names, j)
    OBVIOUS
  <2>1. es[j] = ElementOf(o, j) BY <1>1
  <2>2. ElementOf(o, j).key = IF o.type = "Object" THEN KeyOf(o, j) ELSE <<>> BY DEF ElementOf
  <2> QED BY <2>1, <2>2 DEF Wanted, Shaped
<1>4. \A j : j \in 1..Count(o) /\ j > a <=> j \in a + 1..Count(o) BY <1>2
<1> QED BY <1>1, <1>2, <1>3, <1>4 DEF AheadOf

(* A container that is read is understood, keys and values included.        *)
LEMMA ReadIsKeyed ==
  ASSUME NEW W, Untroubled(W), GrammarAgrees(W), NEW o, IsObject(o), IsWalkable(o.type),
         CursorIsOk(W, o), o.state # "NOT_STARTED"
  PROVE  /\ Shaped(o) /\ Keyed(o) /\ CursorOk(o) /\ o.num # 0
         /\ o.parser = JsoniParseJS(o.data, jsmn_init).parser
         /\ Walk!Elements(o.data) = TokenElements(o.type, o.data)
<1> DEFINE w == <<o.type, o.data>>
           r == JsoniParseJS(o.data, jsmn_init)
           ts == r.parser.tokens
<1>1. /\ w \in W /\ o.parser = r.parser /\ o.num = r.num /\ CursorOk(o)
  BY DEF CursorIsOk
<1>2. Shaped(o) /\ o.num # 0 BY <1>1, ReadIsShaped
<1>3. w[1] = o.type /\ w[2] = o.data OBVIOUS
<1>4. /\ Walk!Elements(o.data) = TokenElements(o.type, o.data)
      /\ o.type = "Object" => KeysAndValues(o.data)
  <2> HIDE DEF w
  <2> QED BY <1>1, <1>3 DEF GrammarAgrees
<1>5. Keyed(o)
  <2>1. o.parser.tokens = ts BY <1>1
  <2>2. DirectChildren(r) = Kids(ts) BY DEF DirectChildren, Kids
  <2>3. KeysAndValues(o.data) <=>
          /\ Even(Cardinality(Kids(ts)))
          /\ \A d \in Kids(ts) : Even(Cardinality(Before(ts, d))) => ts[d + 1].type = "STRING"
    BY <2>2 DEF KeysAndValues, Even, Before
  <2> HIDE DEF r, ts
  <2> QED BY <1>4, <2>1, <2>3 DEF Keyed
<1> QED BY <1>1, <1>2, <1>4, <1>5

(* The element that was found.                                              *)
LEMMA FoundIs ==
  ASSUME NEW o, Shaped(o), o.parser = JsoniParseJS(o.data, jsmn_init).parser,
         NEW es, es = TokenElements(o.type, o.data), NEW a \in Nat, NEW names,
         NEW end, NEW j, Found(o, names, a, end, j), end.rem \in Nat,
         NEW token, token = o.parser.tokens[end.child + 1]
  PROVE  /\ IsNext(j, AheadOf(es, o.type, a, names))
         /\ es[j] = [key |-> end.key, type |-> ObjectType(token, TextOf(o.data, token)),
                     text |-> TextOf(o.data, token)]
<1> DEFINE ts == o.parser.tokens
           all == Cardinality(Kids(ts))
           rem == end.rem
           n == Count(o)
<1>1. /\ j \in Nat /\ a < j /\ NoneWanted(o, names, a, j - 1) /\ Wanted(o, names, j)
      /\ rem = all - Per(o) * j /\ token = Nth(ts, Per(o) * j)
      /\ end.key = IF o.type = "Object" THEN KeyOf(o, j) ELSE <<>>
  BY DEF Found, Per
<1>2. all \in Nat
  <2>1. IsFiniteSet(Kids(ts)) BY KidsCounted
  <2> QED BY <2>1, FS_CardinalityType
<1>3. n \in Nat /\ AheadOf(es, o.type, a, names) = {k \in a + 1..n : Wanted(o, names, k)}
  BY AheadIs
<1>4. n = all \div Per(o) BY DEF Count
<1> HIDE DEF all, rem, n
<1>5. j <= n
  <2>1. rem \in Nat BY DEF rem
  <2>2. CASE Per(o) = 2
    <3>1. 2 * j <= all BY <1>1, <1>2, <2>1, <2>2
    <3>2. j <= all \div 2 BY <1>1, <1>2, <3>1
    <3> QED BY <1>4, <2>2, <3>2
  <2>3. CASE Per(o) = 1
    <3>1. 1 * j <= all BY <1>1, <1>2, <2>1, <2>3
    <3>2. j <= all \div 1 BY <1>1, <1>2, <3>1
    <3> QED BY <1>4, <2>3, <3>2
  <2> QED BY <2>2, <2>3 DEF Per
<1>6. IsNext(j, AheadOf(es, o.type, a, names))
  <2>1. j \in a + 1..n /\ Wanted(o, names, j) BY <1>1, <1>3, <1>5
  <2>2. ASSUME NEW l \in a + 1..n, Wanted(o, names, l) PROVE j <= l
    <3>1. ~(l \in a + 1..j - 1) BY <1>1, <2>2 DEF NoneWanted
    <3> QED BY <1>1, <1>3, <2>2, <3>1
  <2> QED BY <1>3, <2>1, <2>2 DEF IsNext
<1>7. es[j] = ElementOf(o, j)
  <2>1. j \in 1..Count(o) BY <1>1, <1>3, <1>5 DEF n
  <2> QED BY <2>1, ElementsAre
<1> QED BY <1>1, <1>6, <1>7 DEF ElementOf

(* A search finds the next element that is ahead, or moves nothing when     *)
(* none is.                                                                 *)
LEMMA SearchIs ==
  ASSUME NEW W, Untroubled(W), GrammarAgrees(W), NEW o, IsObject(o), IsWalkable(o.type),
         CursorIsOk(W, o), o.state # "NOT_STARTED", ~Missed(o), o.rem # 0, NEW names
  PROVE  LET b == JsoniBrowseJsonFile(o, names)
             es == Walk!Elements(o.data)
             ahead == AheadOf(es, o.type, Passed(o), names)
             child == ChildOf(b.obj, b.token).public IN
         /\ b.obj.type = o.type /\ b.obj.data = o.data
         /\ \/ /\ b.err = "SUCCESS" /\ IsNext(Passed(b.obj), ahead)
               /\ es[Passed(b.obj)] = [key |-> b.key, type |-> child.type, text |-> child.text]
            \/ b.err = "TOKEN_NOT_FOUND" /\ ahead = {} /\ Passed(b.obj) = Passed(o)
<1> DEFINE b == JsoniBrowseJsonFile(o, names)
           end == EndOfWalk(o, names)
           es == Walk!Elements(o.data)
           ts == o.parser.tokens
           a == Passed(o)
           ahead == AheadOf(es, o.type, a, names)
           idx == end.idx
           rem == end.rem
           state == end.state
           found == [o EXCEPT !.state = state, !.idx = idx, !.rem = rem]
           lost == [o EXCEPT !.state = state]
<1>1. /\ Shaped(o) /\ Keyed(o) /\ CursorOk(o) /\ o.parser = JsoniParseJS(o.data, jsmn_init).parser
      /\ es = TokenElements(o.type, o.data) /\ o \in InternalObject
  BY ReadIsKeyed DEF IsObject
<1>2. a \in Nat /\ Cardinality(Before(ts, o.idx)) = Per(o) * a BY <1>1, CursorPassed
<1>3. ~(o.idx = 0 /\ o.state \in {"KEY", "SKIP", "PRINT"}) BY DEF Missed
<1>4. Searched(o, names, a, end) BY <1>1, <1>2, <1>3, EndFinds
<1>5. /\ b.obj = CursorAfter(o, end) /\ b.err = end.err
      /\ b.err = "SUCCESS" => Standing(ts, idx, rem) /\ idx \in Nat /\ rem \in Nat
  BY <1>1, <1>3, BrowseKeepsCursor
<1>6. b.key = end.key /\ b.token = IF end.child = None THEN UnusedToken
                                   ELSE TokenAt(ts, o.num, end.child)
  <2>1. b = [obj |-> CursorAfter(o, end), err |-> end.err, key |-> end.key,
             token |-> IF end.child = None THEN UnusedToken
                       ELSE TokenAt(ts, o.num, end.child)]
    BY BrowseIsRun
  <2> HIDE DEF b, end
  <2> QED BY <2>1
<1>7. b.obj = IF b.err = "SUCCESS" THEN found ELSE lost BY <1>5 DEF CursorAfter
<1> HIDE DEF b, end, idx, rem, state, es, a
<1>8. /\ found.parser = o.parser /\ found.type = o.type /\ found.data = o.data
      /\ found.idx = idx /\ found.num = o.num
  BY <1>1 DEF InternalObject
<1>9. lost.parser = o.parser /\ lost.type = o.type /\ lost.data = o.data /\ lost.idx = o.idx
  BY <1>1 DEF InternalObject
<1> HIDE DEF found, lost
<1>10. ASSUME b.err = "SUCCESS"
       PROVE  /\ b.obj.type = o.type /\ b.obj.data = o.data
              /\ IsNext(Passed(b.obj), ahead)
              /\ LET child == ChildOf(b.obj, b.token).public IN
                 es[Passed(b.obj)] = [key |-> b.key, type |-> child.type, text |-> child.text]
  <2>1. PICK j : Found(o, names, a, end, j) BY <1>4, <1>5, <1>10 DEF Searched
  <2>2. /\ j \in Nat /\ rem = Cardinality(Kids(ts)) - Per(o) * j /\ end.child \in Kids(ts)
    BY <2>1 DEF Found, Per, rem
  <2>3. b.token = ts[end.child + 1]
    <3> DEFINE k == end.child
    <3>1. Len(ts) \in Nat BY <1>1, WellParsedNumbers DEF Shaped, Numbers
    <3>2. k \in 1..Len(ts) - 1 BY <2>2 DEF Kids
    <3>3. k # None /\ k < Len(ts) BY <3>1, <3>2 DEF None
    <3>4. b.token = TokenAt(ts, o.num, k) BY <1>6, <3>3
    <3> HIDE DEF k
    <3>5. b.token = ts[k + 1] BY <3>3, <3>4 DEF TokenAt
    <3> QED BY <3>5 DEF k
  <2> DEFINE token == b.token
  <2>4. IsNext(j, ahead) /\ es[j] = [key |-> end.key,
                                     type |-> ObjectType(token, TextOf(o.data, token)),
                                     text |-> TextOf(o.data, token)]
    BY <1>1, <1>2, <1>5, <1>10, <2>1, <2>3, FoundIs DEF rem
  <2>5. b.obj = found BY <1>7, <1>10
  <2>6. Passed(found) = j
    <3>1. Standing(ts, idx, rem) /\ idx \in Nat /\ rem \in Nat BY <1>5, <1>10
    <3> DEFINE all == Cardinality(Kids(ts))
               c == Cardinality(Before(ts, idx))
               y == Per(o) * j
    <3>2. all \in Nat /\ c = all - rem BY <1>1, <3>1, BeforeCounted
    <3>3. y \in Nat /\ rem = all - y
      <4>1. Per(o) \in Nat BY DEF Per
      <4> QED BY <2>2, <4>1
    <3> HIDE DEF all, c, y
    <3>4. c = y BY <3>1, <3>2, <3>3
    <3>5. Per(found) = Per(o) BY <1>8 DEF Per
    <3>6. Shaped(found) BY <1>1, <1>8 DEF Shaped, Readable
    <3>7. Cardinality(Before(found.parser.tokens, found.idx)) = Per(found) * j
      BY <1>8, <3>4, <3>5 DEF c, y
    <3> QED BY <2>2, <3>6, <3>7, PassedIs
  <2>7. /\ ChildOf(found, token).public.text = TextOf(o.data, token)
        /\ ChildOf(found, token).public.type = ObjectType(token, TextOf(o.data, token))
    BY <1>8 DEF ChildOf
  <2> HIDE DEF token, ahead
  <2> QED BY <1>6, <1>8, <2>4, <2>5, <2>6, <2>7 DEF token
<1>11. ASSUME b.err # "SUCCESS"
       PROVE  /\ b.obj.type = o.type /\ b.obj.data = o.data
              /\ b.err = "TOKEN_NOT_FOUND" /\ ahead = {} /\ Passed(b.obj) = a
  <2>1. b.err = "TOKEN_NOT_FOUND" /\ NoneWanted(o, names, a, Count(o))
    BY <1>4, <1>5, <1>11 DEF Searched
  <2>2. ahead = {j \in a + 1..Count(o) : Wanted(o, names, j)} BY <1>1, <1>2, AheadIs
  <2>3. ahead = {} BY <2>1, <2>2 DEF NoneWanted
  <2>4. b.obj = lost BY <1>7, <1>11
  <2>5. Passed(lost) = Passed(o) BY <1>9 DEF Passed, DirectChildren
  <2> HIDE DEF ahead
  <2> QED BY <1>9, <2>1, <2>3, <2>4, <2>5 DEF a
<1> QED BY <1>10, <1>11 DEF b, es, a

-----------------------------------------------------------------------------
(* What an answer tells.                                                    *)

(* A public object and its internal one; they have the same type, except    *)
(* that a string has none inside.                                           *)
Agree(p, o) ==
  p.type \in ObjectTypes /\ (IsWalkable(p.type) \/ IsWalkable(o.type) => p.type = o.type)
View(p, o) == [type |-> p.type, text |-> o.data, passed |-> Passed(o)]

(* An object that was not read has passed nothing, and reading it does not  *)
(* change that.                                                             *)
LEMMA NothingPassed ==
  ASSUME NEW o, o.idx = 0 \/ o.parser = jsmn_init
  PROVE  Passed(o) = 0
<1> DEFINE S == {i \in DirectChildren(o) : i < o.idx}
<1>1. S = {}
  <2>1. CASE o.idx = 0
    <3>1. \A i \in DirectChildren(o) : i \in 1..Len(o.parser.tokens) - 1 BY DEF DirectChildren
    <3>2. \A i \in DirectChildren(o) : ~(i < 0) BY <3>1
    <3> QED BY <2>1, <3>2
  <2>2. CASE o.parser = jsmn_init
    <3>1. o.parser.tokens = <<>> BY <2>2 DEF jsmn_init
    <3>2. Len(o.parser.tokens) = 0 BY <3>1
    <3>3. DirectChildren(o) = {}
      <4>1. \A i : ~(i \in 1..0 - 1) OBVIOUS
      <4> QED BY <3>2, <4>1 DEF DirectChildren
    <3> QED BY <3>3
  <2> QED BY <2>1, <2>2
<1>2. Cardinality(S) = 0 BY <1>1, FS_EmptySet
<1>3. Passed(o) = Cardinality(S) \div (IF o.type = "Object" THEN 2 ELSE 1) BY DEF Passed
<1>4. 0 \div 2 = 0 /\ 0 \div 1 = 0 OBVIOUS
<1> QED BY <1>2, <1>3, <1>4

LEMMA NewPassed ==
  ASSUME NEW type, NEW data
  PROVE  Passed(NewObject(type, data)) = 0
<1>1. NewObject(type, data).idx = 0 BY DEF NewObject
<1> QED BY <1>1, NothingPassed

LEMMA PreparedPassed ==
  ASSUME NEW o, IsObject(o), NEW p, p = Prepared(o)
  PROVE  p.obj.type = o.type /\ p.obj.data = o.data /\ Passed(p.obj) = Passed(o)
<1>1. CASE o.state = "NOT_STARTED" /\ IsWalkable(o.type)
  <2> DEFINE r == JsoniParseJS(o.data, o.parser)
             parser == r.parser
             num == r.num
             d == [o EXCEPT !.parser = parser, !.num = num, !.idx = 0, !.rem = 1, !.state = "START"]
  <2>1. p.obj = d BY <1>1 DEF Prepared, Parsed
  <2> HIDE DEF parser, num, r
  <2>2. o \in InternalObject /\ o.parser = jsmn_init BY <1>1 DEF IsObject, ParserOk
  <2>3. d.type = o.type /\ d.data = o.data /\ d.idx = 0 BY <2>2 DEF InternalObject
  <2> HIDE DEF d
  <2>4. Passed(d) = 0 /\ Passed(o) = 0 BY <2>2, <2>3, NothingPassed
  <2> QED BY <2>1, <2>3, <2>4
<1>2. CASE ~(o.state = "NOT_STARTED" /\ IsWalkable(o.type))
  <2>1. p.obj = o BY <1>2 DEF Prepared
  <2> QED BY <2>1
<1> QED BY <1>1, <1>2

LEMMA ChildAgrees ==
  ASSUME NEW o, NEW token, NEW c, c = ChildOf(o, token)
  PROVE  /\ Agree(c.public, c.internal)
         /\ c.internal.data = c.public.text /\ Passed(c.internal) = 0
<1> DEFINE text == TextOf(o.data, token)  type == ObjectType(token, text)
           inner == InternalType(type)
<1>1. c.public = [type |-> type, text |-> text] /\ c.internal = NewObject(inner, text)
  BY DEF ChildOf
<1>2. type \in ObjectTypes BY DEF ObjectType, ObjectTypes
<1>3. IsWalkable(type) \/ IsWalkable(inner) => type = inner
  <2> HIDE DEF type
  <2> QED BY DEF InternalType, IsWalkable
<1> HIDE DEF text, type, inner
<1>4. c.internal.type = inner /\ c.internal.data = text BY <1>1 DEF NewObject
<1>5. Passed(c.internal) = 0 BY <1>1, NewPassed
<1> QED BY <1>1, <1>2, <1>3, <1>4, <1>5 DEF Agree

(* How the container of r stands after an answer, and what the host gets.   *)
AheadOfObject(o, names) == AheadOf(Walk!Elements(o.data), o.type, Passed(o), names)
AnswerTells(r, names, a) ==
  LET o == Internal(r)
      n == a.table.pEntries[objects[r].hJson]
      es == Walk!Elements(o.data)
      gives(p) ==
        LET c == a.table.pEntries[p.hJson]
        IN  /\ a.objects = [objects EXCEPT ![FreeRef] = p]
            /\ p.hJson \in Used(a.table) \ Used(Table)
            /\ Agree(p, c) /\ View(p, c) = Walk!Opened(a.element.type, a.element.text)
            /\ p.key = a.element.key
  IN  /\ a.kind \in {"refused", "none", "element"}
      /\ n.type = o.type /\ n.data = o.data
      /\ a.kind = "refused" <=> ~IsWalkable(o.type)
      /\ a.kind # "element" => Passed(n) = Passed(o)
      /\ a.kind = "none" => AheadOfObject(o, names) = {}
      /\ a.kind = "element" => /\ IsNext(Passed(n), AheadOfObject(o, names))
                               /\ a.element = es[Passed(n)]
                               /\ \E p : gives(p)

LEMMA AnswerIsTold ==
  ASSUME NEW W, Untroubled(W), GrammarAgrees(W), TableInv, CursorsOk(W, Table),
         NEW r \in Refs, Held(r), ~Missed(Internal(r)), NEW names, NEW a \in GetNext(r, names)
  PROVE  AnswerTells(r, names, a)
<1> DEFINE h == objects[r].hJson
           o == Internal(r)
           with(x) == [Table EXCEPT !.pEntries[objects[r].hJson] = x]
           answer(table, err, kind) == [table |-> table, objects |-> objects,
                                        element |-> Null, err |-> err, kind |-> kind]
           p == Prepared(o)
           b == JsoniBrowseJsonFile(p.obj, names)
           child == ChildOf(b.obj, b.token)
           table == JsoniNewInternalObject(with(b.obj), child.internal)
           public == [type |-> child.public.type, key |-> b.key,
                      text |-> child.public.text, hJson |-> NewHandle(with(b.obj))]
           element == [type |-> child.public.type, key |-> b.key, text |-> child.public.text]
           found == [answer(table, "NO_ERROR", "element")
                       EXCEPT !.element = element, !.objects[FreeRef] = public]
           ahead == AheadOfObject(o, names)
<1>1. /\ TableOk(Table) /\ h \in Used(Table) /\ IsObject(o) /\ CursorIsOk(W, o)
      /\ Table.pEntries[h] = o
  BY InternalFacts DEF TableInv, CursorsOk, Internal
<1>2. a = IF ~IsWalkable(p.obj.type) THEN answer(Table, "INVALID_JSON_FILE", "refused")
          ELSE IF p.err # "NO_ERROR" THEN answer(with(p.obj), p.err, "refused")
          ELSE IF p.obj.rem = 0 THEN answer(Table, "NO_ERROR", "none")
          ELSE IF p.obj.num = 0 \/ b.err = "WILD" THEN answer(Table, "NO_ERROR", "crashed")
          ELSE CASE b.err = "TOKEN_NOT_FOUND" -> answer(with(b.obj), "NO_ERROR", "none")
                 [] b.err = "SUCCESS" -> found
                 [] OTHER -> answer(with(b.obj), b.err, "refused")
  <2>1. a = AnswerFrom(r, p, b) BY DEF GetNext
  <2> QED BY <2>1 DEF AnswerFrom
<1>3. p.obj.type = o.type /\ p.obj.data = o.data /\ Passed(p.obj) = Passed(o)
  <2>1. p = Prepared(o) OBVIOUS
  <2> HIDE DEF o, p
  <2> QED BY <1>1, <2>1, PreparedPassed
<1>4. ASSUME NEW x, IsObject(x)
      PROVE  /\ TableOk(with(x)) /\ Used(with(x)) = Used(Table) /\ with(x).pEntries[h] = x
  <2> DEFINE t == Table  u == [t EXCEPT !.pEntries[h] = x]
  <2>1. TableOk(t) /\ h \in Used(t) BY <1>1
  <2>2. u = [t EXCEPT !.pEntries[h] = x] OBVIOUS
  <2> HIDE DEF t, h, u
  <2>3. TableOk(u) /\ Used(u) = Used(t) BY <1>4, <2>1, <2>2, ReplacedFacts
  <2>4. u.pEntries = [t.pEntries EXCEPT ![h] = x] BY <2>1, <2>2 DEF TableOk
  <2>5. u.pEntries[h] = x BY <2>1, <2>4 DEF Used
  <2> QED BY <2>3, <2>5 DEF t, h, u
<1>5. CASE ~IsWalkable(o.type)
  <2>1. a = answer(Table, "INVALID_JSON_FILE", "refused") BY <1>2, <1>3, <1>5
  <2>2. a.table = Table /\ a.kind = "refused" BY <2>1
  <2> HIDE DEF o, p, b, found, answer, ahead, h
  <2>3. a.table.pEntries[h] = o BY <1>1, <2>2
  <2> QED BY <1>5, <2>2, <2>3 DEF AnswerTells, o, h
<1>6. CASE IsWalkable(o.type)
  <2>1. /\ IsObject(p.obj) /\ CursorIsOk(W, p.obj) /\ ~Missed(p.obj)
        /\ IsWalkable(p.obj.type) /\ p.obj.state # "NOT_STARTED"
        /\ p.err = "NO_ERROR" /\ p.obj.num # 0
    <3>1. p = Prepared(o) OBVIOUS
    <3> HIDE DEF p, o
    <3> QED BY <1>1, <1>6, <3>1, PreparedIsOk DEF o
  <2> DEFINE q == p.obj
             es == Walk!Elements(q.data)
  <2>2. ahead = AheadOf(es, q.type, Passed(q), names) /\ es = Walk!Elements(o.data)
    BY <1>3 DEF AheadOfObject
  <2> HIDE DEF p, o
  <2>3. CASE q.rem = 0
    <3>1. a = answer(Table, "NO_ERROR", "none") BY <1>2, <2>1, <2>3
    <3>2. a.table = Table /\ a.kind = "none" BY <3>1
    <3>3. ahead = {}
      <4>1. /\ Shaped(q) /\ Keyed(q) /\ CursorOk(q) /\ es = TokenElements(q.type, q.data)
            /\ q.parser = JsoniParseJS(q.data, jsmn_init).parser
        BY <2>1, ReadIsKeyed
      <4> HIDE DEF q, es
      <4> DEFINE k == Passed(q)
      <4>2. k \in Nat /\ k = Count(q) BY <2>3, <4>1, CursorPassed
      <4>3. AheadOf(es, q.type, k, names) = {j \in k + 1..Count(q) : Wanted(q, names, j)}
        BY <4>1, <4>2, AheadIs
      <4>4. k + 1..k = {} BY <4>2
      <4> QED BY <2>2, <4>2, <4>3, <4>4
    <3> HIDE DEF b, found, answer, ahead, q, es, h
    <3>4. a.table.pEntries[h] = o BY <1>1, <3>2
    <3> QED BY <1>6, <3>2, <3>3, <3>4 DEF AnswerTells, o, h, ahead
  <2>4. CASE q.rem # 0
    <3>1. /\ b.obj.type = q.type /\ b.obj.data = q.data
          /\ \/ /\ b.err = "SUCCESS" /\ IsNext(Passed(b.obj), ahead)
                /\ es[Passed(b.obj)] = [key |-> b.key, type |-> child.public.type,
                                        text |-> child.public.text]
             \/ b.err = "TOKEN_NOT_FOUND" /\ ahead = {} /\ Passed(b.obj) = Passed(q)
      BY <2>1, <2>2, <2>4, SearchIs
    <3>2. IsObject(b.obj) /\ b.token \in TokenOf(q.data) \cup Blanks BY <2>1, BrowsedFacts
    <3>3. a = CASE b.err = "TOKEN_NOT_FOUND" -> answer(with(b.obj), "NO_ERROR", "none")
                [] b.err = "SUCCESS" -> found
                [] OTHER -> answer(with(b.obj), b.err, "refused")
      <4>1. b.err # "WILD" BY <3>1
      <4> QED BY <1>2, <2>1, <2>4, <4>1
    <3> HIDE DEF b, ahead, es
    <3> DEFINE t == with(b.obj)
               y == b.obj
    <3>4. TableOk(t) /\ Used(t) = Used(Table) /\ t.pEntries[h] = y
      <4>1. IsObject(y) /\ t = with(y) BY <3>2
      <4> HIDE DEF y, h, with
      <4> QED BY <1>4, <4>1
    <3>5. CASE b.err = "TOKEN_NOT_FOUND"
      <4>1. a = answer(t, "NO_ERROR", "none") BY <3>3, <3>5
      <4>2. a.table = t /\ a.kind = "none" BY <4>1
      <4> HIDE DEF answer, found, t, h
      <4>3. a.table.pEntries[h] = y BY <3>4, <4>2
      <4>4. y.type = o.type /\ y.data = o.data /\ Passed(y) = Passed(o) /\ ahead = {}
        BY <1>3, <3>1, <3>5
      <4> HIDE DEF y
      <4> QED BY <1>6, <4>2, <4>3, <4>4 DEF AnswerTells, o, h, ahead
    <3>6. CASE b.err = "SUCCESS"
      <4> DEFINE c == child.internal
                 u == a.table
                 f == NewHandle(t)
      <4>1. a = found BY <3>3, <3>6
      <4>2. /\ u = JsoniNewInternalObject(t, c) /\ a.kind = "element" /\ a.element = element
            /\ a.objects = [objects EXCEPT ![FreeRef] = public]
        BY <4>1
      <4>3. /\ Agree(child.public, c) /\ c.data = child.public.text /\ Passed(c) = 0
        <5> DEFINE d == child
        <5>1. d = ChildOf(b.obj, b.token) OBVIOUS
        <5> HIDE DEF d
        <5> QED BY <5>1, ChildAgrees DEF d
      <4>4. IsObject(c)
        <5>1. y.data \in Seq(Chars) /\ b.token \in TokenOf(y.data) \cup Blanks
          BY <3>1, <3>2, ObjectFields DEF IsObject
        <5>2. c = ChildOf(y, b.token).internal OBVIOUS
        <5> HIDE DEF c, y
        <5> QED BY <5>1, <5>2, ChildFacts
      <4>5. /\ public.hJson = f /\ public.type = child.public.type /\ public.key = b.key
            /\ element.type = child.public.type /\ element.text = child.public.text
            /\ element.key = b.key
            /\ element = [key |-> b.key, type |-> child.public.type, text |-> child.public.text]
        OBVIOUS
      <4>6. y.type = o.type /\ y.data = o.data BY <1>3, <3>1
      <4>7. IsNext(Passed(y), ahead) /\ es[Passed(y)] = a.element BY <3>1, <3>6, <4>2
      <4>8. f = NewHandle(t) OBVIOUS
      <4> HIDE DEF c, t, u, f, found, answer, public, child, element, y, h, q
      <4>9. /\ f \in Used(u) \ Used(t) /\ u.pEntries[f] = c
            /\ \A k \in Used(t) : u.pEntries[k] = t.pEntries[k]
        BY <3>4, <4>2, <4>4, <4>8, NewInternalObjectFacts
      <4>10. u.pEntries[h] = y BY <1>1, <3>4, <4>9
      <4>11. Agree(public, c) BY <4>3, <4>5 DEF Agree
      <4>12. View(public, c) = Walk!Opened(a.element.type, a.element.text)
        BY <4>2, <4>3, <4>5 DEF View, Walk!Opened
      <4>13. public.hJson \in Used(u) \ Used(Table) /\ u.pEntries[public.hJson] = c
             /\ public.key = a.element.key
        BY <3>4, <4>2, <4>5, <4>9
      <4>14. a.element = Walk!Elements(o.data)[Passed(y)] BY <2>2, <4>7
      <4> HIDE DEF ahead
      <4> QED BY <1>6, <4>2, <4>6, <4>7, <4>10, <4>11, <4>12, <4>13, <4>14
              DEF AnswerTells, o, h, ahead, u
    <3> QED BY <3>1, <3>5, <3>6
  <2> QED BY <2>3, <2>4
<1> QED BY <1>5, <1>6

-----------------------------------------------------------------------------
(* What the host has open.                                                  *)

ViewIn(os, t) ==
  [r \in Refs |-> IF os[r] = NoObject THEN NoObject ELSE View(os[r], t.pEntries[os[r].hJson])]

LEMMA ViewsAre ==
  /\ TableInv => OpenView = ViewIn(objects, Table)
  /\ TableInv' => OpenView' = ViewIn(objects', Table')
<1>1. ASSUME NEW os, NEW t, TableOk(t), HoldersOk(os, t), NEW r \in Refs, os[r] # NoObject
      PROVE  t.pEntries[os[r].hJson] # NoObject
  BY <1>1 DEF HoldersOk, Used
<1>2. ASSUME TableInv PROVE OpenView = ViewIn(objects, Table)
  <2>1. \A r \in Refs : Held(r) => Internal(r) # NoObject
    BY <1>1, <1>2 DEF TableInv, Held, Internal
  <2> QED BY <2>1 DEF OpenView, ViewIn, View, Held, Internal
<1>3. ASSUME TableInv' PROVE OpenView' = ViewIn(objects', Table')
  <2>1. \A r \in Refs : Held(r)' => Internal(r)' # NoObject
    BY <1>1, <1>3 DEF TableInv, Held, Internal
  <2> QED BY <2>1 DEF OpenView, ViewIn, View, Held, Internal
<1> QED BY <1>2, <1>3

(* An object is no free entry.                                              *)
LEMMA ViewIsOpen ==
  ASSUME NEW p, NEW o, p.type \in ObjectTypes
  PROVE  View(p, o) # NoObject
<1>1. View(p, o).type = p.type BY DEF View
<1>2. NoObject.type = Null BY DEF NoObject
<1> QED BY <1>1, <1>2, NullAssumption

LEMMA PassedIsNat ==
  ASSUME NEW o, IsObject(o)
  PROVE  Passed(o) \in Nat
<1> DEFINE n == Len(o.parser.tokens) - 1
           S == {i \in DirectChildren(o) : i < o.idx}
           c == Cardinality(S)
<1>1. n \in Int
  <2>1. Len(o.parser.tokens) \in Nat BY ParserFields DEF IsObject, ParserOk
  <2> QED BY <2>1
<1>2. S \subseteq 1..n BY DEF DirectChildren
<1> HIDE DEF n
<1>3. IsFiniteSet(1..n) BY <1>1, FS_Interval
<1>4. c \in Nat BY <1>2, <1>3, FS_Subset, FS_CardinalityType
<1>5. Passed(o) = c \div (IF o.type = "Object" THEN 2 ELSE 1) BY DEF Passed
<1> HIDE DEF c
<1>6. c \div 2 \in Nat /\ c \div 1 \in Nat BY <1>4
<1> QED BY <1>5, <1>6

(* A variable to which nothing happens.                                     *)
Unmoved(r) ==
  objects'[r] = objects[r] /\ (Held(r) => Table'.pEntries[objects[r].hJson] = Internal(r))

LEMMA ViewsMove ==
  ASSUME TableInv, TableInv', NEW r \in Refs, \A s \in Refs \ {r} : Unmoved(s)
  PROVE  OpenView' = [OpenView EXCEPT ![r] = ViewIn(objects', Table')[r]]
<1>1. OpenView = ViewIn(objects, Table) /\ OpenView' = ViewIn(objects', Table') BY ViewsAre
<1>2. \A s \in Refs \ {r} : ViewIn(objects', Table')[s] = ViewIn(objects, Table)[s]
  BY DEF ViewIn, Unmoved, Held, Internal
<1>3. /\ ViewIn(objects', Table') = [s \in Refs |-> ViewIn(objects', Table')[s]]
      /\ DOMAIN ViewIn(objects, Table) = Refs
  BY DEF ViewIn
<1> QED BY <1>1, <1>2, <1>3

LEMMA ViewsStay ==
  ASSUME TableInv, TableInv', \A s \in Refs : Unmoved(s)
  PROVE  OpenView' = OpenView
<1>1. OpenView = ViewIn(objects, Table) /\ OpenView' = ViewIn(objects', Table') BY ViewsAre
<1>2. \A s \in Refs : ViewIn(objects', Table')[s] = ViewIn(objects, Table)[s]
  BY DEF ViewIn, Unmoved, Held, Internal
<1>3. /\ ViewIn(objects', Table') = [s \in Refs |-> ViewIn(objects', Table')[s]]
      /\ ViewIn(objects, Table) = [s \in Refs |-> ViewIn(objects, Table)[s]]
  BY DEF ViewIn
<1> QED BY <1>1, <1>2, <1>3

(* What a loop has counted: the elements it was asked for, between the one  *)
(* it started behind and the cursor, the one of the callback that runs      *)
(* excepted.                                                                *)
Asked(es, request, j) == request = Null \/ es[j].key \in request.keys
Behind(es, request, from, k) ==
  {j \in DOMAIN es : from < j /\ j <= k /\ Asked(es, request, j)}
Now(l) == IF l.elem = Null THEN 0 ELSE 1
CountsIn(l, o) ==
  /\ l.from \in Nat /\ l.count \in Nat /\ l.from <= Passed(o)
  /\ Cardinality(Behind(Walk!Elements(o.data), l.request, l.from, Passed(o))) = l.count + Now(l)

WalkInv ==
  /\ \A r \in Refs : Held(r) => Agree(objects[r], Internal(r))
  /\ Looping => IsWalkable(objects[loop.ref].type) /\ CountsIn(loop, Internal(loop.ref))

(* A step that leaves the container of a loop alone.                        *)
LEMMA WalkInvStays ==
  ASSUME TableInv, WalkInv,
         \A r \in Refs : \/ Unmoved(r)
                         \/ objects'[r] # NoObject
                            => Agree(objects'[r], Table'.pEntries[objects'[r].hJson]),
         Looping' => /\ Looping /\ Unmoved(loop.ref) /\ loop'.ref = loop.ref
                     /\ loop'.request = loop.request /\ loop'.from = loop.from
                     /\ loop'.count \in Nat /\ loop'.count + Now(loop') = loop.count + Now(loop)
  PROVE  WalkInv'
<1>1. ASSUME NEW r \in Refs, Held(r)' PROVE Agree(objects[r], Internal(r))'
  <2>1. objects'[r] # NoObject BY <1>1 DEF Held
  <2>2. Unmoved(r) => Held(r) /\ Internal(r)' = Internal(r)
    BY <2>1 DEF Unmoved, Held, Internal
  <2>3. Agree(objects'[r], Internal(r)') BY <2>1, <2>2 DEF WalkInv, Unmoved, Internal
  <2> QED BY <2>3 DEF Agree
<1>2. ASSUME Looping'
      PROVE  IsWalkable(objects'[loop'.ref].type) /\ CountsIn(loop, Internal(loop.ref))'
  <2> DEFINE q == loop.ref  o == Internal(q)
  <2>1. Looping /\ Unmoved(q) /\ loop'.ref = q /\ q \in Refs /\ Held(q) BY <1>2, LoopFacts
  <2>2. objects'[q] = objects[q] /\ Internal(loop.ref)' = o BY <2>1 DEF Unmoved, Internal
  <2>3. IsWalkable(objects[q].type) /\ CountsIn(loop, o) BY <2>1 DEF WalkInv
  <2> HIDE DEF q, o
  <2>4. CountsIn(loop', o)
    <3>1. /\ loop'.request = loop.request /\ loop'.from = loop.from
          /\ loop'.count \in Nat /\ loop'.count + Now(loop') = loop.count + Now(loop)
      BY <1>2
    <3> QED BY <2>3, <3>1 DEF CountsIn
  <2>5. CountsIn(loop, Internal(loop.ref))' BY <2>2, <2>4 DEF CountsIn, Now
  <2> QED BY <2>1, <2>2, <2>3, <2>5
<1> QED BY <1>1, <1>2 DEF WalkInv

(* The elements of a container that is walked are numbered.                 *)
LEMMA ElementsNumbered ==
  ASSUME NEW W, Untroubled(W), GrammarAgrees(W), NEW o, IsObject(o), CursorIsOk(W, o),
         ~Missed(o), IsWalkable(o.type)
  PROVE  \E n \in Nat : DOMAIN Walk!Elements(o.data) = 1..n
<1> DEFINE p == Prepared(o)
           q == p.obj
<1>1. p = Prepared(o) OBVIOUS
<1> HIDE DEF p
<1>2. q.data = o.data BY <1>1, PreparedPassed
<1>3. IsObject(q) /\ CursorIsOk(W, q) /\ IsWalkable(q.type) /\ q.state # "NOT_STARTED"
  BY <1>1, PreparedIsOk
<1> HIDE DEF q
<1>4. /\ Shaped(q) /\ q.parser = JsoniParseJS(q.data, jsmn_init).parser
      /\ Walk!Elements(q.data) = TokenElements(q.type, q.data)
  BY <1>3, ReadIsKeyed
<1>5. DOMAIN Walk!Elements(q.data) = 1..Count(q) BY <1>4, ElementsAre
<1> DEFINE a == 0
<1>6. a \in Nat OBVIOUS
<1> HIDE DEF a
<1>7. Count(q) \in Nat BY <1>4, <1>6, AheadIs
<1> QED BY <1>2, <1>5, <1>7

(* A loop that takes the next element counts it when it was asked for it.   *)
LEMMA OneMoreBehind ==
  ASSUME NEW es, NEW n \in Nat, DOMAIN es = 1..n, NEW from \in Nat, NEW a \in Nat, from <= a,
         NEW type, NEW request, NEW j, IsNext(j, AheadOf(es, type, a, {}))
  PROVE  /\ j \in Nat /\ from <= j /\ j \in DOMAIN es
         /\ Cardinality(Behind(es, request, from, a)) \in Nat
         /\ Cardinality(Behind(es, request, from, j))
            = Cardinality(Behind(es, request, from, a)) + IF Asked(es, request, j) THEN 1 ELSE 0
<1> DEFINE A == Behind(es, request, from, a)
           J == Behind(es, request, from, j)
<1>1. j \in 1..n /\ j > a /\ \A l \in 1..n : l > a => j <= l BY DEF IsNext, AheadOf
<1>2. IsFiniteSet(A)
  <2>1. A \subseteq 1..n BY DEF Behind
  <2>2. IsFiniteSet(1..n) BY FS_Interval
  <2> QED BY <2>1, <2>2, FS_Subset
<1>3. Cardinality(A) \in Nat BY <1>2, FS_CardinalityType
<1>4. j \notin A BY <1>1 DEF Behind
<1>5. \A l \in 1..n : l <= j <=> l <= a \/ l = j BY <1>1
<1>6. from < j BY <1>1
<1>7. CASE Asked(es, request, j)
  <2>1. J = A \cup {j} BY <1>1, <1>5, <1>6, <1>7 DEF Behind
  <2> HIDE DEF A, J
  <2>2. Cardinality(J) = Cardinality(A) + 1 BY <1>2, <1>4, <2>1, FS_AddElement
  <2> QED BY <1>1, <1>3, <1>6, <1>7, <2>2 DEF A, J
<1>8. CASE ~Asked(es, request, j)
  <2>1. J = A BY <1>1, <1>5, <1>8 DEF Behind
  <2> HIDE DEF A
  <2>2. Cardinality(J) = Cardinality(A) + 0 BY <1>3, <2>1
  <2> QED BY <1>1, <1>3, <1>6, <1>8, <2>2 DEF A
<1> QED BY <1>7, <1>8

LEMMA AllBehind ==
  ASSUME NEW es, NEW n \in Nat, DOMAIN es = 1..n, NEW from, NEW a \in Nat,
         NEW type, NEW request, AheadOf(es, type, a, {}) = {}
  PROVE  Behind(es, request, from, a) = {j \in DOMAIN es : j > from /\ Asked(es, request, j)}
<1>1. \A j \in 1..n : j <= a BY DEF AheadOf
<1>2. \A j \in 1..n : from < j <=> j > from OBVIOUS
<1> QED BY <1>1, <1>2 DEF Behind

LEMMA NoneBehind ==
  ASSUME NEW es, NEW n \in Nat, DOMAIN es = 1..n, NEW a \in Nat, NEW request
  PROVE  Cardinality(Behind(es, request, a, a)) = 0
<1>1. Behind(es, request, a, a) = {} BY DEF Behind
<1> QED BY <1>1, FS_EmptySet

-----------------------------------------------------------------------------
(* The steps: each does what JsonWalk says, and keeps the count of a loop   *)
(* and the types of the objects. The loops tell what they have counted.     *)

Implements == Walk!Next /\ WalkInv' /\ LoopCountsEach'

LEMMA NotLooped ==
  ASSUME told'.kind # "looped"
  PROVE  LoopCountsEach'
BY DEF LoopCountsEach

LEMMA KindTold ==
  ASSUME NEW kind, NEW err, NEW r
  PROVE  /\ Returns(err, Told(kind)) => told'.kind = kind
         /\ Returns(err, [Told(kind) EXCEPT !.ref = r]) => told'.kind = kind /\ told'.ref = r
BY DEF Returns, Told

(* A step outside of the loops, which go on.                                *)
LEMMA LoopGoesOn ==
  ASSUME TableInv, WalkInv, loop' = loop, Looping => Unmoved(loop.ref),
         \A r \in Refs : \/ Unmoved(r)
                         \/ objects'[r] # NoObject
                            => Agree(objects'[r], Table'.pEntries[objects'[r].hJson])
  PROVE  WalkInv'
<1>1. Looping' => /\ Looping /\ Unmoved(loop.ref) /\ loop'.ref = loop.ref
                  /\ loop'.request = loop.request /\ loop'.from = loop.from
                  /\ loop'.count \in Nat /\ loop'.count + Now(loop') = loop.count + Now(loop)
  <2> SUFFICES ASSUME Looping' PROVE Looping /\ Unmoved(loop.ref) /\ loop.count \in Nat
    OBVIOUS
  <2>1. Looping BY DEF Looping
  <2>2. loop.count \in Nat BY <2>1 DEF WalkInv, CountsIn
  <2> QED BY <2>1, <2>2
<1> QED BY <1>1, WalkInvStays

(* Calls that change no object.                                             *)
LEMMA OthersImplement ==
  ASSUME TableInv, TableInv', WalkInv, NEW r \in Refs, CarefulHost,
         NEW W, Untroubled(W), GrammarAgrees(W), CursorInv(W),
         \/ RestartRefused(r)
         \/ \E request \in Requests \cup {Null} :
              ForeachStart(r, request) \/ ForeachRefused(r, request)
  PROVE  Implements
<1>1. UNCHANGED <<gs_sJsonHandleTable, objects>>
  BY DEF RestartRefused, ForeachRefused, ForeachStart
<1>2. \A s \in Refs : Unmoved(s) BY <1>1 DEF Unmoved, Table, Internal
<1>3. OpenView' = OpenView BY <1>2, ViewsStay
<1>4. ASSUME loop' = loop PROVE WalkInv'
  <2>1. Looping => Unmoved(loop.ref) BY <1>2, LoopFacts
  <2> QED BY <1>2, <1>4, <2>1, LoopGoesOn
<1>5. CASE RestartRefused(r)
  <2>1. told'.kind = "refused" /\ told'.ref = r /\ loop' = loop
    BY <1>5, KindTold DEF RestartRefused
  <2>2. Held(r) /\ Agree(objects[r], Internal(r)) BY <1>5
    DEF RestartRefused, MayUse, WalkInv
  <2>3. ~IsWalkable(objects[r].type)
    BY <1>5, <2>2 DEF RestartRefused, Agree
  <2>4. OpenView[r].type = objects[r].type
    BY <2>2, ViewsAre DEF ViewIn, View, Held
  <2>5. Walk!Refuse(r)
    BY <1>3, <2>1, <2>3, <2>4 DEF Walk!Refuse, Walk!ToldOf, Walk!IsContainer, IsWalkable
  <2> QED BY <1>4, <2>1, <2>5, NotLooped DEF Implements, Walk!Next
<1>6. ASSUME NEW request, ForeachRefused(r, request) PROVE Implements
  <2>1. /\ told'.kind = "noloop" /\ told'.ref = r /\ told'.requested = (request # Null)
        /\ loop' = loop /\ Held(r) /\ ~Loopable(r, request)
    BY <1>6 DEF ForeachRefused, Returns, MayUse
  <2>2. OpenView[r].type = objects[r].type
    BY <2>1, ViewsAre DEF ViewIn, View, Held
  <2>3. Walk!IsContainer(r) => OpenView[r].type = "Array" /\ told'.requested
    BY <2>1, <2>2 DEF Walk!IsContainer, Loopable, IsWalkable
  <2>4. Walk!RefuseLoop(r)
    BY <1>3, <2>1, <2>3 DEF Walk!RefuseLoop, Walk!ToldOf
  <2> QED BY <1>4, <2>1, <2>4, NotLooped DEF Implements, Walk!Next
<1>7. ASSUME NEW request, ForeachStart(r, request) PROVE Implements
  <2> DEFINE o == Internal(r)  es == Walk!Elements(o.data)  k == Passed(o)
  <2>1. told'.kind = "looping" /\ loop' = Started(r, request) /\ Held(r)
    BY <1>7, KindTold DEF ForeachStart, MayUse
  <2>2. IsWalkable(objects[r].type) /\ ~Missed(o) BY <1>7 DEF ForeachStart, Loopable
  <2>3. Walk!Other BY <1>3, <2>1 DEF Walk!Other
  <2>4. /\ loop'.ref = r /\ loop'.request = request /\ loop'.elem = Null
        /\ loop'.count = 0 /\ loop'.from = k
    BY <2>1 DEF Started
  <2>5. /\ IsObject(o) /\ CursorIsOk(W, o) /\ Agree(objects[r], o)
    BY <2>1, InternalFacts DEF CursorInv, CursorsOk, WalkInv, Internal
  <2>6. Internal(loop.ref)' = o /\ objects'[loop'.ref] = objects[r]
    BY <1>1, <2>4 DEF Internal, Table
  <2> HIDE DEF o
  <2>7. k \in Nat BY <2>5, PassedIsNat
  <2>8. PICK n \in Nat : DOMAIN es = 1..n
    BY <2>2, <2>5, ElementsNumbered DEF Agree
  <2> HIDE DEF es, k
  <2>9. Cardinality(Behind(es, request, k, k)) = 0 BY <2>7, <2>8, NoneBehind
  <2>10. CountsIn(loop', o)
    <3>1. Now(loop') = 0 /\ 0 \in Nat /\ k <= k /\ 0 + 0 = 0 BY <2>4, <2>7 DEF Now
    <3> QED BY <2>4, <2>7, <2>9, <3>1 DEF CountsIn, es, k
  <2>11. CountsIn(loop, Internal(loop.ref))' BY <2>6, <2>10 DEF CountsIn, Now
  <2>12. \A s \in Refs : Held(s)' => Agree(objects[s], Internal(s))'
    BY <1>1 DEF WalkInv, Held, Agree, Internal, Table
  <2>13. WalkInv' BY <2>2, <2>6, <2>11, <2>12 DEF WalkInv
  <2> QED BY <2>1, <2>3, <2>13, NotLooped DEF Implements, Walk!Next
<1> QED BY <1>5, <1>6, <1>7

(* A variable stays when its entry and what it holds stay.                  *)
LEMMA StaysUnmoved ==
  ASSUME TableInv, NEW s \in Refs, objects'[s] = objects[s],
         \A k \in Used(Table) : k = objects[s].hJson => Table'.pEntries[k] = Table.pEntries[k]
  PROVE  Unmoved(s)
<1>1. Held(s) => objects[s].hJson \in Used(Table) BY InternalFacts
<1> QED BY <1>1 DEF Unmoved, Internal

LEMMA OthersUnmoved ==
  ASSUME TableInv, NEW r \in Refs, Held(r), NEW s \in Refs \ {r}, objects'[s] = objects[s],
         \A k \in Used(Table) \ {objects[r].hJson} : Table'.pEntries[k] = Table.pEntries[k]
  PROVE  Unmoved(s)
<1>1. Held(s) => objects[s].hJson \in Used(Table) /\ objects[s].hJson # objects[r].hJson
  BY InternalFacts DEF TableInv, HoldersOk, Held
<1> QED BY <1>1 DEF Unmoved, Internal

LEMMA CleanupImplements ==
  ASSUME TableInv, TableInv', JsonLibCleanup
  PROVE  Implements
<1>1. objects' = [s \in Refs |-> NoObject] /\ told'.kind = "cleaned" /\ ~Looping'
  BY KindTold DEF JsonLibCleanup, Looping
<1>2. OpenView' = [s \in Refs |-> NoObject] BY <1>1, ViewsAre DEF ViewIn
<1>3. Walk!Cleanup BY <1>1, <1>2 DEF Walk!Cleanup
<1>4. WalkInv' BY <1>1 DEF WalkInv, Held
<1> QED BY <1>1, <1>3, <1>4, NotLooped DEF Implements, Walk!Next

(* An object is given up, by the host or by a loop.                         *)
LEMMA GivenUpImplements ==
  ASSUME TableInv, TableInv', WalkInv, NEW r \in Refs, Held(r),
         objects' = [objects EXCEPT ![r] = NoObject],
         gs_sJsonHandleTable' \in {Table, Released(Table, objects[r].hJson)},
         told'.kind \in {"released", "failed"}, told'.ref = r,
         Looping' => /\ Looping /\ loop.ref # r /\ loop'.ref = loop.ref
                     /\ loop'.request = loop.request /\ loop'.from = loop.from
                     /\ loop'.count \in Nat /\ loop'.count + Now(loop') = loop.count + Now(loop)
  PROVE  Implements
<1> DEFINE t == Table  h == objects[r].hJson  u == gs_sJsonHandleTable'
<1>1. /\ TableOk(t) /\ h \in Used(t) /\ Table' = u /\ u \in {t, Released(t, h)}
      /\ DOMAIN objects = Refs
  BY InternalFacts DEF TableInv, Table, HoldersOk
<1> HIDE DEF t, u
<1>2. \A k \in Used(t) \ {h} : u.pEntries[k] = t.pEntries[k]
  <2> HIDE DEF h
  <2>1. CASE u = t BY <2>1
  <2>2. CASE u = Released(t, h) BY <1>1, <2>2, ReleasedFacts
  <2> QED BY <1>1, <2>1, <2>2
<1>3. \A k \in Used(Table) \ {objects[r].hJson} : Table'.pEntries[k] = Table.pEntries[k]
  BY <1>1, <1>2 DEF t
<1> HIDE DEF h
<1>4. objects'[r] = NoObject /\ \A s \in Refs \ {r} : objects'[s] = objects[s] BY <1>1
<1>5. \A s \in Refs \ {r} : Unmoved(s) BY <1>3, <1>4, OthersUnmoved
<1>6. OpenView' = [OpenView EXCEPT ![r] = NoObject]
  <2>1. ViewIn(objects', Table')[r] = NoObject BY <1>4 DEF ViewIn
  <2> QED BY <1>5, <2>1, ViewsMove
<1>7. OpenView[r] # NoObject
  <2>1. OpenView[r] = View(objects[r], Internal(r)) BY ViewsAre DEF ViewIn, Held, Internal
  <2>2. objects[r].type \in ObjectTypes BY DEF WalkInv, Agree
  <2> QED BY <2>1, <2>2, ViewIsOpen
<1>8. Walk!Release(r) BY <1>6, <1>7 DEF Walk!Release
<1>9. WalkInv'
  <2>1. \A s \in Refs : \/ Unmoved(s)
                        \/ objects'[s] # NoObject
                           => Agree(objects'[s], Table'.pEntries[objects'[s].hJson])
    BY <1>4, <1>5
  <2>2. Looping' => Unmoved(loop.ref)
    <3> SUFFICES ASSUME Looping' PROVE Unmoved(loop.ref) OBVIOUS
    <3>1. loop.ref \in Refs \ {r} BY LoopFacts
    <3> QED BY <1>5, <3>1
  <2> QED BY <2>1, <2>2, WalkInvStays
<1> QED BY <1>8, <1>9, NotLooped DEF Implements, Walk!Next

LEMMA ReleaseImplements ==
  ASSUME TableInv, TableInv', WalkInv, NEW r \in Refs, JsonReleaseObject(r)
  PROVE  Implements
<1>1. /\ Held(r) /\ loop' = loop /\ (Looping => r # loop.ref)
      /\ gs_sJsonHandleTable' = Released(Table, objects[r].hJson)
      /\ objects' = [objects EXCEPT ![r] = NoObject]
      /\ told'.kind = "released" /\ told'.ref = r
  BY KindTold DEF JsonReleaseObject, MayUse
<1>2. Looping' => /\ Looping /\ loop.ref # r /\ loop'.ref = loop.ref
                  /\ loop'.request = loop.request /\ loop'.from = loop.from
                  /\ loop'.count \in Nat /\ loop'.count + Now(loop') = loop.count + Now(loop)
  <2> SUFFICES ASSUME Looping' PROVE Looping /\ loop.ref # r /\ loop.count \in Nat
    BY <1>1
  <2>1. Looping BY <1>1 DEF Looping
  <2>2. loop.count \in Nat BY <2>1 DEF WalkInv, CountsIn
  <2> QED BY <1>1, <2>1, <2>2
<1> QED BY <1>1, <1>2, GivenUpImplements

LEMMA CallbackImplements ==
  ASSUME TableInv, TableInv', WalkInv, CallbackSucceeds \/ CallbackFails
  PROVE  Implements
<1> DEFINE r == loop.elem
<1>1. Looping /\ r # Null BY DEF CallbackSucceeds, CallbackFails
<1>2. /\ DOMAIN loop = {"ref", "request", "elem", "count", "found", "from"}
      /\ r \in Refs /\ r # loop.ref /\ Held(r)
  BY <1>1, LoopFacts
<1>3. /\ objects' = [objects EXCEPT ![r] = NoObject]
      /\ gs_sJsonHandleTable' \in {Table, Released(Table, objects[r].hJson)}
      /\ told'.kind \in {"released", "failed"} /\ told'.ref = r
  BY KindTold DEF CallbackSucceeds, CallbackFails
<1>4. loop.count \in Nat BY <1>1 DEF WalkInv, CountsIn
<1>5. Looping' => /\ Looping /\ loop.ref # r /\ loop'.ref = loop.ref
                  /\ loop'.request = loop.request /\ loop'.from = loop.from
                  /\ loop'.count \in Nat /\ loop'.count + Now(loop') = loop.count + Now(loop)
  <2>1. CASE loop' = NoLoop BY <2>1 DEF Looping
  <2>2. CASE CallbackSucceeds
    <3> DEFINE c == loop.count
    <3>1. loop' = [loop EXCEPT !.elem = Null, !.count = c + 1,
                               !.found = @ \cup {objects[loop.elem].key}]
      BY <2>2 DEF CallbackSucceeds
    <3> HIDE DEF c
    <3>2. /\ loop'.ref = loop.ref /\ loop'.request = loop.request /\ loop'.from = loop.from
          /\ loop'.elem = Null /\ loop'.count = c + 1
      BY <1>2, <3>1
    <3>3. Now(loop') = 0 /\ Now(loop) = 1 BY <1>1, <3>2 DEF Now
    <3>4. c + 1 \in Nat /\ (c + 1) + 0 = c + 1 BY <1>4 DEF c
    <3> HIDE DEF r
    <3> QED BY <1>1, <1>2, <3>2, <3>3, <3>4 DEF c
  <2> QED BY <2>1, <2>2 DEF CallbackFails
<1> HIDE DEF r
<1> QED BY <1>2, <1>3, <1>5, GivenUpImplements

LEMMA ViewOf ==
  ASSUME NEW r \in Refs
  PROVE  /\ TableInv /\ Held(r) => OpenView[r] = View(objects[r], Internal(r))
         /\ TableInv => (~Held(r) => OpenView[r] = NoObject)
         /\ TableInv' /\ objects'[r] # NoObject
              => ViewIn(objects', Table')[r]
                   = View(objects'[r], Table'.pEntries[objects'[r].hJson])
         /\ TableInv => DOMAIN OpenView = Refs
BY ViewsAre DEF ViewIn, Held, Internal

(* A cursor that moves.                                                     *)
LEMMA ViewMoves ==
  ASSUME NEW p, NEW o, NEW q, q.data = o.data
  PROVE  View(p, q) = [View(p, o) EXCEPT !.passed = Passed(q)]
BY DEF View

LEMMA RestartImplements ==
  ASSUME CarefulHost, TableInv, TableInv', WalkInv, NEW r \in Refs, JsonRestartParsing(r)
  PROVE  Implements
<1> DEFINE t == Table  h == objects[r].hJson  u == gs_sJsonHandleTable'
           o == [t.pEntries[h] EXCEPT !.idx = 0, !.rem = 1, !.state = "START"]
<1>1. /\ Held(r) /\ UNCHANGED <<objects, loop>> /\ Table' = u
      /\ IsWalkable(Internal(r).type) /\ (Looping => r # loop.ref)
      /\ u = [t EXCEPT !.pEntries[h] = [@ EXCEPT !.idx = 0, !.rem = 1, !.state = "START"]]
      /\ told'.kind = "restarted" /\ told'.ref = r
  BY KindTold DEF JsonRestartParsing, MayUse, Table
<1>2. TableOk(t) /\ h \in Used(t) /\ IsObject(t.pEntries[h]) /\ t.pEntries[h] = Internal(r)
  BY <1>1, InternalFacts DEF TableInv, Internal
<1> HIDE DEF t, h, u
<1>3. u.pEntries = [t.pEntries EXCEPT ![h] = o] BY <1>1, <1>2 DEF TableOk, Used
<1>4. /\ o.data = Internal(r).data /\ o.type = Internal(r).type /\ o.idx = 0
  BY <1>2 DEF IsObject, InternalObject
<1> HIDE DEF o
<1>5. Passed(o) = 0 BY <1>4, NothingPassed
<1>6. u.pEntries[h] = o /\ \A k \in Used(t) \ {h} : u.pEntries[k] = t.pEntries[k]
  BY <1>2, <1>3 DEF Used
<1>7. \A s \in Refs \ {r} : Unmoved(s)
  <2>1. \A k \in Used(Table) \ {objects[r].hJson} : Table'.pEntries[k] = Table.pEntries[k]
    BY <1>1, <1>6 DEF t, h
  <2> QED BY <1>1, <2>1, OthersUnmoved
<1>8. ViewIn(objects', Table')[r] = [OpenView[r] EXCEPT !.passed = 0]
  <2>1. objects'[r] # NoObject /\ Table'.pEntries[objects'[r].hJson] = o
    BY <1>1, <1>6 DEF Held, h
  <2>2. ViewIn(objects', Table')[r] = View(objects[r], o) BY <1>1, <2>1, ViewOf
  <2>3. OpenView[r] = View(objects[r], Internal(r)) BY <1>1, ViewOf
  <2> QED BY <1>4, <1>5, <2>2, <2>3, ViewMoves
<1>9. Agree(objects[r], Internal(r)) BY <1>1 DEF WalkInv
<1>10. Walk!Restart(r)
  <2>1. OpenView' = [OpenView EXCEPT ![r].passed = 0]
    <3>1. OpenView' = [OpenView EXCEPT ![r] = ViewIn(objects', Table')[r]] BY <1>7, ViewsMove
    <3> QED BY <1>8, <3>1, ViewOf
  <2>2. OpenView[r] # NoObject /\ OpenView[r].type = objects[r].type
    <3>1. OpenView[r] = View(objects[r], Internal(r)) BY <1>1, ViewOf
    <3>2. OpenView[r] # NoObject BY <1>9, <3>1, ViewIsOpen DEF Agree
    <3> QED BY <3>1, <3>2 DEF View
  <2>3. objects[r].type \in {"Object", "Array"} BY <1>1, <1>9 DEF Agree, IsWalkable
  <2>4. Walk!IsContainer(r) BY <2>2, <2>3 DEF Walk!IsContainer
  <2> QED BY <1>1, <2>1, <2>4 DEF Walk!Restart, Walk!ToldOf
<1>11. WalkInv'
  <2>1. Agree(objects'[r], Table'.pEntries[objects'[r].hJson])
    <3>1. objects'[r] = objects[r] /\ Table'.pEntries[objects'[r].hJson] = o BY <1>1, <1>6 DEF h
    <3> QED BY <1>4, <1>9, <3>1 DEF Agree
  <2>2. Looping => Unmoved(loop.ref)
    <3> SUFFICES ASSUME Looping PROVE Unmoved(loop.ref) OBVIOUS
    <3>1. loop.ref \in Refs \ {r} BY <1>1, LoopFacts
    <3> QED BY <1>7, <3>1
  <2> QED BY <1>1, <1>7, <2>1, <2>2, LoopGoesOn
<1> QED BY <1>1, <1>10, <1>11, NotLooped DEF Implements, Walk!Next

(* A text that cannot be opened, or that is no document.                    *)
LEMMA NoneOpened ==
  ASSUME TableInv, TableInv', WalkInv, NEW o, IsObject(o),
         gs_sJsonHandleTable' = JsoniNewInternalObject(Table, o), UNCHANGED <<objects, loop>>
  PROVE  OpenView' = OpenView /\ WalkInv'
<1> DEFINE t == Table  u == gs_sJsonHandleTable'
<1>1. TableOk(t) /\ Table' = u /\ u = JsoniNewInternalObject(t, o) BY DEF TableInv, Table
<1> HIDE DEF t, u
<1>2. \A k \in Used(t) : u.pEntries[k] = t.pEntries[k] BY <1>1, NewInternalObjectFacts
<1>3. \A s \in Refs : Unmoved(s)
  <2>1. \A k \in Used(Table) : Table'.pEntries[k] = Table.pEntries[k] BY <1>1, <1>2 DEF t
  <2> QED BY <2>1, StaysUnmoved
<1>4. Looping => Unmoved(loop.ref) BY <1>3, LoopFacts
<1> QED BY <1>3, <1>4, ViewsStay, LoopGoesOn

LEMMA OpenFailsImplements ==
  ASSUME TableInv, TableInv', WalkInv, OpenFails
  PROVE  Implements
<1> DEFINE new == NewObject("Unknown", <<>>)
<1>1. IsObject(new)
  <2>1. <<>> \in Seq(Chars) OBVIOUS
  <2> QED BY <2>1, NewObjectFacts
<1>2. /\ gs_sJsonHandleTable' = JsoniNewInternalObject(Table, new)
      /\ UNCHANGED <<objects, loop>> /\ told'.kind \in {"nofile", "unmapped"}
  BY KindTold DEF OpenFails
<1> HIDE DEF new
<1>3. OpenView' = OpenView /\ WalkInv' BY <1>1, <1>2, NoneOpened
<1>4. Walk!Other BY <1>2, <1>3 DEF Walk!Other
<1> QED BY <1>2, <1>3, <1>4, NotLooped DEF Implements, Walk!Next

LEMMA OpenImplements ==
  ASSUME NEW W, GrammarAgrees(W), TableInv, TableInv', WalkInv, NEW text \in Texts, JsonOpen(text)
  PROVE  Implements
<1> DEFINE t == Table  u == gs_sJsonHandleTable'
           new == NewObject("Unknown", text)  root == Parsed(new)  o == root.obj
           r == JsoniParseJS(text, jsmn_init)
           v == JsoniNewInternalObject(t, o)
<1>1. TableOk(t) /\ Table' = u BY DEF TableInv, Table
<1>2. SomeRefFree /\ loop' = loop /\ (OpenSucceeds(root, v) \/ OpenRejects(root, v))
  BY DEF JsonOpen
<1>3. IsObject(o) /\ o.data = text /\ text \in Seq(Chars)
  <2>1. text \in Seq(Chars) BY TextsAssumption
  <2>2. IsObject(new) /\ new.state = "NOT_STARTED" /\ new.data = text BY <2>1, NewObjectFacts
  <2> HIDE DEF new
  <2> QED BY <2>1, <2>2, ParsedFacts
<1>4. /\ o.type = "Unknown" /\ o.parser = r.parser /\ o.num = r.num
      /\ root.err = CASE r.err = "INVAL" -> "INVALID_JSON_FILE"
                      [] r.err = "PART" -> "TRUNCATED_JSON_FILE"
                      [] OTHER -> "NO_ERROR"
  BY DEF Parsed, NewObject
<1>5. v = JsoniNewInternalObject(t, o) OBVIOUS
<1>6. /\ Opens(r) <=> Walk!IsDocument(text)
      /\ Opens(r) => ContainerOf(text, r.parser.tokens[1])
                      = <<Walk!TypeOfText(Walk!Root(text)), Walk!Root(text)>>
  BY DEF GrammarAgrees
<1>7. OpenError(root) = "NO_ERROR" <=> Opens(r)
  <2>1. r.err \in {"SUCCESS", "INVAL", "PART"} BY <1>3, ParseOfText
  <2>2. root.err = "NO_ERROR" <=> r.err = "SUCCESS" BY <1>4, <2>1
  <2> HIDE DEF r, root
  <2> QED BY <1>4, <2>2 DEF OpenError, Opens
<1> HIDE DEF o, v, root, new, r, t, u
<1>8. CASE OpenRejects(root, v)
  <2>1. /\ gs_sJsonHandleTable' = JsoniNewInternalObject(Table, o) /\ UNCHANGED <<objects, loop>>
        /\ told'.kind = "rejected"
    BY <1>2, <1>5, <1>8, KindTold DEF OpenRejects, t
  <2>2. OpenView' = OpenView /\ WalkInv' BY <1>3, <2>1, NoneOpened
  <2>3. ~Walk!IsDocument(text) BY <1>6, <1>7, <1>8 DEF OpenRejects
  <2>4. Walk!Reject BY <2>1, <2>2, <2>3 DEF Walk!Reject
  <2> QED BY <2>1, <2>2, <2>4, NotLooped DEF Implements, Walk!Next
<1>9. CASE OpenSucceeds(root, v)
  <2> DEFINE token == root.obj.parser.tokens[1]
             child == ChildOf(root.obj, token)
             c == child.internal
             f == FreeRef
             h == NewHandle(v)
             p == [type |-> child.public.type, key |-> <<>>,
                   text |-> child.public.text, hJson |-> h]
  <2>1. /\ u = JsoniNewInternalObject(v, c) /\ OpenError(root) = "NO_ERROR"
        /\ objects' = [objects EXCEPT ![f] = p] /\ told'.kind = "opened"
    BY <1>9, KindTold DEF OpenSucceeds, u
  <2>2. TableOk(v) /\ \A k \in Used(t) : v.pEntries[k] = t.pEntries[k] /\ k \in Used(v)
    BY <1>1, <1>3, <1>5, NewInternalObjectFacts
  <2>3. IsObject(c)
    <3>1. o.data \in Seq(Chars) /\ o.parser \in ParserIn(TokenOf(o.data))
      BY <1>3 DEF IsObject, ParserOk
    <3>2. token \in TokenOf(o.data) BY <2>1, <3>1, RootTokenFacts DEF o
    <3>3. root.obj.data \in Seq(Chars) /\ token \in TokenOf(root.obj.data) \cup Blanks
      BY <3>1, <3>2 DEF o
    <3> HIDE DEF token
    <3> QED BY <3>3, ChildFacts
  <2>4. Agree(child.public, c) /\ c.data = child.public.text /\ Passed(c) = 0
    <3> DEFINE d == child
    <3>1. d = ChildOf(root.obj, token) OBVIOUS
    <3> HIDE DEF d
    <3> QED BY <3>1, ChildAgrees DEF d
  <2>5. /\ p.hJson = h /\ p.type = child.public.type /\ p.text = child.public.text
    OBVIOUS
  <2>6. <<child.public.type, child.public.text>>
          = <<Walk!TypeOfText(Walk!Root(text)), Walk!Root(text)>>
    <3>1. token = r.parser.tokens[1] /\ root.obj.data = text BY <1>3, <1>4 DEF o
    <3>2. <<child.public.type, child.public.text>> = ContainerOf(text, token)
      BY <3>1 DEF ContainerOf, ChildOf
    <3> QED BY <1>6, <1>7, <2>1, <3>1, <3>2
  <2>7. h = NewHandle(v) OBVIOUS
  <2>8. f \in Refs /\ objects[f] = NoObject BY <1>2, FreeRefFacts
  <2>9. DOMAIN objects = Refs BY DEF TableInv, HoldersOk
  <2> HIDE DEF token, child, c, h, p, f
  <2>10. u.pEntries[h] = c /\ \A k \in Used(v) : u.pEntries[k] = v.pEntries[k]
    BY <2>1, <2>2, <2>3, <2>7, NewInternalObjectFacts
  <2>11. objects'[f] = p /\ \A s \in Refs \ {f} : objects'[s] = objects[s]
    BY <2>1, <2>8, <2>9
  <2>12. \A s \in Refs \ {f} : Unmoved(s)
    <3>1. \A k \in Used(Table) : Table'.pEntries[k] = Table.pEntries[k]
      BY <1>1, <2>2, <2>10 DEF t
    <3> QED BY <2>11, <3>1, StaysUnmoved
  <2>13. Agree(p, c) /\ View(p, c) = Walk!Opened(child.public.type, child.public.text)
    BY <2>4, <2>5 DEF Agree, View, Walk!Opened
  <2>14. ViewIn(objects', Table')[f] = View(p, c) /\ View(p, c) # NoObject
    <3>1. View(p, c) # NoObject BY <2>13, ViewIsOpen DEF Agree
    <3>2. p # NoObject
      <4>1. NoObject.type = Null BY DEF NoObject
      <4>2. p.type \in ObjectTypes BY <2>13 DEF Agree
      <4> QED BY <4>1, <4>2, NullAssumption
    <3>3. Table'.pEntries[objects'[f].hJson] = c BY <1>1, <2>5, <2>10, <2>11
    <3>4. ViewIn(objects', Table')[f] = View(objects'[f], Table'.pEntries[objects'[f].hJson])
      BY <2>8, <2>11, <3>2, ViewOf
    <3> QED BY <2>11, <3>1, <3>3, <3>4
  <2>15. OpenView' = [OpenView EXCEPT ![f] = View(p, c)]
    <3>1. OpenView' = [OpenView EXCEPT ![f] = ViewIn(objects', Table')[f]]
      BY <2>8, <2>12, ViewsMove
    <3> QED BY <2>14, <3>1
  <2>16. Walk!Open
    <3>1. OpenView[f] = NoObject /\ OpenView'[f] # NoObject
      BY <2>8, <2>14, <2>15, ViewOf DEF Held
    <3>2. Walk!IsDocument(text) BY <1>6, <1>7, <2>1
    <3>3. View(p, c) = Walk!Opened(Walk!TypeOfText(Walk!Root(text)), Walk!Root(text))
      BY <2>6, <2>13
    <3> QED BY <2>1, <2>8, <2>15, <3>1, <3>2, <3>3 DEF Walk!Open
  <2>17. WalkInv'
    <3>1. Agree(objects'[f], Table'.pEntries[objects'[f].hJson])
      BY <1>1, <2>5, <2>10, <2>11, <2>13
    <3>2. Looping => Unmoved(loop.ref)
      <4> SUFFICES ASSUME Looping PROVE Unmoved(loop.ref) OBVIOUS
      <4>1. loop.ref \in Refs /\ loop.ref # f BY <2>8, LoopFacts DEF Held
      <4> QED BY <2>12, <4>1
    <3> QED BY <1>2, <2>12, <3>1, <3>2, LoopGoesOn
  <2> QED BY <2>1, <2>16, <2>17, NotLooped DEF Implements, Walk!Next
<1> QED BY <1>2, <1>8, <1>9

(* A call of JsonGetNextObjectW on the container of r, of which the element *)
(* is kept or forgotten.                                                    *)
Replied(r, names, a) ==
  /\ Answered(a) /\ AnswerTells(r, names, a)
  /\ \A k \in Used(Table) \ {objects[r].hJson} : a.table.pEntries[k] = Table.pEntries[k]
  /\ Table' = a.table /\ (objects' = objects \/ (a.kind = "element" /\ objects' = a.objects))

LEMMA AnswerReplied ==
  ASSUME NEW W, Untroubled(W), GrammarAgrees(W), TableInv, CursorInv(W),
         NEW r \in Refs, Held(r), ~Missed(Internal(r)), NEW names, NEW a \in GetNext(r, names),
         gs_sJsonHandleTable' = a.table, objects' = objects \/ objects' = a.objects
  PROVE  Replied(r, names, a)
<1>1. CursorsOk(W, Table) BY DEF CursorInv
<1>2. Answered(a) BY AnswerFacts
<1>3. AnsweredWell(W, r, a) BY <1>1, AnswerIsOk
<1>4. AnswerTells(r, names, a) BY <1>1, AnswerIsTold
<1>5. a.kind # "element" => a.objects = objects BY <1>2 DEF Answered
<1>6. Table' = a.table BY DEF Table
<1>7. objects' = objects \/ (a.kind = "element" /\ objects' = a.objects) BY <1>5
<1>8. \A k \in Used(Table) \ {objects[r].hJson} : a.table.pEntries[k] = Table.pEntries[k]
  BY <1>3 DEF AnsweredWell
<1> QED BY <1>2, <1>4, <1>6, <1>7, <1>8 DEF Replied

(* The container as JsonWalk sees it.                                       *)
LEMMA ContainerSeen ==
  ASSUME TableInv, WalkInv, NEW r \in Refs, Held(r), NEW names
  PROVE  /\ OpenView[r] # NoObject
         /\ OpenView[r].text = Internal(r).data /\ OpenView[r].passed = Passed(Internal(r))
         /\ Walk!IsContainer(r) <=> IsWalkable(Internal(r).type)
         /\ IsWalkable(objects[r].type) => IsWalkable(Internal(r).type)
         /\ Walk!Ahead(r, names) = AheadOfObject(Internal(r), names)
<1> DEFINE p == objects[r]  o == Internal(r)  view == OpenView[r]
<1>1. Agree(p, o) BY DEF WalkInv
<1>2. view = View(p, o) BY ViewOf
<1>3. view # NoObject BY <1>1, <1>2, ViewIsOpen DEF Agree
<1>4. view.type = p.type /\ view.text = o.data /\ view.passed = Passed(o) BY <1>2 DEF View
<1>5. view.type \in {"Object", "Array"} <=> IsWalkable(o.type) BY <1>1, <1>4 DEF Agree, IsWalkable
<1>6. view.type = "Array" <=> o.type = "Array" BY <1>1, <1>4 DEF Agree, IsWalkable
<1>7. Walk!IsContainer(r) <=> IsWalkable(o.type) BY <1>3, <1>5 DEF Walk!IsContainer
<1>8. Walk!Ahead(r, names) = AheadOfObject(o, names)
  BY <1>4, <1>6 DEF Walk!Ahead, AheadOfObject, AheadOf
<1> QED BY <1>1, <1>3, <1>4, <1>7, <1>8 DEF Agree

(* The cursor moves, and an element that is kept is open.                   *)
LEMMA RepliedMoves ==
  ASSUME TableInv, TableInv', WalkInv, SomeRefFree, NEW r \in Refs, Held(r), NEW names,
         NEW a, Replied(r, names, a), NEW n, n = a.table.pEntries[objects[r].hJson]
  PROVE  /\ objects'[r] = objects[r] /\ Table'.pEntries[objects'[r].hJson] = n
         /\ \A s \in Refs \ {r} : Held(s) => Unmoved(s)
         /\ \A s \in Refs : objects'[s] # NoObject
              => Agree(objects'[s], Table'.pEntries[objects'[s].hJson])
         /\ objects' = objects => OpenView' = [OpenView EXCEPT ![r].passed = Passed(n)]
         /\ a.kind = "element" /\ objects' = a.objects =>
              /\ FreeRef \in Refs /\ OpenView[FreeRef] = NoObject
              /\ OpenView' = [[OpenView EXCEPT ![r].passed = Passed(n)] EXCEPT ![FreeRef] =
                                Walk!Opened(a.element.type, a.element.text)]
<1> DEFINE o == Internal(r)  f == FreeRef
<1>1. /\ Answered(a) /\ Table' = a.table
      /\ \A k \in Used(Table) \ {objects[r].hJson} : Table'.pEntries[k] = Table.pEntries[k]
      /\ objects' = objects \/ (a.kind = "element" /\ objects' = a.objects)
  BY DEF Replied
<1>2. /\ n.data = o.data /\ n.type = o.type
  BY DEF Replied, AnswerTells
<1>3. \A s \in Refs : Held(s) => objects'[s] = objects[s] BY <1>1, AnsweredHolds
<1>4. f \in Refs /\ objects[f] = NoObject /\ f # r BY FreeRefFacts DEF Held
<1> HIDE DEF o, f
<1>5. objects'[r] = objects[r] /\ Table'.pEntries[objects'[r].hJson] = n BY <1>1, <1>3
<1>6. \A s \in Refs \ {r} : Held(s) => Unmoved(s) BY <1>1, <1>3, OthersUnmoved
<1>7. Agree(objects'[r], Table'.pEntries[objects'[r].hJson])
  <2>1. Agree(objects[r], o) BY DEF WalkInv, o
  <2> QED BY <1>2, <1>5, <2>1 DEF Agree
<1>8. \A s \in Refs \ {r} : Held(s) => Agree(objects'[s], Table'.pEntries[objects'[s].hJson])
  BY <1>6 DEF WalkInv, Unmoved
<1>9. ViewIn(objects', Table')[r] = [OpenView[r] EXCEPT !.passed = Passed(n)]
  <2>1. objects'[r] # NoObject BY <1>5 DEF Held
  <2>2. ViewIn(objects', Table')[r] = View(objects[r], n) BY <1>5, <2>1, ViewOf
  <2>3. OpenView[r] = View(objects[r], o) BY ViewOf DEF o
  <2> QED BY <1>2, <2>2, <2>3, ViewMoves
<1>10. CASE objects' = objects
  <2>1. \A s \in Refs \ {r} : Unmoved(s) BY <1>1, <1>10, OthersUnmoved
  <2>2. OpenView' = [OpenView EXCEPT ![r] = ViewIn(objects', Table')[r]] BY <2>1, ViewsMove
  <2>3. OpenView' = [OpenView EXCEPT ![r].passed = Passed(n)] BY <1>9, <2>2, ViewOf
  <2>4. \A s \in Refs : objects'[s] # NoObject
              => Agree(objects'[s], Table'.pEntries[objects'[s].hJson])
    BY <1>7, <1>8, <1>10 DEF Held
  <2>5. ~(a.kind = "element" /\ objects' = a.objects)
    <3> SUFFICES ASSUME a.kind = "element", objects' = a.objects PROVE FALSE OBVIOUS
    <3>1. DOMAIN objects = Refs BY DEF TableInv, HoldersOk
    <3>2. PICK p : objects' = [objects EXCEPT ![f] = p] /\ p # NoObject
      BY <1>1 DEF Answered, f
    <3> QED BY <1>4, <1>10, <3>1, <3>2
  <2> QED BY <1>5, <1>6, <2>3, <2>4, <2>5
<1>11. CASE a.kind = "element" /\ objects' = a.objects
  <2> DEFINE opened == Walk!Opened(a.element.type, a.element.text)
             moved == [OpenView EXCEPT ![r].passed = Passed(n)]
  <2>1. PICK p : /\ objects' = [objects EXCEPT ![f] = p]
                 /\ Agree(p, Table'.pEntries[p.hJson])
                 /\ View(p, Table'.pEntries[p.hJson]) = opened
    BY <1>1, <1>11 DEF Replied, AnswerTells, f
  <2>2. DOMAIN objects = Refs BY DEF TableInv, HoldersOk
  <2>3. objects'[f] = p /\ \A s \in Refs \ {f} : objects'[s] = objects[s]
    BY <1>4, <2>1, <2>2
  <2>4. p # NoObject
    <3>1. NoObject.type = Null BY DEF NoObject
    <3>2. p.type \in ObjectTypes BY <2>1 DEF Agree
    <3> QED BY <3>1, <3>2, NullAssumption
  <2> HIDE DEF opened
  <2>5. ViewIn(objects', Table')[f] = opened
    BY <1>4, <2>1, <2>3, <2>4 DEF ViewIn
  <2>6. \A s \in Refs \ {r, f} : ViewIn(objects', Table')[s] = OpenView[s]
    <3> SUFFICES ASSUME NEW s \in Refs \ {r, f}
                 PROVE  ViewIn(objects', Table')[s] = OpenView[s]
      OBVIOUS
    <3>1. CASE Held(s)
      <4>1. Unmoved(s) BY <1>6, <3>1
      <4>2. OpenView[s] = View(objects[s], Internal(s)) BY <3>1, ViewOf
      <4> QED BY <3>1, <4>1, <4>2, ViewOf DEF Unmoved, Held
    <3>2. CASE ~Held(s)
      <4>1. objects'[s] = NoObject BY <2>3, <3>2 DEF Held
      <4>2. ViewIn(objects', Table')[s] = NoObject BY <4>1 DEF ViewIn
      <4> QED BY <3>2, <4>2, ViewOf
    <3> QED BY <3>1, <3>2
  <2>7. OpenView[f] = NoObject BY <1>4, ViewOf DEF Held
  <2>8. OpenView' = [moved EXCEPT ![f] = opened]
    <3> DEFINE V == ViewIn(objects', Table')
    <3>1. OpenView' = V BY ViewsAre
    <3>2. V = [s \in Refs |-> V[s]] BY DEF ViewIn
    <3>3. /\ DOMAIN moved = Refs /\ moved[r] = [OpenView[r] EXCEPT !.passed = Passed(n)]
          /\ \A s \in Refs \ {r} : moved[s] = OpenView[s]
          /\ moved = [s \in Refs |-> moved[s]]
      BY ViewOf
    <3> HIDE DEF V, moved
    <3>4. V[r] = moved[r] /\ V[f] = opened /\ \A s \in Refs \ {r, f} : V[s] = moved[s]
      BY <1>9, <2>5, <2>6, <3>3 DEF V
    <3> QED BY <1>4, <3>1, <3>2, <3>3, <3>4
  <2>9. objects' # objects BY <1>4, <2>3, <2>4
  <2>10. \A s \in Refs : objects'[s] # NoObject
              => Agree(objects'[s], Table'.pEntries[objects'[s].hJson])
    BY <1>7, <1>8, <2>1, <2>3 DEF Held
  <2> QED BY <1>4, <1>5, <1>6, <2>7, <2>8, <2>9, <2>10 DEF opened, f
<1> QED BY <1>1, <1>10, <1>11

(* Nothing moves when no element was found.                                 *)
LEMMA RepliedNothing ==
  ASSUME TableInv, TableInv', WalkInv, SomeRefFree, NEW r \in Refs, Held(r), NEW names,
         NEW a, Replied(r, names, a), a.kind # "element"
  PROVE  OpenView' = OpenView /\ objects' = objects
<1> DEFINE n == a.table.pEntries[objects[r].hJson]
<1>1. Passed(n) = Passed(Internal(r)) BY DEF Replied, AnswerTells
<1>2. n = a.table.pEntries[objects[r].hJson] OBVIOUS
<1> HIDE DEF n
<1>3. objects' = objects BY DEF Replied
<1>4. OpenView' = [OpenView EXCEPT ![r].passed = Passed(n)] BY <1>2, <1>3, RepliedMoves
<1>5. OpenView[r].passed = Passed(n) BY <1>1, ContainerSeen
<1>6. OpenView[r] = [OpenView[r] EXCEPT !.passed = Passed(n)]
  <2>1. OpenView[r] = View(objects[r], Internal(r)) BY ViewOf
  <2> QED BY <1>1, <2>1, ViewMoves DEF View
<1>7. OpenView = [s \in Refs |-> OpenView[s]] BY DEF OpenView
<1>8. OpenView' = OpenView BY <1>4, <1>6, <1>7
<1> QED BY <1>3, <1>8

(* An element that was found is the one that JsonWalk finds.                *)
LEMMA FindImplements ==
  ASSUME NEW W, Untroubled(W), GrammarAgrees(W), TableInv, TableInv', WalkInv, CursorInv(W),
         SomeRefFree, NEW r \in Refs, Held(r), ~Missed(Internal(r)), NEW names,
         NEW a, Replied(r, names, a), a.kind = "element",
         told'.kind \in {"element", "passed", "stopped"}, told'.ref = r,
         told'.names = names, told'.element = a.element,
         told'.kind = "element" => objects' = a.objects,
         told'.kind # "element" => objects' = objects
  PROVE  Walk!Find(r)
<1> DEFINE o == Internal(r)  n == a.table.pEntries[objects[r].hJson]  j == Passed(n)
           ahead == Walk!Ahead(r, names)
           es == Walk!Elements(OpenView[r].text)
<1>1. /\ ahead = AheadOfObject(o, names) /\ es = Walk!Elements(o.data)
      /\ Walk!IsContainer(r) <=> IsWalkable(o.type)
  BY ContainerSeen
<1>2. /\ IsWalkable(o.type) /\ IsNext(j, AheadOfObject(o, names))
      /\ a.element = Walk!Elements(o.data)[j]
  BY DEF Replied, AnswerTells
<1>3. PICK m \in Nat : DOMAIN Walk!Elements(o.data) = 1..m
  <2>1. IsObject(o) /\ CursorIsOk(W, o) BY InternalFacts DEF CursorInv, CursorsOk, Internal
  <2> HIDE DEF o
  <2> QED BY <1>2, <2>1, ElementsNumbered DEF o
<1>4. n = a.table.pEntries[objects[r].hJson] OBVIOUS
<1> HIDE DEF n
<1>5. /\ objects' = objects => OpenView' = [OpenView EXCEPT ![r].passed = Passed(n)]
      /\ objects' = a.objects =>
           /\ FreeRef \in Refs /\ OpenView[FreeRef] = NoObject
           /\ OpenView' = [[OpenView EXCEPT ![r].passed = Passed(n)] EXCEPT ![FreeRef] =
                             Walk!Opened(a.element.type, a.element.text)]
  BY <1>4, RepliedMoves
<1> HIDE DEF o, j
<1>6. ahead \subseteq 1..m BY <1>1, <1>3 DEF AheadOfObject, AheadOf
<1>7. IsNext(j, ahead) BY <1>1, <1>2
<1> HIDE DEF ahead, es
<1>8. j = CHOOSE k \in ahead : \A l \in ahead : k <= l
  <2>1. \A k \in ahead : (\A l \in ahead : k <= l) => k = j BY <1>6, <1>7 DEF IsNext
  <2> QED BY <1>7, <2>1 DEF IsNext
<1>9. ahead # {} BY <1>7 DEF IsNext
<1>10. told'.element = es[j] BY <1>1, <1>2
<1>11. a.element = es[j] BY <1>1, <1>2
<1> DEFINE moved == [OpenView EXCEPT ![r].passed = j]
<1>12. \/ told'.kind # "element" /\ OpenView' = moved
       \/ /\ told'.kind = "element"
          /\ \E c \in Refs : /\ OpenView[c] = NoObject
                             /\ OpenView' = [moved EXCEPT ![c] =
                                               Walk!Opened(a.element.type, a.element.text)]
  BY <1>5 DEF j
<1> HIDE DEF moved
<1>13. \/ told'.kind # "element" /\ OpenView' = moved
       \/ /\ told'.kind = "element"
          /\ \E c \in Refs : /\ OpenView[c] = NoObject
                             /\ OpenView' = [moved EXCEPT ![c] =
                                               Walk!Opened(es[j].type, es[j].text)]
  BY <1>11, <1>12
<1>14. Walk!IsContainer(r) BY <1>1, <1>2
<1> QED BY <1>8, <1>9, <1>10, <1>13, <1>14 DEF Walk!Find, ahead, es, moved

(* Told of an answer.                                                       *)
LEMMA AnswerTold ==
  ASSUME NEW r, NEW names, NEW a, NEW err, NEW kind
  PROVE  /\ Returns(err, TellsOf(r, names, a)) =>
              /\ told'.kind = a.kind /\ told'.ref = r /\ told'.names = names
              /\ told'.element = a.element
         /\ Returns(err, [TellsOf(r, names, a) EXCEPT !.kind = kind]) =>
              /\ told'.kind = kind /\ told'.ref = r /\ told'.names = names
              /\ told'.element = a.element
BY DEF Returns, TellsOf

LEMMA GetNextImplements ==
  ASSUME CarefulHost, NEW W, Untroubled(W), GrammarAgrees(W), TableInv, TableInv', WalkInv,
         CursorInv(W), NEW r \in Refs, NEW names \in NameSets, JsonGetNextObject(r, names)
  PROVE  Implements
<1>1. /\ Held(r) /\ SomeRefFree /\ loop' = loop /\ ~Missed(Internal(r))
      /\ Looping => r # loop.ref
  BY DEF JsonGetNextObject, MayUse
<1>2. PICK a \in GetNext(r, names) :
        /\ gs_sJsonHandleTable' = a.table /\ objects' = a.objects
        /\ Returns(a.err, TellsOf(r, names, a))
  BY DEF JsonGetNextObject
<1>3. /\ told'.kind = a.kind /\ told'.ref = r /\ told'.names = names
      /\ told'.element = a.element
  BY <1>2, AnswerTold
<1>4. Replied(r, names, a) BY <1>1, <1>2, AnswerReplied
<1>5. /\ a.kind \in {"refused", "none", "element"}
      /\ a.kind = "refused" <=> ~IsWalkable(Internal(r).type)
      /\ a.kind = "none" => AheadOfObject(Internal(r), names) = {}
  BY <1>4 DEF Replied, AnswerTells
<1>6. /\ Walk!IsContainer(r) <=> IsWalkable(Internal(r).type)
      /\ Walk!Ahead(r, names) = AheadOfObject(Internal(r), names)
  BY <1>1, ContainerSeen
<1>7. Walk!Find(r) \/ Walk!FindNothing(r) \/ Walk!Refuse(r)
  <2>1. CASE a.kind = "element" BY <1>1, <1>2, <1>3, <1>4, <2>1, FindImplements
  <2>2. CASE a.kind = "none"
    <3>1. OpenView' = OpenView BY <1>1, <1>4, <2>2, RepliedNothing
    <3>2. Walk!FindNothing(r)
      BY <1>3, <1>5, <1>6, <2>2, <3>1 DEF Walk!FindNothing, Walk!ToldOf
    <3> QED BY <3>2
  <2>3. CASE a.kind = "refused"
    <3>1. OpenView' = OpenView BY <1>1, <1>4, <2>3, RepliedNothing
    <3>2. Walk!Refuse(r) BY <1>3, <1>5, <1>6, <2>3, <3>1 DEF Walk!Refuse, Walk!ToldOf
    <3> QED BY <3>2
  <2> QED BY <1>5, <2>1, <2>2, <2>3
<1>8. WalkInv'
  <2> DEFINE n == a.table.pEntries[objects[r].hJson]
  <2>1. n = a.table.pEntries[objects[r].hJson] OBVIOUS
  <2> HIDE DEF n
  <2>2. /\ \A s \in Refs \ {r} : Held(s) => Unmoved(s)
        /\ \A s \in Refs : objects'[s] # NoObject
              => Agree(objects'[s], Table'.pEntries[objects'[s].hJson])
    BY <1>1, <1>4, <2>1, RepliedMoves
  <2>3. Looping => Unmoved(loop.ref)
    <3> SUFFICES ASSUME Looping PROVE Unmoved(loop.ref) OBVIOUS
    <3>1. loop.ref \in Refs \ {r} /\ Held(loop.ref) BY <1>1, LoopFacts
    <3> QED BY <2>2, <3>1
  <2> QED BY <1>1, <2>2, <2>3, LoopGoesOn
<1>9. Walk!Next BY <1>7 DEF Walk!Next
<1>10. told'.kind # "looped" BY <1>3, <1>5
<1> QED BY <1>8, <1>9, <1>10, NotLooped DEF Implements

(* The element that a loop takes counts when it was asked for.              *)
LEMMA LoopTakes ==
  ASSUME NEW W, Untroubled(W), GrammarAgrees(W), TableInv, TableInv', WalkInv, CursorInv(W),
         SomeRefFree, Looping, loop.elem = Null, NEW a, Replied(loop.ref, {}, a),
         a.kind = "element", NEW n, n = a.table.pEntries[objects[loop.ref].hJson],
         Looping' => /\ loop'.ref = loop.ref /\ loop'.request = loop.request
                     /\ loop'.from = loop.from /\ loop'.count = loop.count
                     /\ Now(loop') = IF Requested(a.element.key) THEN 1 ELSE 0
  PROVE  WalkInv'
<1> DEFINE q == loop.ref  o == Internal(q)  k == Passed(o)  j == Passed(n)
           es == Walk!Elements(o.data)  request == loop.request  from == loop.from
<1>1. q \in Refs /\ Held(q) BY LoopFacts
<1>2. /\ objects'[q] = objects[q] /\ Table'.pEntries[objects'[q].hJson] = n
      /\ \A s \in Refs : objects'[s] # NoObject
              => Agree(objects'[s], Table'.pEntries[objects'[s].hJson])
  <2> HIDE DEF q
  <2>1. Replied(q, {}, a) /\ n = a.table.pEntries[objects[q].hJson] BY DEF q
  <2> QED BY <1>1, <2>1, RepliedMoves
<1>3. \A s \in Refs : Held(s)' => Agree(objects[s], Internal(s))'
  <2>1. \A s \in Refs : Held(s)' => objects'[s] # NoObject BY DEF Held
  <2> QED BY <1>2, <2>1 DEF Agree, Internal
<1>4. IsWalkable(objects[q].type) /\ CountsIn(loop, o) BY DEF WalkInv
<1>5. /\ n.data = o.data /\ IsWalkable(o.type)
      /\ IsNext(j, AheadOf(es, o.type, k, {})) /\ a.element = es[j]
  BY DEF Replied, AnswerTells, AheadOfObject
<1>6. PICK m \in Nat : DOMAIN es = 1..m
  <2>1. IsObject(o) /\ CursorIsOk(W, o)
    <3> HIDE DEF q
    <3> QED BY <1>1, InternalFacts DEF CursorInv, CursorsOk, Internal
  <2>2. ~Missed(o) BY DEF CursorInv
  <2> HIDE DEF o
  <2> QED BY <1>5, <2>1, <2>2, ElementsNumbered
<1>7. k \in Nat
  <2>1. IsObject(o)
    <3> HIDE DEF q
    <3> QED BY <1>1, InternalFacts
  <2> HIDE DEF o
  <2> QED BY <2>1, PassedIsNat
<1>8. /\ from \in Nat /\ loop.count \in Nat /\ from <= k
      /\ Cardinality(Behind(es, request, from, k)) = loop.count + 0
  BY <1>4 DEF CountsIn, Now
<1> DEFINE asked == Asked(es, request, j)
           more == IF asked THEN 1 ELSE 0
<1>9. asked <=> Requested(a.element.key) BY <1>5 DEF Asked, Requested
<1> HIDE DEF es, k, j, request, from
<1>10. /\ j \in Nat /\ from <= j
       /\ Cardinality(Behind(es, request, from, j))
            = Cardinality(Behind(es, request, from, k)) + more
  <2> DEFINE type == o.type
  <2>1. IsNext(j, AheadOf(es, type, k, {})) BY <1>5
  <2> HIDE DEF type, o
  <2> QED BY <1>6, <1>7, <1>8, <2>1, OneMoreBehind
<1>11. Cardinality(Behind(es, request, from, j)) = loop.count + more
  <2>1. loop.count + 0 = loop.count BY <1>8
  <2> QED BY <1>8, <1>10, <2>1
<1>12. ASSUME Looping'
       PROVE  IsWalkable(objects'[loop'.ref].type) /\ CountsIn(loop, Internal(loop.ref))'
  <2>1. loop'.ref = q /\ Internal(loop.ref)' = n BY <1>2, <1>12 DEF Internal
  <2>2. CountsIn(loop', n)
    <3>1. /\ loop'.request = request /\ loop'.from = from /\ loop'.count = loop.count
          /\ Now(loop') = more
      BY <1>9, <1>12 DEF request, from
    <3>2. Walk!Elements(n.data) = es BY <1>5 DEF es
    <3> HIDE DEF more
    <3> QED BY <1>8, <1>10, <1>11, <3>1, <3>2 DEF CountsIn, j
  <2>3. CountsIn(loop, Internal(loop.ref))' BY <2>1, <2>2 DEF CountsIn, Now
  <2> QED BY <1>2, <1>4, <2>1, <2>3
<1> QED BY <1>3, <1>12 DEF WalkInv

(* A loop that ends has counted each element that it was asked for.         *)
LEMMA LoopCounted ==
  ASSUME NEW W, Untroubled(W), GrammarAgrees(W), TableInv, TableInv', WalkInv, CursorInv(W),
         SomeRefFree, Looping, loop.elem = Null, NEW a, Replied(loop.ref, {}, a),
         a.kind = "none", told' = EndLoop("looped")
  PROVE  LoopCountsEach'
<1> DEFINE q == loop.ref  o == Internal(q)  k == Passed(o)
           es == Walk!Elements(o.data)  request == loop.request  from == loop.from
<1>1. q \in Refs /\ Held(q) BY LoopFacts
<1>2. /\ told'.kind = "looped" /\ told'.ref = q /\ told'.request = request
      /\ told'.count = loop.count /\ told'.from = from
  BY DEF EndLoop
<1>3. Internal(told.ref)'.data = o.data
  <2> DEFINE n == a.table.pEntries[objects[q].hJson]
  <2>1. n.data = o.data BY DEF Replied, AnswerTells
  <2>2. n = a.table.pEntries[objects[q].hJson] OBVIOUS
  <2> HIDE DEF n, q
  <2>3. Replied(q, {}, a) BY DEF q
  <2>4. objects'[q] = objects[q] /\ Table'.pEntries[objects'[q].hJson] = n
    BY <1>1, <2>2, <2>3, RepliedMoves
  <2>5. Internal(told.ref)' = n BY <1>2, <2>4 DEF Internal
  <2> QED BY <2>1, <2>5
<1>4. IsWalkable(objects[q].type) /\ CountsIn(loop, o) BY DEF WalkInv
<1>5. IsWalkable(o.type) /\ AheadOf(es, o.type, k, {}) = {}
  BY DEF Replied, AnswerTells, AheadOfObject
<1>6. IsObject(o) /\ CursorIsOk(W, o)
  <2> HIDE DEF q
  <2> QED BY <1>1, InternalFacts DEF CursorInv, CursorsOk, Internal
<1>7. ~Missed(o) BY DEF CursorInv
<1> HIDE DEF o
<1>8. PICK m \in Nat : DOMAIN es = 1..m BY <1>5, <1>6, <1>7, ElementsNumbered
<1>9. k \in Nat BY <1>6, PassedIsNat
<1>10. /\ loop.count \in Nat /\ Cardinality(Behind(es, request, from, k)) = loop.count + 0
  BY <1>4 DEF CountsIn, Now
<1>11. Internal(told.ref)'.data = o.data BY <1>3
<1> DEFINE type == o.type
<1>12. AheadOf(es, type, k, {}) = {} BY <1>5
<1>13. es = Walk!Elements(Internal(told.ref)'.data) BY <1>11
<1> HIDE DEF es, k, type, request, from
<1>14. Behind(es, request, from, k) = {j \in DOMAIN es : j > from /\ Asked(es, request, j)}
  BY <1>8, <1>9, <1>12, AllBehind
<1>15. loop.count = Cardinality({j \in DOMAIN es :
                       j > from /\ (request = Null \/ es[j].key \in request.keys)})
  BY <1>10, <1>14 DEF Asked
<1> QED BY <1>2, <1>13, <1>15 DEF LoopCountsEach

LEMMA ForeachNextImplements ==
  ASSUME NEW W, Untroubled(W), GrammarAgrees(W), TableInv, TableInv', WalkInv, CursorInv(W),
         ForeachNext
  PROVE  Implements
<1> DEFINE q == loop.ref
<1>1. Looping /\ SomeRefFree /\ loop.elem = Null BY DEF ForeachNext
<1>2. /\ DOMAIN loop = {"ref", "request", "elem", "count", "found", "from"}
      /\ q \in Refs /\ Held(q) /\ ~Missed(Internal(q))
  BY <1>1, LoopFacts DEF CursorInv
<1>3. PICK a \in GetNext(q, {}) :
        /\ gs_sJsonHandleTable' = a.table
        /\ \/ ElementToCallback(a) \/ ElementPassed(a)
           \/ ElementStops(a) \/ NoMoreElements(a)
  BY DEF ForeachNext
<1>4. objects' = objects \/ objects' = a.objects
  BY <1>3 DEF ElementToCallback, ElementPassed, ElementStops, NoMoreElements
<1>5. Replied(q, {}, a)
  <2> HIDE DEF q
  <2> QED BY <1>2, <1>3, <1>4, AnswerReplied
<1>6. IsWalkable(objects[q].type) BY <1>1 DEF WalkInv
<1>7. /\ Walk!IsContainer(q) /\ IsWalkable(Internal(q).type)
      /\ Walk!Ahead(q, {}) = AheadOfObject(Internal(q), {})
  <2> HIDE DEF q
  <2> QED BY <1>2, <1>6, ContainerSeen
<1>8. a.kind \in {"none", "element"} /\ (a.kind = "none" => Walk!Ahead(q, {}) = {})
  BY <1>5, <1>7 DEF Replied, AnswerTells
<1>9. ASSUME a.kind = "element", told'.kind \in {"element", "passed", "stopped"},
             told'.ref = q, told'.names = {}, told'.element = a.element,
             told'.kind = "element" => objects' = a.objects,
             told'.kind # "element" => objects' = objects
      PROVE  Walk!Next
  <2> HIDE DEF q
  <2>1. Walk!Find(q) BY <1>1, <1>2, <1>5, <1>9, FindImplements
  <2> QED BY <1>2, <2>1 DEF Walk!Next
<1> DEFINE n == a.table.pEntries[objects[loop.ref].hJson]
<1>10. ASSUME a.kind = "element",
              Looping' => /\ loop'.ref = loop.ref /\ loop'.request = loop.request
                          /\ loop'.from = loop.from /\ loop'.count = loop.count
                          /\ Now(loop') = IF Requested(a.element.key) THEN 1 ELSE 0
       PROVE  WalkInv'
  <2>1. n = a.table.pEntries[objects[loop.ref].hJson] OBVIOUS
  <2> HIDE DEF n
  <2> QED BY <1>1, <1>5, <1>10, <2>1, LoopTakes
<1>11. ASSUME ElementToCallback(a) PROVE Implements
  <2>1. /\ a.kind = "element" /\ Requested(a.element.key) /\ objects' = a.objects
        /\ loop' = [loop EXCEPT !.elem = FreeRef]
        /\ told'.kind = "element" /\ told'.ref = q /\ told'.names = {}
        /\ told'.element = a.element
    BY <1>11, AnswerTold DEF ElementToCallback
  <2>2. /\ loop'.ref = loop.ref /\ loop'.request = loop.request /\ loop'.from = loop.from
        /\ loop'.count = loop.count /\ loop'.elem = FreeRef
    BY <1>2, <2>1
  <2>3. FreeRef # Null BY <1>1, FreeRefFacts, NullAssumption
  <2>4. Now(loop') = 1 BY <2>2, <2>3 DEF Now
  <2>5. WalkInv' BY <1>10, <2>1, <2>2, <2>4
  <2>6. Walk!Next BY <1>9, <2>1
  <2> QED BY <2>1, <2>5, <2>6, NotLooped DEF Implements
<1>12. ASSUME ElementPassed(a) PROVE Implements
  <2>1. /\ a.kind = "element" /\ ~Requested(a.element.key) /\ objects' = objects
        /\ loop' = loop
        /\ told'.kind = "passed" /\ told'.ref = q /\ told'.names = {}
        /\ told'.element = a.element
    <3>1. Returns("NO_ERROR", [TellsOf(loop.ref, {}, a) EXCEPT !.kind = "passed"])
      BY <1>12 DEF ElementPassed
    <3>2. /\ told'.kind = "passed" /\ told'.ref = q /\ told'.names = {}
          /\ told'.element = a.element
      BY <3>1, AnswerTold
    <3> QED BY <1>12, <3>2 DEF ElementPassed
  <2>2. Now(loop') = 0 BY <1>1, <2>1 DEF Now
  <2>3. WalkInv' BY <1>10, <2>1, <2>2
  <2>4. Walk!Next BY <1>9, <2>1
  <2> QED BY <2>1, <2>3, <2>4, NotLooped DEF Implements
<1>13. ASSUME ElementStops(a) PROVE Implements
  <2>1. /\ a.kind = "element" /\ objects' = objects /\ loop' = NoLoop
        /\ told'.kind = "stopped" /\ told'.ref = q /\ told'.names = {}
        /\ told'.element = a.element
    <3>1. PICK err : Returns(err, [TellsOf(loop.ref, {}, a) EXCEPT !.kind = "stopped"])
      BY <1>13 DEF ElementStops, Stopped
    <3>2. /\ told'.kind = "stopped" /\ told'.ref = q /\ told'.names = {}
          /\ told'.element = a.element
      BY <3>1, AnswerTold
    <3> QED BY <1>13, <3>2 DEF ElementStops
  <2>2. WalkInv' BY <1>10, <2>1 DEF Looping
  <2>3. Walk!Next BY <1>9, <2>1
  <2> QED BY <2>1, <2>2, <2>3, NotLooped DEF Implements
<1>14. ASSUME NoMoreElements(a) PROVE Implements
  <2>1. /\ a.kind = "none" /\ loop' = NoLoop
        /\ told' = EndLoop("looped") \/ told' = EndLoop("absent")
    <3>1. a.kind = "none" /\ loop' = NoLoop BY <1>8, <1>14 DEF NoMoreElements
    <3>2. CASE AllPresent
      <4>1. Returns("NO_ERROR", EndLoop("looped")) BY <1>14, <3>1, <3>2 DEF NoMoreElements
      <4> QED BY <3>1, <4>1 DEF Returns
    <3>3. CASE ~AllPresent
      <4>1. Returns("TOKEN_NOT_FOUND", EndLoop("absent")) BY <1>14, <3>1, <3>3 DEF NoMoreElements
      <4> QED BY <3>1, <4>1 DEF Returns
    <3> QED BY <3>2, <3>3
  <2>2. told'.kind \in {"looped", "absent"} /\ told'.ref = q BY <2>1 DEF EndLoop
  <2>3. OpenView' = OpenView
    <3> HIDE DEF q
    <3> QED BY <1>1, <1>2, <1>5, <2>1, RepliedNothing
  <2>4. Walk!LoopEnds(q) BY <1>7, <1>8, <2>1, <2>2, <2>3 DEF Walk!LoopEnds
  <2>5. Walk!Next BY <1>2, <2>4 DEF Walk!Next
  <2>6. WalkInv'
    <3>1. \A s \in Refs : objects'[s] # NoObject
            => Agree(objects'[s], Table'.pEntries[objects'[s].hJson])
      <4>1. n = a.table.pEntries[objects[q].hJson] OBVIOUS
      <4> HIDE DEF q, n
      <4> QED BY <1>1, <1>2, <1>5, <4>1, RepliedMoves
    <3>2. ~Looping' BY <2>1 DEF Looping
    <3>3. \A s \in Refs : Held(s)' => Agree(objects[s], Internal(s))'
      <4>1. \A s \in Refs : Held(s)' => objects'[s] # NoObject BY DEF Held
      <4> QED BY <3>1, <4>1 DEF Agree, Internal
    <3> QED BY <3>2, <3>3 DEF WalkInv
  <2>7. LoopCountsEach'
    <3>1. CASE told' = EndLoop("looped") BY <1>1, <1>5, <2>1, <3>1, LoopCounted
    <3>2. CASE told' = EndLoop("absent")
      <4>1. told'.kind = "absent" BY <3>2 DEF EndLoop
      <4> QED BY <4>1, NotLooped
    <3> QED BY <2>1, <3>1, <3>2
  <2> QED BY <2>5, <2>6, <2>7 DEF Implements
<1> QED BY <1>3, <1>11, <1>12, <1>13, <1>14

LEMMA WalkStarts == Init => WalkInv /\ LoopCountsEach /\ Walk!Init
<1> SUFFICES ASSUME Init PROVE WalkInv /\ LoopCountsEach /\ Walk!Init OBVIOUS
<1>1. ~Looping /\ told.kind = "other" /\ \A r \in Refs : ~Held(r)
  BY DEF Init, Looping, Told, Held
<1>2. OpenView = [r \in Refs |-> NoObject] BY <1>1 DEF OpenView
<1>3. WalkInv BY <1>1 DEF WalkInv
<1>4. LoopCountsEach BY <1>1 DEF LoopCountsEach
<1> QED BY <1>1, <1>2, <1>3, <1>4 DEF Walk!Init

LEMMA WalkGoesOn ==
  ASSUME CarefulHost, NEW W, Untroubled(W), Roots(W), GrammarAgrees(W),
         TableInv, TableInv', CursorInv(W), WalkInv, LoopCountsEach, [Next]_vars
  PROVE  [Walk!Next]_(Walk!vars) /\ WalkInv' /\ LoopCountsEach'
<1>1. ASSUME Implements PROVE [Walk!Next]_(Walk!vars) /\ WalkInv' /\ LoopCountsEach'
  BY <1>1 DEF Implements
<1>2. CASE JsonLibInit
  <2>1. UNCHANGED <<gs_sJsonHandleTable, objects, loop>> /\ told'.kind = "other"
    BY <1>2, KindTold DEF JsonLibInit
  <2>2. \A s \in Refs : Unmoved(s) BY <2>1 DEF Unmoved, Table, Internal
  <2>3. Looping => Unmoved(loop.ref) BY <2>2, LoopFacts
  <2>4. OpenView' = OpenView /\ WalkInv' BY <2>1, <2>2, <2>3, ViewsStay, LoopGoesOn
  <2>5. Walk!Other BY <2>1, <2>4 DEF Walk!Other
  <2>6. Implements BY <2>1, <2>4, <2>5, NotLooped DEF Implements, Walk!Next
  <2> QED BY <1>1, <2>6
<1>3. CASE JsonLibCleanup
  <2>1. Implements BY <1>3, CleanupImplements
  <2> QED BY <1>1, <2>1
<1>4. CASE OpenFails \/ \E text \in Texts : JsonOpen(text)
  <2>1. Implements BY <1>4, OpenFailsImplements, OpenImplements
  <2> QED BY <1>1, <2>1
<1>5. ASSUME NEW r \in Refs,
             \/ \E names \in NameSets : JsonGetNextObject(r, names)
             \/ JsonRestartParsing(r) \/ RestartRefused(r) \/ JsonReleaseObject(r)
             \/ \E request \in Requests \cup {Null} :
                  ForeachStart(r, request) \/ ForeachRefused(r, request)
      PROVE  [Walk!Next]_(Walk!vars) /\ WalkInv' /\ LoopCountsEach'
  <2>1. Implements
    BY <1>5, GetNextImplements, RestartImplements, ReleaseImplements, OthersImplement
  <2> QED BY <1>1, <2>1
<1>6. CASE ForeachNext
  <2>1. Implements BY <1>6, ForeachNextImplements
  <2> QED BY <1>1, <2>1
<1>7. CASE CallbackSucceeds \/ CallbackFails
  <2>1. Implements BY <1>7, CallbackImplements
  <2> QED BY <1>1, <2>1
<1>8. CASE UNCHANGED vars
  <2>1. UNCHANGED <<gs_sJsonHandleTable, objects, loop, told>> BY <1>8 DEF vars
  <2>2. \A s \in Refs : Unmoved(s) BY <2>1 DEF Unmoved, Table, Internal
  <2>3. Looping => Unmoved(loop.ref) BY <2>2, LoopFacts
  <2>4. OpenView' = OpenView /\ WalkInv' BY <2>1, <2>2, <2>3, ViewsStay, LoopGoesOn
  <2>5. LoopCountsEach' BY <2>1 DEF LoopCountsEach, Internal, Table
  <2> QED BY <2>1, <2>4, <2>5 DEF Walk!vars
<1> QED BY <1>2, <1>3, <1>4, <1>5, <1>6, <1>7, <1>8 DEF Next

(* A loop that succeeds has called its callback once for each element that  *)
(* it was asked for, from where it started to the end of its container,     *)
(* whatever the callbacks opened, walked, restarted and released; for the   *)
(* careful host and for texts on which the tokenizer and the grammar agree. *)
THEOREM LoopsCount ==
  ASSUME CarefulHost, NEW W, Untroubled(W), Roots(W), GrammarAgrees(W)
  PROVE  Spec => []LoopCountsEach
<1>1. Init => WalkInv /\ LoopCountsEach BY WalkStarts
<1>2. /\ TableInv /\ TableInv' /\ CursorInv(W) /\ (WalkInv /\ LoopCountsEach) /\ [Next]_vars
      => (WalkInv /\ LoopCountsEach)'
  BY WalkGoesOn
<1> QED BY <1>1, <1>2, TableHolds, CursorsHold, PTL DEF Spec

(* The calls implement JsonWalk: whatever the host and the callbacks do in  *)
(* between, a container gives its elements in their order and once, to      *)
(* searches and to loops; a search passes over elements with other names    *)
(* only, and one that finds nothing moves nothing; what is opened begins at *)
(* its first element, and a restart goes back to it.                        *)
THEOREM WalkIsImplemented ==
  ASSUME CarefulHost, NEW W, Untroubled(W), Roots(W), GrammarAgrees(W)
  PROVE  Spec => WalkImplemented
<1>1. Init => WalkInv /\ LoopCountsEach /\ Walk!Init BY WalkStarts
<1>2. /\ TableInv /\ TableInv' /\ CursorInv(W) /\ (WalkInv /\ LoopCountsEach) /\ [Next]_vars
      => [Walk!Next]_(Walk!vars) /\ (WalkInv /\ LoopCountsEach)'
  BY WalkGoesOn
<1> QED BY <1>1, <1>2, TableHolds, CursorsHold, PTL DEF Spec, WalkImplemented, Walk!Spec
=============================================================================
