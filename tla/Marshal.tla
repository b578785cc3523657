------------------------------ MODULE Marshal ------------------------------
(***************************************************************************)
(* Copying a graph of values between JavaScript and Ruby (marshal.rs).     *)
(* The encoder (js_to_jsval, ruby_to_jsval) turns the containers it meets  *)
(* into a JsVal tree in which the second and later sightings of one are    *)
(* back references; the decoder (jsval_to_ruby, jsval_to_js) builds the    *)
(* copy, resolving the references through a table.                         *)
(*                                                                         *)
(* What the source graph looks like is decided as it is read, one value at *)
(* a time: accessors and to_s are code and may change it under way.        *)
(* Scalars, texts, dates and numbers are leaves; two blobs of bytes always *)
(* have the same contents, the worst case for what compares by contents.   *)
(***************************************************************************)
EXTENDS Naturals, Sequences, FiniteSets

CONSTANTS
    MaxObjects,         \* bound: containers of the source
    Leaf,               \* scalars, and the strings hash keys become
    MaxMarshalDepth,    \* MAX_MARSHAL_DEPTH
    MaxReads            \* bound: values read from the source

ASSUME MarshalAssumption ==
    /\ MaxObjects \in Nat \ {0}
    /\ MaxMarshalDepth \in Nat \ {0}
    /\ MaxReads \in Nat

VARIABLES
    phase,      \* "encode", "decode", "done" or "raised"
    to,         \* the language of the copy
    kindOf,     \* what each container of the source is
    seen,       \* JsSeen, RbSeen: the containers registered, by id
    open,       \* ids of the containers whose contents are being read
    jsval,      \* by id: the items of that container in the JsVal tree
    source,     \* history, by id: the depth of that container and what was read
    built,      \* by id: the copy registered for it, 0 when there is none
    heap,       \* the copies, in the order they are allocated
    walk,       \* activations of the decoder: [id, copy, next item, key local]
    swallowed   \* history: the copies a Hash or Set was given and does not hold

encoder == <<seen, open, jsval, source>>
decoder == <<built, heap, walk, swallowed>>
vars == <<phase, to, kindOf, encoder, decoder>>

Object == 1..MaxObjects
Id == 1..MaxObjects
Root == 1

(* A value is a tag and a number. *)
NoKey == <<"none", 0>>
Text == <<"text", 0>>       \* a container truncated to its to_s
Nil == <<"nil", 0>>         \* undefined, nil
LeafValue == {<<"leaf", n>> : n \in Leaf}
SourceValue == LeafValue \cup {<<"object", o>> : o \in Object}
Item == LeafValue \cup {Text} \cup {"node", "ref"} \X Id
CopyValue == LeafValue \cup {Text, Nil} \cup {"copy", "dup"} \X Object
IsObject(v) == v[1] = "object"

(* A Proxy whose ownKeys trap throws is "refusing". *)
KindsOf(side) ==
    IF side = "ruby" THEN {"array", "object", "map", "set", "bytes", "refusing"}
                     ELSE {"array", "object", "set", "bytes"}
Keyed == {"object", "map"}      \* contents alternate keys and values
Leaflike == {"bytes", "refusing"}

Copy == [kind : KindsOf("ruby"), kids : Seq(CopyValue) \cup Seq(CopyValue \X CopyValue)]

TypeOK ==
    /\ phase \in {"encode", "decode", "done", "raised"}
    /\ to \in {"ruby", "js"}
    /\ kindOf \in [Object -> KindsOf(to)]
    /\ seen \in Seq(Object) /\ \A i, j \in DOMAIN seen : seen[i] = seen[j] => i = j
    /\ open \in Seq(DOMAIN seen) /\ Len(open) <= MaxMarshalDepth
    /\ jsval \in [DOMAIN seen -> Seq(Item)]
    /\ source \in [DOMAIN seen -> [depth : 0..MaxMarshalDepth, read : Seq(SourceValue)]]
    /\ built \in [Id -> 0..Len(heap)]
    /\ heap \in Seq(Copy)
    /\ walk \in Seq([id : Id, at : DOMAIN heap, next : Nat, key : CopyValue \cup {NoKey}])
    /\ Len(walk) <= MaxMarshalDepth
    /\ swallowed \subseteq DOMAIN heap

Init ==
    /\ phase = "encode"
    /\ to \in {"ruby", "js"}
    /\ kindOf \in [Object -> KindsOf(to)] /\ kindOf[Root] \notin Leaflike
    /\ seen = <<Root>> /\ open = <<Root>>
    /\ jsval = <<<<>>>> /\ source = <<[depth |-> 0, read |-> <<>>]>>
    /\ built = [id \in Id |-> 0] /\ heap = <<>> /\ walk = <<>> /\ swallowed = {}

Last(s) == s[Len(s)]
Shorter(s) == SubSeq(s, 1, Len(s) - 1)

-----------------------------------------------------------------------------
(* The encoder *)

Seen(o) == \E id \in DOMAIN seen : seen[id] = o
IdOf(o) == CHOOSE id \in DOMAIN seen : seen[id] = o

(* js_container_id and rb_container_id.  Bytes pass depth 0. *)
OneTooDeep(o) == kindOf[o] # "bytes" /\ Len(open) > MaxMarshalDepth
TooDeep(o) == kindOf[o] # "bytes" /\ Len(open) >= MaxMarshalDepth
RegistersFirst(o) == ~Seen(o)
Registers(o) == ~Seen(o) /\ ~TooDeep(o)

(* The item a value becomes.  get_own_property_names of a refusing Proxy is *)
(* None, after its id was given: the arm falls through to the text.         *)
ItemOf(v) ==
    IF ~IsObject(v) THEN v
    ELSE LET o == v[2]
         IN  IF Seen(o) THEN <<"ref", IdOf(o)>>
             ELSE IF TooDeep(o) \/ kindOf[o] = "refusing" THEN Text
             ELSE <<"node", Len(seen) + 1>>

Reads == LET count[n \in 0..Len(source)] ==
                 IF n = 0 THEN 0 ELSE count[n - 1] + Len(source[n].read)
         IN  count[Len(source)]

(* What may come next: names are strings, and distinct keys may become the  *)
(* same one; members of a set, and keys of a Map, are distinct.  Objects    *)
(* are numbered as they are met.                                            *)
Readable(v) ==
    LET id == Last(open)
        read == source[id].read
        kind == kindOf[seen[id]]
        atKey == Len(read) % 2 = 0
    IN  /\ Reads < MaxReads \/ (kind \in Keyed /\ ~atKey /\ ~IsObject(v))
        /\ IsObject(v) => \A o \in 1..(v[2] - 1) :
              Seen(o) \/ \E i \in DOMAIN source : \E j \in DOMAIN source[i].read :
                                source[i].read[j] = <<"object", o>>
        /\ kind = "object" /\ atKey => ~IsObject(v)
        /\ kind = "map" /\ atKey => \A i \in DOMAIN read : i % 2 = 1 => read[i] # v
        /\ kind = "set" => \A i \in DOMAIN read : read[i] # v

Read(v) ==
    LET id == Last(open)
        o == v[2]
        registers == IsObject(v) /\ Registers(o)
        jsvalNow == [jsval EXCEPT ![id] = Append(@, ItemOf(v))]
        sourceNow == [source EXCEPT ![id].read = Append(@, v)]
    IN  /\ phase = "encode"
        /\ open # <<>>
        /\ Readable(v)
        /\ seen' = IF registers THEN Append(seen, o) ELSE seen
        /\ jsval' = IF registers THEN Append(jsvalNow, <<>>) ELSE jsvalNow
        /\ source' = IF registers
                     THEN Append(sourceNow, [depth |-> Len(open), read |-> <<>>])
                     ELSE sourceNow
        /\ open' = IF registers /\ kindOf[o] \notin Leaflike /\ ~TooDeep(o)
                   THEN Append(open, Len(seen) + 1)
                   ELSE open
        /\ UNCHANGED <<phase, to, kindOf, decoder>>

(* The contents are exhausted. *)
Close ==
    LET id == Last(open)
    IN  /\ phase = "encode"
        /\ Len(open) > 1
        /\ kindOf[seen[id]] \in Keyed => Len(source[id].read) % 2 = 0
        /\ open' = Shorter(open)
        /\ UNCHANGED <<phase, to, kindOf, seen, jsval, source, decoder>>

-----------------------------------------------------------------------------
(* The decoder *)

(* Ruby's eql? on the copies as they are in h at the moment: the greatest  *)
(* relation of what has the same contents.  Obj and Map are both Hashes.    *)
IsCopy(x) == x[1] \in {"copy", "dup"}
AlikeIn(R, x, y) ==
    x = y \/ (IsCopy(x) /\ IsCopy(y) /\ (x[2] = y[2] \/ <<x[2], y[2]>> \in R))
PairAlikeIn(R, p, q) == AlikeIn(R, p[1], q[1]) /\ AlikeIn(R, p[2], q[2])
SameShape(k, l) == k = l \/ {k, l} \subseteq Keyed
Contents(R, c, d) ==
    /\ SameShape(c.kind, d.kind)
    /\ Len(c.kids) = Len(d.kids)
    /\ \A i \in DOMAIN c.kids :
         CASE c.kind = "array" -> AlikeIn(R, c.kids[i], d.kids[i])
           [] c.kind \in Keyed -> \E j \in DOMAIN d.kids : PairAlikeIn(R, c.kids[i], d.kids[j])
           [] OTHER -> \E j \in DOMAIN d.kids : AlikeIn(R, c.kids[i], d.kids[j])

Eql(h) ==
    LET pairs == {p \in (DOMAIN h) \X (DOMAIN h) : p[1] # p[2]}
    IN  UNION {R \in SUBSET pairs : \A p \in R : Contents(R, h[p[1]], h[p[2]])}

(* Members of a set and keys of a hash: contents in Ruby, identity in V8. *)
Same(h, x, y) == x = y \/ (to = "ruby" /\ AlikeIn(Eql(h), x, y))

(* A Hash or Set of Ruby keeps a frozen copy of a String it is keyed by. *)
Stored(h, x) ==
    IF to = "ruby" /\ x[1] = "copy" /\ h[x[2]].kind = "bytes" THEN <<"dup", x[2]>> ELSE x

PushLater(kids, x) == kids
Push(kids, x) == Append(kids, x)

(* push, Set#add, aset: the contents of the container of frame f, given x. *)
Added(h, f, x) ==
    LET kids == h[f.at].kids
        kind == h[f.at].kind
    IN  CASE kind = "array" -> Push(kids, x)
          [] kind = "set" ->
               IF \E i \in DOMAIN kids : Same(h, kids[i], x) THEN kids
               ELSE Append(kids, Stored(h, x))
          [] kind \in Keyed ->
               IF f.key = NoKey THEN kids
               ELSE IF \E i \in DOMAIN kids : Same(h, kids[i][1], f.key)
               THEN [i \in DOMAIN kids |->
                       IF Same(h, kids[i][1], f.key) THEN <<kids[i][1], x>> ELSE kids[i]]
               ELSE Append(kids, <<Stored(h, f.key), x>>)

(* The locals of the activation after x: of a pair the key waits. *)
Advanced(f, x) ==
    [f EXCEPT !.next = @ + 1,
              !.key = IF heap[f.at].kind \in Keyed /\ @ = NoKey THEN x ELSE NoKey]

(* The copies some values are. *)
CopiesIn(values) == {x[2] : x \in {y \in values : y[1] = "copy"}}
ValuesIn(kids, keyed) ==
    IF keyed THEN {kids[i][1] : i \in DOMAIN kids} \cup {kids[i][2] : i \in DOMAIN kids}
             ELSE {kids[i] : i \in DOMAIN kids}
Held(copy) == CopiesIn(ValuesIn(copy.kids, copy.kind \in Keyed))

(* The activation in frame f, above those in below, has its next value x. *)
Graft(below, f, x, copies) ==
    LET copy == [copies[f.at] EXCEPT !.kids = Added(copies, f, x)]
        frame == Advanced(f, x)
    IN  /\ heap' = [copies EXCEPT ![f.at] = copy]
        /\ walk' = Append(below, frame)
        /\ swallowed' =
              IF copy.kind = "array" THEN swallowed
              ELSE swallowed \cup ((Held(heap[f.at]) \cup CopiesIn({x, f.key}))
                                     \ (Held(copy) \cup CopiesIn({frame.key})))

NewFrame(id) == [id |-> id, at |-> Len(heap) + 1, next |-> 1, key |-> NoKey]
WithCopy(id) == Append(heap, [kind |-> kindOf[seen[id]], kids |-> <<>>])
Register(id) == built' = [built EXCEPT ![id] = Len(heap) + 1]

(* The tree is complete: the root is allocated and registered. *)
Start ==
    /\ phase = "encode"
    /\ Len(open) = 1
    /\ kindOf[Root] \in Keyed => Len(source[Root].read) % 2 = 0
    /\ phase' = "decode"
    /\ open' = <<>>
    /\ heap' = WithCopy(Root)
    /\ Register(Root)
    /\ walk' = <<NewFrame(Root)>>
    /\ UNCHANGED <<to, kindOf, seen, jsval, source, swallowed>>

Frame == Last(walk)
Finished == Frame.next > Len(jsval[Frame.id])
Decoding == phase = "decode" /\ walk # <<>>

(* A container is registered before it is filled. *)
Descend ==
    /\ Decoding /\ ~Finished
    /\ LET item == jsval[Frame.id][Frame.next]
       IN  /\ item[1] = "node" /\ kindOf[seen[item[2]]] # "bytes"
           /\ heap' = WithCopy(item[2])
           /\ Register(item[2])
           /\ walk' = Append(walk, NewFrame(item[2]))
    /\ UNCHANGED <<phase, to, kindOf, encoder, swallowed>>

DecodeBytes ==
    /\ Decoding /\ ~Finished
    /\ LET item == jsval[Frame.id][Frame.next]
       IN  /\ item[1] = "node" /\ kindOf[seen[item[2]]] = "bytes"
           /\ Register(item[2])
           /\ Graft(Shorter(walk), Frame, <<"copy", Len(heap) + 1>>, WithCopy(item[2]))
    /\ UNCHANGED <<phase, to, kindOf, encoder>>

Resolved(id) == IF built[id] = 0 THEN Nil ELSE <<"copy", built[id]>>

DecodeValue ==
    /\ Decoding /\ ~Finished
    /\ LET item == jsval[Frame.id][Frame.next]
       IN  /\ item[1] # "node"
           /\ Graft(Shorter(walk), Frame, IF item[1] = "ref" THEN Resolved(item[2]) ELSE item, heap)
    /\ UNCHANGED <<phase, to, kindOf, encoder, built>>

(* A filled container returns to the one it belongs to. *)
Ascend ==
    /\ Decoding /\ Finished
    /\ IF Len(walk) = 1
       THEN phase' = "done" /\ walk' = <<>> /\ UNCHANGED <<heap, swallowed>>
       ELSE /\ LET below == Shorter(walk)
               IN  Graft(Shorter(below), Last(below), <<"copy", Frame.at>>, heap)
            /\ UNCHANGED phase
    /\ UNCHANGED <<to, kindOf, encoder, built>>

(* On the Ruby side whatever is called may raise; the copy is abandoned. *)
Raise ==
    /\ \/ phase = "encode" /\ to = "js"
       \/ phase = "decode" /\ to = "ruby"
    /\ phase' = "raised" /\ open' = <<>> /\ walk' = <<>>
    /\ UNCHANGED <<to, kindOf, seen, jsval, source, built, heap, swallowed>>

Ended == phase \in {"done", "raised"} /\ UNCHANGED vars

Next ==
    \/ \E v \in SourceValue : Read(v)
    \/ Close \/ Start
    \/ Descend \/ DecodeBytes \/ DecodeValue \/ Ascend
    \/ Raise \/ Ended

Spec == Init /\ [][Next]_vars

-----------------------------------------------------------------------------
(* A container of the source is reachable from another. *)
Reaches(o, p) ==
    \A S \in SUBSET Object :
        /\ o \in S
        /\ \A id \in DOMAIN seen : seen[id] \in S =>
              \A i \in DOMAIN source[id].read :
                  IsObject(source[id].read[i]) => source[id].read[i][2] \in S
        => p \in S

(* The item of container id in the tree is right for the value v read. *)
Stands(item, v, id) ==
    IF ~IsObject(v) THEN item = v
    ELSE \/ item[1] \in {"node", "ref"} /\ seen[item[2]] = v[2]
                /\ (built[item[2]] # 0 \/ kindOf[v[2]] = "refusing")
         \/ item = Text /\ kindOf[v[2]] # "bytes"
                /\ (source[id].depth + 1 >= MaxMarshalDepth \/ kindOf[v[2]] = "refusing")

TreeIsFaithful(id) ==
    /\ Len(jsval[id]) = Len(source[id].read)
    /\ \A i \in DOMAIN jsval[id] : Stands(jsval[id][i], source[id].read[i], id)

(* What item i of container id becomes. *)
ValueAt(id, i) ==
    IF jsval[id][i][1] \in {"node", "ref"} THEN Resolved(jsval[id][i][2]) ELSE jsval[id][i]

HoldsItems(id, kids) == kids = [i \in DOMAIN jsval[id] |-> ValueAt(id, i)]

HoldsMembers(id, kids) ==
    LET Like(j, i) == Same(heap, kids[j], ValueAt(id, i))
    IN  /\ \A i \in DOMAIN jsval[id] : \E j \in DOMAIN kids : Like(j, i)
        /\ \A j \in DOMAIN kids : \E i \in DOMAIN jsval[id] : Like(j, i)

HoldsPairs(id, kids) ==
    LET Keys == {i \in DOMAIN jsval[id] : i % 2 = 1}
        Like(j, i) == Same(heap, kids[j][1], ValueAt(id, i))
    IN  /\ \A i \in Keys : \E j \in DOMAIN kids : Like(j, i)
        /\ \A j \in DOMAIN kids : \E i \in Keys :
              /\ Like(j, i) /\ kids[j][2] = ValueAt(id, i + 1)
              /\ \A k \in Keys : k > i => ~Like(j, k)

(* The copy of container id holds what the tree says: up to eql? where it   *)
(* is a member or a key, and of two pairs with one key the value of the     *)
(* last.                                                                    *)
CopyHolds(id) ==
    LET kind == kindOf[seen[id]]
        kids == heap[built[id]].kids
    IN  CASE kind = "array" -> HoldsItems(id, kids)
          [] kind = "set" -> HoldsMembers(id, kids)
          [] kind \in Keyed -> HoldsPairs(id, kids)
          [] kind \in Leaflike -> kids = <<>>

Faithful(id) == built[id] # 0 => TreeIsFaithful(id) /\ CopyHolds(id)

(* Ruby hashed a member or key of the container before it was filled. *)
KeyedByItself(id) ==
    /\ to = "ruby" /\ kindOf[seen[id]] \in {"set", "map"}
    /\ \E i \in DOMAIN source[id].read :
         LET v == source[id].read[i]
         IN  /\ IsObject(v) /\ Reaches(v[2], seen[id])
             /\ kindOf[seen[id]] = "map" => i % 2 = 1

(***************************************************************************)
(* The copy has the shape of what was read: every occurrence of a          *)
(* container, shared or cyclic, is the one copy of it, in its place; text  *)
(* only stands for a container at the depth limit, and nothing dangles but *)
(* references to a Proxy that refuses.  Members and keys hold up to eql?,  *)
(* unless they are hashed while they are being filled.                     *)
(***************************************************************************)
CopyIsFaithful ==
    phase = "done" =>
        \A id \in DOMAIN seen : KeyedByItself(id) \/ Faithful(id)

(* Marked by Ruby's collector: on the native stack or in something marked. *)
Locals == {walk[i].at : i \in DOMAIN walk} \cup CopiesIn({walk[i].key : i \in DOMAIN walk})
MarkedFrom(roots) ==
    {a \in DOMAIN heap : \A S \in SUBSET DOMAIN heap :
        roots \subseteq S /\ (\A b \in S : Held(heap[b]) \subseteq S) => a \in S}

(***************************************************************************)
(* The table of the decoder is hidden from the collector: every copy in it *)
(* is held by an activation, or by a container one holds, all the way,     *)
(* except for what a Hash or Set has swallowed and what that holds.        *)
(***************************************************************************)
BuiltIsRooted ==
    phase = "decode" =>
        \A id \in Id : built[id] # 0 => built[id] \in MarkedFrom(Locals \cup swallowed)

-----------------------------------------------------------------------------
(* What the comments say, and the code does not do *)

(***************************************************************************)
(* jsval_to_ruby: "`built` never holds the sole reference".  Fails, and the *)
(* reference is about to be handed out again, for a member an equal one is *)
(* in place of, or a blob whose copy is the member.                        *)
(***************************************************************************)
BuiltNeverHoldsTheSoleReference ==
    Decoding /\ ~Finished /\ to = "ruby" =>
        LET item == jsval[Frame.id][Frame.next]
        IN  item[1] = "ref" /\ built[item[2]] # 0 => built[item[2]] \in MarkedFrom(Locals)

(***************************************************************************)
(* JsVal: "shared/cyclic graphs survive the round-trip".  Fails for a set  *)
(* of two of its own ancestors, equal while both are empty.                *)
(***************************************************************************)
CyclesSurvive == phase = "done" => \A id \in DOMAIN seen : Faithful(id)

(***************************************************************************)
(* js_container_id: "no later Ref can target a container that was never    *)
(* emitted".  Fails for a Proxy that refuses to enumerate its keys.        *)
(***************************************************************************)
RefsAreEmitted ==
    Decoding /\ ~Finished =>
        LET item == jsval[Frame.id][Frame.next]
        IN  item[1] = "ref" => built[item[2]] # 0
=============================================================================
