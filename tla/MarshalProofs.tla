--------------------------- MODULE MarshalProofs ---------------------------
(***************************************************************************)
(* What the encoder writes down and what the decoder makes of it, for      *)
(* graphs of any size and shape, any depth limit, and sources that change  *)
(* while they are read: the two agree on ids and depths, every reference   *)
(* finds its copy, the collector sees every copy, and the copy is faithful *)
(* when it is complete.                                                    *)
(***************************************************************************)
EXTENDS Marshal, FiniteSetTheorems, SequenceTheorems, TLAPS

Kind(id) == kindOf[seen[id]]

(* Item j of container p is the container c; is it, or refers to it. *)
Node(p, j, c) == p \in DOMAIN seen /\ j \in DOMAIN jsval[p] /\ jsval[p][j] = <<"node", c>>
Names(p, j, c) ==
    p \in DOMAIN seen /\ j \in DOMAIN jsval[p] /\ jsval[p][j] \in {<<"node", c>>, <<"ref", c>>}

-----------------------------------------------------------------------------
(* The encoder's invariant *)

Reading == [depth : 0..MaxMarshalDepth, read : Seq(SourceValue)]

EncoderTyped ==
    /\ phase \in {"encode", "decode", "done", "raised"}
    /\ to \in {"ruby", "js"}
    /\ kindOf \in [Object -> KindsOf(to)]
    /\ seen \in Seq(Object) /\ \A i, j \in DOMAIN seen : seen[i] = seen[j] => i = j
    /\ open \in Seq(DOMAIN seen) /\ Len(open) <= MaxMarshalDepth
    /\ jsval \in [DOMAIN seen -> Seq(Item)]
    /\ source \in [DOMAIN seen -> Reading]

(* The containers being read are a path from the root, in the order of ids. *)
PathIsOpen ==
    /\ Root \in DOMAIN seen /\ seen[Root] = Root
    /\ source[Root].depth = 0 /\ Kind(Root) \notin Leaflike
    /\ phase = "encode" <=> open # <<>>
    /\ open # <<>> => open[1] = Root
    /\ \A k \in DOMAIN open : source[open[k]].depth = k - 1 /\ Kind(open[k]) \notin Leaflike
    /\ \A k, l \in DOMAIN open : k < l => open[k] < open[l]

(* An item of a container at some depth is right for the value v read. *)
Fits(item, v, depth) ==
    \/ ~IsObject(v) /\ item = v
    \/ /\ IsObject(v) /\ item[1] \in {"node", "ref"}
       /\ item[2] \in DOMAIN seen /\ seen[item[2]] = v[2]
    \/ /\ IsObject(v) /\ item = Text /\ kindOf[v[2]] # "bytes"
       /\ depth + 1 >= MaxMarshalDepth \/ kindOf[v[2]] = "refusing"

(* An item for every value; what is closed has a value for every key. *)
ItemsStand ==
    \A p \in DOMAIN seen :
        /\ Len(jsval[p]) = Len(source[p].read)
        /\ \A j \in DOMAIN jsval[p] : Fits(jsval[p][j], source[p].read[j], source[p].depth)
        /\ Kind(p) \in Leaflike => jsval[p] = <<>>
        /\ Kind(p) \in Keyed /\ phase # "raised" /\ (\A k \in DOMAIN open : open[k] # p)
             => Len(jsval[p]) % 2 = 0

(* Every container registered, but the root and a Proxy that refuses, is in *)
(* one place of the tree, one level down, and only bytes are at the limit.  *)
TreeIsTree ==
    /\ \A p, j, c : Node(p, j, c) =>
         /\ c \in DOMAIN seen /\ p < c
         /\ source[c].depth = source[p].depth + 1
         /\ Kind(c) # "refusing"
         /\ Kind(c) # "bytes" => source[c].depth < MaxMarshalDepth
    /\ \A p, j, q, k, c : Node(p, j, c) /\ Node(q, k, c) => p = q /\ j = k
    /\ \A c \in DOMAIN seen :
         c = Root \/ Kind(c) = "refusing" \/ \E p, j : Node(p, j, c)

(* Ids are given in the order the tree is walked: what is written between a *)
(* container and an item of it names nothing that is registered later.      *)
IdsAreInOrder ==
    \A p, j, c : Node(p, j, c) =>
        /\ \A q, k, n : Names(q, k, n) /\ ((q = p /\ k < j) \/ (p < q /\ q < c)) => n < c
        /\ \A k \in DOMAIN open : ~(p < open[k] /\ open[k] < c)

EInv ==
    /\ EncoderTyped
    /\ PathIsOpen
    /\ ItemsStand
    /\ TreeIsTree
    /\ IdsAreInOrder

-----------------------------------------------------------------------------
(* Values and sequences *)

LEMMA ItemFacts ==
  ASSUME NEW x \in Item
  PROVE  /\ x[1] \in {"node", "ref"} => x[2] \in Id /\ x = <<x[1], x[2]>>
         /\ x[1] \notin {"node", "ref"} => x \in LeafValue \cup {Text}
BY DEF Item, LeafValue, Text

LEMMA SourceFacts ==
  ASSUME NEW v \in SourceValue
  PROVE  /\ IsObject(v) => v[2] \in Object
         /\ ~IsObject(v) => v \in LeafValue
BY DEF SourceValue, LeafValue, IsObject

LEMMA Appended ==
  ASSUME NEW S, NEW s \in Seq(S), NEW x \in S, NEW r, r = Append(s, x)
  PROVE  /\ r \in Seq(S) /\ Len(s) \in Nat /\ Len(r) = Len(s) + 1
         /\ DOMAIN s = 1..Len(s)
         /\ DOMAIN r = DOMAIN s \cup {Len(s) + 1} /\ Len(s) + 1 \notin DOMAIN s
         /\ \A k \in DOMAIN s : r[k] = s[k]
         /\ r[Len(s) + 1] = x
OBVIOUS

LEMMA Prefixed ==
  ASSUME NEW S, NEW s \in Seq(S), NEW m \in 0..Len(s)
  PROVE  /\ SubSeq(s, 1, m) \in Seq(S) /\ DOMAIN SubSeq(s, 1, m) = 1..m
         /\ \A k \in 1..m : SubSeq(s, 1, m)[k] = s[k]
OBVIOUS

LEMMA LengthIs ==
  ASSUME NEW S, NEW s \in Seq(S), NEW n \in Nat, DOMAIN s = 1..n
  PROVE  Len(s) = n
BY LenProperties

LEMMA Shortened ==
  ASSUME NEW S, NEW s \in Seq(S), s # <<>>, NEW r, r = Shorter(s)
  PROVE  /\ Len(s) \in Nat /\ Len(s) \in DOMAIN s /\ Last(s) \in S
         /\ r \in Seq(S) /\ Len(r) = Len(s) - 1 /\ DOMAIN r = 1..(Len(s) - 1)
         /\ \A k \in DOMAIN r : k \in DOMAIN s /\ r[k] = s[k]
<1>1. Len(s) \in Nat /\ Len(s) > 0 /\ Len(s) - 1 \in 0..Len(s) /\ DOMAIN s = 1..Len(s)
  OBVIOUS
<1>2. r \in Seq(S) /\ DOMAIN r = 1..(Len(s) - 1) /\ \A k \in 1..(Len(s) - 1) : r[k] = s[k]
  <2>1. /\ Shorter(s) \in Seq(S) /\ DOMAIN Shorter(s) = 1..(Len(s) - 1)
        /\ \A k \in 1..(Len(s) - 1) : Shorter(s)[k] = s[k]
    <3> DEFINE m == Len(s) - 1
    <3>1. m \in 0..Len(s)
      BY <1>1
    <3> HIDE DEF m
    <3>2. /\ SubSeq(s, 1, m) \in Seq(S) /\ DOMAIN SubSeq(s, 1, m) = 1..m
          /\ \A k \in 1..m : SubSeq(s, 1, m)[k] = s[k]
      BY <3>1, Prefixed
    <3> QED
      BY <3>2 DEF Shorter, m
  <2> QED
    BY <2>1
<1>3. Len(r) = Len(s) - 1 /\ \A k \in DOMAIN r : k \in DOMAIN s /\ r[k] = s[k]
  <2>1. Len(s) - 1 \in Nat
    BY <1>1
  <2>2. Len(r) = Len(s) - 1
    BY <2>1, <1>2, LengthIs
  <2> QED
    BY <2>2, <1>1, <1>2
<1>4. Last(s) \in S
  BY <1>1 DEF Last
<1> QED
  BY <1>1, <1>2, <1>3, <1>4

(* Something numbered from 1 to n is a sequence. *)
LEMMA Numbered ==
  ASSUME NEW S, NEW n \in Nat, NEW f \in [1..n -> S]
  PROVE  f \in Seq(S) /\ Len(f) = n
BY IsASeq, LenProperties, SeqDef


-----------------------------------------------------------------------------
(* Reading a value *)

LEMMA CountTo ==
  ASSUME NEW n \in Nat
  PROVE  IsFiniteSet(1..n) /\ Cardinality(1..n) = n
BY FS_Interval

LEMMA DistinctAreFew ==
  ASSUME NEW s \in Seq(Object), \A i, j \in DOMAIN s : s[i] = s[j] => i = j
  PROVE  Len(s) \in Nat /\ DOMAIN s = 1..Len(s) /\ Len(s) <= MaxObjects
<1>1. Len(s) \in Nat /\ DOMAIN s = 1..Len(s) /\ \A k \in DOMAIN s : s[k] \in Object
  OBVIOUS
<1>2. /\ IsFiniteSet(1..Len(s)) /\ Cardinality(1..Len(s)) = Len(s)
      /\ IsFiniteSet(Object) /\ Cardinality(Object) = MaxObjects
  BY <1>1, CountTo, MarshalAssumption DEF Object
<1>3. s \in [1..Len(s) -> Object]
  BY <1>1
<1>4. CASE Len(s) > MaxObjects
  <2>1. \E x, y \in 1..Len(s) : x # y /\ s[x] = s[y]
    BY <1>2, <1>3, <1>4, FS_PigeonHole
  <2> QED
    BY <2>1, <1>1
<1> QED
  BY <1>1, <1>4, MarshalAssumption

LEMMA SeenFacts ==
  ASSUME EncoderTyped
  PROVE  /\ Len(seen) \in Nat /\ DOMAIN seen = 1..Len(seen) /\ DOMAIN seen \subseteq Id
         /\ jsval \in Seq(Seq(Item)) /\ Len(jsval) = Len(seen)
         /\ source \in Seq(Reading)
         /\ Len(source) = Len(seen)
         /\ \A o \in Object : Seen(o) => IdOf(o) \in DOMAIN seen /\ seen[IdOf(o)] = o
<1>1. Len(seen) \in Nat /\ DOMAIN seen = 1..Len(seen) /\ Len(seen) <= MaxObjects
  BY DistinctAreFew DEF EncoderTyped
<1>2. jsval \in Seq(Seq(Item)) /\ Len(jsval) = Len(seen)
  BY <1>1, Numbered DEF EncoderTyped
<1>3. /\ source \in Seq(Reading) /\ Len(source) = Len(seen)
  BY <1>1, Numbered DEF EncoderTyped
<1>4. ASSUME NEW o \in Object, Seen(o)
      PROVE  IdOf(o) \in DOMAIN seen /\ seen[IdOf(o)] = o
  BY <1>4 DEF Seen, IdOf
<1> QED
  BY <1>1, <1>2, <1>3, <1>4, MarshalAssumption DEF Id

(* Container p gets v, and the tree item for it; the rest stays. *)
Writes(p, v, item) ==
    /\ p \in DOMAIN seen /\ item \in Item
    /\ jsval'[p] \in Seq(Item) /\ Len(jsval'[p]) = Len(jsval[p]) + 1
    /\ jsval'[p][Len(jsval[p]) + 1] = item
    /\ \A j \in DOMAIN jsval[p] : jsval'[p][j] = jsval[p][j]
    /\ source'[p].read \in Seq(SourceValue) /\ Len(source'[p].read) = Len(source[p].read) + 1
    /\ source'[p].read[Len(source[p].read) + 1] = v
    /\ \A j \in DOMAIN source[p].read : source'[p].read[j] = source[p].read[j]
    /\ \A q \in DOMAIN seen : /\ seen'[q] = seen[q] /\ source'[q].depth = source[q].depth
                              /\ q # p => jsval'[q] = jsval[q] /\ source'[q] = source[q]

(* No container is registered ... *)
Stays ==
    seen' = seen /\ DOMAIN jsval' = DOMAIN jsval /\ DOMAIN source' = DOMAIN source /\ open' = open

(* ... or o is, as id n. *)
Enrols(o, n) ==
    /\ n = Len(seen) + 1 /\ n \notin DOMAIN seen /\ n \in Id
    /\ seen' \in Seq(Object) /\ seen'[n] = o
    /\ DOMAIN seen' = DOMAIN seen \cup {n}
    /\ DOMAIN jsval' = DOMAIN seen' /\ DOMAIN source' = DOMAIN seen'
    /\ jsval'[n] = <<>> /\ source'[n] = [depth |-> Len(open), read |-> <<>>]
    /\ \A i, j \in DOMAIN seen' : seen'[i] = seen'[j] => i = j

(* What the item is for, in each case. *)
Refers(v, item) ==
    /\ ~(IsObject(v) /\ Registers(v[2]))
    /\ \/ ~IsObject(v) /\ item = v
       \/ /\ IsObject(v) /\ item[1] = "ref" /\ item[2] \in DOMAIN seen
          /\ seen[item[2]] = v[2]
       \/ IsObject(v) /\ item = Text /\ kindOf[v[2]] # "bytes" /\ Len(open) >= MaxMarshalDepth

(* What Read(v) writes, n being the id that v gets if it is registered. *)
ReadDoes(v, n) ==
    /\ phase = "encode" /\ open # <<>> /\ UNCHANGED <<phase, to, kindOf, decoder>>
    /\ Readable(v)
    /\ Writes(Last(open), v, ItemOf(v))
    /\ jsval' \in [DOMAIN seen' -> Seq(Item)] /\ source' \in [DOMAIN seen' -> Reading]
    /\ \/ Stays /\ Refers(v, ItemOf(v))
       \/ /\ IsObject(v) /\ ~Seen(v[2]) /\ Enrols(v[2], n)
          /\ kindOf[v[2]] = "bytes" \/ Len(open) < MaxMarshalDepth
          /\ kindOf[v[2]] = "refusing" => ItemOf(v) = Text
          /\ kindOf[v[2]] # "refusing" => ItemOf(v) = <<"node", n>>
          /\ kindOf[v[2]] \in Leaflike => open' = open
          /\ kindOf[v[2]] \notin Leaflike => open' = Append(open, n)

LEMMA Enrolment ==
  ASSUME EncoderTyped, NEW o \in Object, ~Seen(o)
  PROVE  /\ Len(seen) + 1 \in Id /\ Len(seen) + 1 \notin DOMAIN seen
         /\ Append(seen, o) \in Seq(Object)
         /\ DOMAIN Append(seen, o) = DOMAIN seen \cup {Len(seen) + 1}
         /\ Append(seen, o)[Len(seen) + 1] = o
         /\ \A q \in DOMAIN seen : Append(seen, o)[q] = seen[q]
         /\ \A i, j \in DOMAIN Append(seen, o) :
                Append(seen, o)[i] = Append(seen, o)[j] => i = j
<1> DEFINE s == Append(seen, o)
<1>1. /\ s \in Seq(Object) /\ Len(s) = Len(seen) + 1
      /\ DOMAIN s = DOMAIN seen \cup {Len(seen) + 1} /\ Len(seen) + 1 \notin DOMAIN seen
      /\ s[Len(seen) + 1] = o /\ \A q \in DOMAIN seen : s[q] = seen[q]
  BY Appended DEF EncoderTyped
<1> HIDE DEF s
<1>2. \A i, j \in DOMAIN s : s[i] = s[j] => i = j
  BY <1>1 DEF EncoderTyped, Seen
<1>3. Len(s) <= MaxObjects
  BY <1>1, <1>2, DistinctAreFew
<1>4. Len(seen) + 1 \in Id
  BY <1>1, <1>3, SeenFacts, MarshalAssumption DEF Id
<1> QED
  BY <1>1, <1>2, <1>4 DEF s

LEMMA WritesIs ==
  ASSUME NEW p \in DOMAIN seen, NEW v \in SourceValue, NEW item \in Item,
         jsval[p] \in Seq(Item), source[p].read \in Seq(SourceValue),
         jsval'[p] = Append(jsval[p], item),
         source'[p].read = Append(source[p].read, v), source'[p].depth = source[p].depth,
         \A q \in DOMAIN seen : /\ seen'[q] = seen[q]
                                /\ q # p => jsval'[q] = jsval[q] /\ source'[q] = source[q]
  PROVE  Writes(p, v, item)
<1>1. /\ jsval'[p] \in Seq(Item) /\ Len(jsval'[p]) = Len(jsval[p]) + 1
      /\ jsval'[p][Len(jsval[p]) + 1] = item
      /\ \A j \in DOMAIN jsval[p] : jsval'[p][j] = jsval[p][j]
  BY Appended
<1>2. /\ source'[p].read \in Seq(SourceValue)
      /\ Len(source'[p].read) = Len(source[p].read) + 1
      /\ source'[p].read[Len(source[p].read) + 1] = v
      /\ \A j \in DOMAIN source[p].read : source'[p].read[j] = source[p].read[j]
  BY Appended
<1> QED
  BY <1>1, <1>2 DEF Writes

LEMMA ReadWrites ==
  ASSUME EncoderTyped, NEW v \in SourceValue, Read(v)
  PROVE  ReadDoes(v, Len(seen) + 1)
<1> DEFINE p == Last(open)
           item == ItemOf(v)
           n == Len(seen) + 1
           J == [jsval EXCEPT ![p] = Append(@, item)]
           S == [source EXCEPT ![p].read = Append(@, v)]
           registers == IsObject(v) /\ Registers(v[2])
<1>1. /\ phase = "encode" /\ open # <<>> /\ Readable(v)
      /\ UNCHANGED <<phase, to, kindOf, decoder>>
      /\ registers => /\ seen' = Append(seen, v[2]) /\ jsval' = Append(J, <<>>)
                      /\ source' = Append(S, [depth |-> Len(open), read |-> <<>>])
                      /\ open' = IF kindOf[v[2]] \notin Leaflike THEN Append(open, n) ELSE open
      /\ ~registers => seen' = seen /\ jsval' = J /\ source' = S /\ open' = open
  BY DEF Read, Registers
<1>2. p \in DOMAIN seen
  BY <1>1, Shortened DEF EncoderTyped
<1>3. /\ registers => /\ v[2] \in Object /\ ~Seen(v[2]) /\ n \in Id
                      /\ kindOf[v[2]] = "bytes" \/ Len(open) < MaxMarshalDepth
                      /\ item = IF kindOf[v[2]] = "refusing" THEN Text ELSE <<"node", n>>
      /\ ~registers => Refers(v, item)
  <2>1. CASE registers
    <3>1. v[2] \in Object /\ ~Seen(v[2]) /\ ~TooDeep(v[2])
      BY <2>1, SourceFacts DEF Registers
    <3>2. n \in Id
      BY <3>1, Enrolment
    <3>3. Len(open) \in Nat
      BY DEF EncoderTyped
    <3> QED
      BY <2>1, <3>1, <3>2, <3>3, MarshalAssumption DEF TooDeep, ItemOf
  <2>2. CASE ~registers
    <3>1. CASE ~IsObject(v)
      BY <2>2, <3>1 DEF ItemOf, Refers
    <3>2. CASE IsObject(v) /\ Seen(v[2])
      <4>1. item = <<"ref", IdOf(v[2])>>
        BY <3>2 DEF ItemOf
      <4>2. IdOf(v[2]) \in DOMAIN seen /\ seen[IdOf(v[2])] = v[2]
        BY <3>2, SeenFacts, SourceFacts
      <4> QED
        BY <2>2, <3>2, <4>1, <4>2 DEF Refers
    <3>3. CASE IsObject(v) /\ ~Seen(v[2])
      <4>1. TooDeep(v[2])
        BY <2>2, <3>3 DEF Registers
      <4>2. item = Text
        BY <3>3, <4>1 DEF ItemOf
      <4> QED
        BY <2>2, <3>3, <4>1, <4>2 DEF Refers, TooDeep
    <3> QED
      BY <3>1, <3>2, <3>3
  <2> QED
    BY <2>1, <2>2
<1>4. item \in Item
  <2>1. CASE registers
    BY <2>1, <1>3 DEF Item, Text
  <2>2. CASE ~registers
    <3>1. CASE ~IsObject(v)
      BY <3>1, SourceFacts DEF ItemOf, Item
    <3>2. CASE IsObject(v) /\ Seen(v[2])
      BY <3>2, SeenFacts, SourceFacts DEF ItemOf, Item
    <3>3. CASE IsObject(v) /\ ~Seen(v[2])
      BY <2>2, <3>3 DEF Registers, ItemOf, Item
    <3> QED
      BY <3>1, <3>2, <3>3
  <2> QED
    BY <2>1, <2>2
<1>5. /\ J \in Seq(Seq(Item)) /\ DOMAIN J = DOMAIN seen
      /\ J[p] = Append(jsval[p], item)
      /\ \A q \in DOMAIN seen : q # p => J[q] = jsval[q]
  <2>1. Append(jsval[p], item) \in Seq(Item)
    BY <1>2, <1>4 DEF EncoderTyped
  <2>2. J \in [DOMAIN seen -> Seq(Item)]
    BY <1>2, <2>1 DEF EncoderTyped
  <2>3. J \in Seq(Seq(Item))
    BY <2>2, SeenFacts, Numbered
  <2> QED
    BY <1>2, <2>2, <2>3 DEF EncoderTyped
<1>6. /\ S \in Seq(Reading) /\ DOMAIN S = DOMAIN seen
      /\ S[p].read = Append(source[p].read, v) /\ S[p].depth = source[p].depth
      /\ \A q \in DOMAIN seen : q # p => S[q] = source[q]
  <2> DEFINE r == [source[p] EXCEPT !.read = Append(@, v)]
  <2>1. r \in Reading /\ r.read = Append(source[p].read, v) /\ r.depth = source[p].depth
    <3>1. source[p] \in Reading /\ source[p].read \in Seq(SourceValue)
      BY <1>2 DEF EncoderTyped, Reading
    <3>2. Append(source[p].read, v) \in Seq(SourceValue)
      BY <3>1
    <3> HIDE DEF p
    <3> QED
      BY <3>1, <3>2 DEF Reading
  <2>2. S = [source EXCEPT ![p] = r]
    BY Zenon
  <2> HIDE DEF r, S
  <2>3. S \in [DOMAIN seen -> Reading]
    BY <1>2, <2>1, <2>2 DEF EncoderTyped
  <2>4. S \in Seq(Reading)
    BY <2>3, SeenFacts, Numbered
  <2> QED
    BY <1>2, <2>1, <2>2, <2>3, <2>4 DEF EncoderTyped
<1>7. /\ jsval[p] \in Seq(Item) /\ source[p].read \in Seq(SourceValue)
      /\ Len(J) = Len(seen) /\ Len(S) = Len(seen)
  <2>1. jsval[p] \in Seq(Item) /\ source[p].read \in Seq(SourceValue)
    BY <1>2 DEF EncoderTyped, Reading
  <2>2. DOMAIN J = 1..Len(seen) /\ DOMAIN S = 1..Len(seen) /\ Len(seen) \in Nat
    BY <1>5, <1>6, SeenFacts
  <2> HIDE DEF J, S
  <2> QED
    BY <2>1, <2>2, <1>5, <1>6, LengthIs
<1> HIDE DEF p, item, n, J, S, registers
<1>8. CASE registers
  <2>1. Enrols(v[2], n)
    <3>1. seen' = Append(seen, v[2]) /\ v[2] \in Object /\ ~Seen(v[2])
      BY <1>1, <1>3, <1>8
    <3>2. /\ seen' \in Seq(Object) /\ DOMAIN seen' = DOMAIN seen \cup {n} /\ seen'[n] = v[2]
          /\ \A i, j \in DOMAIN seen' : seen'[i] = seen'[j] => i = j
          /\ n \notin DOMAIN seen /\ n \in Id /\ n = Len(seen) + 1
      BY <3>1, Enrolment DEF n
    <3>3. DOMAIN jsval' = DOMAIN seen' /\ jsval'[n] = <<>>
      BY <1>1, <1>5, <1>7, <1>8, <3>2, Appended
    <3>4. DOMAIN source' = DOMAIN seen' /\ source'[n] = [depth |-> Len(open), read |-> <<>>]
      BY <1>1, <1>6, <1>7, <1>8, <3>2, Appended
    <3> QED
      BY <3>2, <3>3, <3>4 DEF Enrols
  <2>2. /\ jsval'[p] = J[p] /\ source'[p] = S[p]
        /\ \A q \in DOMAIN seen : /\ seen'[q] = seen[q] /\ jsval'[q] = J[q]
                                  /\ source'[q] = S[q]
    <3>1. \A q \in DOMAIN seen : jsval'[q] = J[q]
      BY <1>1, <1>5, <1>8, Appended
    <3>2. \A q \in DOMAIN seen : source'[q] = S[q]
      <4> DEFINE fresh == [depth |-> Len(open), read |-> <<>>]
      <4>1. fresh \in Reading
        BY DEF Reading, EncoderTyped
      <4>2. source' = Append(S, fresh)
        BY <1>1, <1>8
      <4> HIDE DEF fresh
      <4> QED
        BY <4>1, <4>2, <1>6, Appended
    <3>3. \A q \in DOMAIN seen : seen'[q] = seen[q]
      BY <1>1, <1>3, <1>8, Enrolment
    <3> QED
      BY <1>2, <3>1, <3>2, <3>3
  <2>3. Writes(p, v, item)
    BY <2>2, <1>2, <1>4, <1>5, <1>6, <1>7, WritesIs
  <2>4. /\ IsObject(v) /\ ~Seen(v[2])
        /\ kindOf[v[2]] = "bytes" \/ Len(open) < MaxMarshalDepth
        /\ kindOf[v[2]] = "refusing" => item = Text
        /\ kindOf[v[2]] # "refusing" => item = <<"node", n>>
        /\ kindOf[v[2]] \in Leaflike => open' = open
        /\ kindOf[v[2]] \notin Leaflike => open' = Append(open, n)
    BY <1>1, <1>3, <1>8 DEF registers
  <2>5. jsval' \in [DOMAIN seen' -> Seq(Item)] /\ source' \in [DOMAIN seen' -> Reading]
    <3>1. DOMAIN jsval' = DOMAIN seen' /\ DOMAIN source' = DOMAIN seen'
      BY <2>1 DEF Enrols
    <3>2. jsval' \in Seq(Seq(Item))
      <4>1. <<>> \in Seq(Item) /\ jsval' = Append(J, <<>>)
        BY <1>1, <1>8
      <4> QED
        BY <4>1, <1>5, AppendProperties
    <3>3. source' \in Seq(Reading)
      <4> DEFINE fresh == [depth |-> Len(open), read |-> <<>>]
      <4>1. fresh \in Reading
        BY DEF Reading, EncoderTyped
      <4>2. source' = Append(S, fresh)
        BY <1>1, <1>8
      <4> HIDE DEF fresh
      <4> QED
        BY <4>1, <4>2, <1>6, Appended
    <3> QED
      BY <3>1, <3>2, <3>3
  <2> QED
    BY <1>1, <2>1, <2>3, <2>4, <2>5 DEF ReadDoes, p, item, n
<1>9. CASE ~registers
  <2>1. seen' = seen /\ jsval' = J /\ source' = S /\ open' = open /\ Refers(v, item)
    BY <1>1, <1>3, <1>9
  <2>2. Stays
    BY <2>1, <1>5, <1>6 DEF Stays, EncoderTyped
  <2>3. Writes(p, v, item)
    BY <2>1, <1>2, <1>4, <1>5, <1>6, <1>7, WritesIs
  <2>4. jsval' \in [DOMAIN seen' -> Seq(Item)] /\ source' \in [DOMAIN seen' -> Reading]
    BY <2>1, <1>5, <1>6
  <2> QED
    BY <1>1, <2>1, <2>2, <2>3, <2>4 DEF ReadDoes, p, item
<1> QED
  BY <1>8, <1>9

LEMMA ReadItems ==
  ASSUME EncoderTyped, NEW v \in SourceValue, NEW n, ReadDoes(v, n)
  PROVE  LET p == Last(open)
             i == Len(jsval[p]) + 1
         IN  /\ i \notin DOMAIN jsval[p] /\ i \in DOMAIN jsval'[p]
             /\ DOMAIN jsval'[p] = DOMAIN jsval[p] \cup {i}
             /\ \A q, j, c : Node(q, j, c)' <=>
                    Node(q, j, c) \/ (q = p /\ j = i /\ ItemOf(v) = <<"node", c>>)
             /\ \A q, j, c : Names(q, j, c)' <=>
                    Names(q, j, c)
                    \/ (q = p /\ j = i /\ ItemOf(v) \in {<<"node", c>>, <<"ref", c>>})
<1> DEFINE p == Last(open)
           i == Len(jsval[p]) + 1
<1>1. /\ p \in DOMAIN seen /\ jsval'[p] \in Seq(Item) /\ Len(jsval'[p]) = Len(jsval[p]) + 1
      /\ jsval'[p][Len(jsval[p]) + 1] = ItemOf(v)
      /\ \A j \in DOMAIN jsval[p] : jsval'[p][j] = jsval[p][j]
      /\ \A q \in DOMAIN seen : q # p => jsval'[q] = jsval[q]
  BY DEF ReadDoes, Writes
<1>2. jsval[p] \in Seq(Item) /\ Len(jsval[p]) \in Nat /\ DOMAIN jsval[p] = 1..Len(jsval[p])
  BY <1>1 DEF EncoderTyped
<1>3. DOMAIN jsval'[p] = DOMAIN jsval[p] \cup {i} /\ i \notin DOMAIN jsval[p]
  BY <1>1, <1>2
<1>4. \/ DOMAIN seen' = DOMAIN seen
      \/ /\ n \notin DOMAIN seen /\ DOMAIN seen' = DOMAIN seen \cup {n}
         /\ jsval'[n] = <<>>
  BY DEF ReadDoes, Stays, Enrols
<1> HIDE DEF p, i
<1>5. \A q, j, c : Node(q, j, c)' <=>
          Node(q, j, c) \/ (q = p /\ j = i /\ ItemOf(v) = <<"node", c>>)
  <2>1. ASSUME NEW q, NEW j, NEW c
        PROVE  Node(q, j, c)' <=>
                 Node(q, j, c) \/ (q = p /\ j = i /\ ItemOf(v) = <<"node", c>>)
    <3>1. CASE q = p
      BY <3>1, <1>1, <1>3, <1>4 DEF Node, i
    <3>2. CASE q # p
      BY <3>2, <1>1, <1>4 DEF Node
    <3> QED
      BY <3>1, <3>2
  <2> QED
    BY <2>1
<1>6. \A q, j, c : Names(q, j, c)' <=>
          Names(q, j, c) \/ (q = p /\ j = i /\ ItemOf(v) \in {<<"node", c>>, <<"ref", c>>})
  BY <1>1, <1>3, <1>4 DEF Names, i
<1> QED
  BY <1>3, <1>5, <1>6 DEF p, i

LEMMA ReadTyped ==
  ASSUME EncoderTyped, NEW v \in SourceValue, NEW n, ReadDoes(v, n)
  PROVE  EncoderTyped'
<1>1. phase' = phase /\ to' = to /\ kindOf' = kindOf
  BY DEF ReadDoes
<1>2. CASE Stays
  BY <1>1, <1>2 DEF EncoderTyped, ReadDoes, Stays
<1>3. CASE ~Stays
  <2>1. /\ Enrols(v[2], n)
        /\ kindOf[v[2]] = "bytes" \/ Len(open) < MaxMarshalDepth
        /\ open' = open \/ (kindOf[v[2]] \notin Leaflike /\ open' = Append(open, n))
    BY <1>3 DEF ReadDoes
  <2>2. /\ seen' \in Seq(Object) /\ DOMAIN seen' = DOMAIN seen \cup {n}
        /\ \A i, j \in DOMAIN seen' : seen'[i] = seen'[j] => i = j
    BY <2>1 DEF Enrols
  <2>3. open \in Seq(DOMAIN seen') /\ n \in DOMAIN seen'
    BY <2>2, SeqMonotonic DEF EncoderTyped
  <2>4. open' \in Seq(DOMAIN seen') /\ Len(open') <= MaxMarshalDepth
    <3>1. CASE open' = open
      BY <2>3, <3>1 DEF EncoderTyped
    <3>2. CASE open' # open
      <4>1. open' = Append(open, n) /\ Len(open) < MaxMarshalDepth
        BY <2>1, <3>2 DEF Leaflike
      <4>2. Len(open') = Len(open) + 1 /\ Len(open) \in Nat /\ open' \in Seq(DOMAIN seen')
        BY <4>1, <2>3, Appended
      <4> QED
        BY <4>1, <4>2, MarshalAssumption
    <3> QED
      BY <3>1, <3>2
  <2> QED
    BY <1>1, <2>2, <2>4 DEF EncoderTyped, ReadDoes
<1> QED
  BY <1>2, <1>3

(* What Read leaves and what it adds, read off its definition once. *)
LEMMA ReadKeeps ==
  ASSUME EncoderTyped, PathIsOpen, NEW v \in SourceValue, NEW n, ReadDoes(v, n)
  PROVE  /\ phase = "encode" /\ phase' = "encode" /\ kindOf' = kindOf
         /\ \A q \in DOMAIN seen : q \in DOMAIN seen' /\ seen'[q] = seen[q]
                                   /\ Kind(q)' = Kind(q)
                                   /\ source'[q].depth = source[q].depth
         /\ Len(open) \in DOMAIN open /\ Last(open) \in DOMAIN seen
         /\ source[Last(open)].depth + 1 = Len(open) /\ Kind(Last(open)) \notin Leaflike
         /\ \A k \in DOMAIN open : open[k] <= Last(open)
         /\ \/ DOMAIN seen' = DOMAIN seen /\ open' = open
            \/ /\ DOMAIN seen' = DOMAIN seen \cup {n} /\ n \notin DOMAIN seen
               /\ \A q \in DOMAIN seen : q < n
               /\ Kind(n)' = kindOf[v[2]] /\ jsval'[n] = <<>>
               /\ source'[n].depth = Len(open) /\ source'[n].read = <<>>
               /\ open' = open \/ (open' = Append(open, n) /\ Kind(n)' \notin Leaflike)
               /\ Kind(n)' # "bytes" => Len(open) < MaxMarshalDepth
               /\ Kind(n)' # "refusing" => ItemOf(v) = <<"node", n>>
         /\ \A c : ItemOf(v) = <<"node", c>> =>
               c = n /\ n \in DOMAIN seen' /\ n \notin DOMAIN seen /\ Kind(n)' # "refusing"
<1>1. /\ phase = "encode" /\ phase' = "encode" /\ kindOf' = kindOf
      /\ open # <<>>
  BY DEF ReadDoes
<1>2. \A q \in DOMAIN seen : seen'[q] = seen[q] /\ source'[q].depth = source[q].depth
  BY DEF ReadDoes, Writes
<1>3. \A q \in DOMAIN seen : q \in DOMAIN seen' /\ Kind(q)' = Kind(q)
  BY <1>1, <1>2 DEF ReadDoes, Stays, Enrols, Kind
<1>4. /\ Len(open) \in DOMAIN open /\ Last(open) \in DOMAIN seen
      /\ Len(open) \in Nat /\ DOMAIN open = 1..Len(open)
  BY <1>1, Shortened DEF EncoderTyped
<1>5. /\ source[Last(open)].depth + 1 = Len(open) /\ Kind(Last(open)) \notin Leaflike
      /\ \A k \in DOMAIN open : open[k] <= Last(open)
  <2>1. source[Last(open)].depth = Len(open) - 1 /\ Kind(Last(open)) \notin Leaflike
    BY <1>4 DEF PathIsOpen, Last
  <2>2. ASSUME NEW k \in DOMAIN open PROVE open[k] <= Last(open)
    <3>1. open[k] \in Nat /\ Last(open) \in Nat
      BY <1>4, SeenFacts DEF EncoderTyped
    <3>2. CASE k = Len(open)
      BY <3>1, <3>2 DEF Last
    <3>3. CASE k # Len(open)
      BY <1>4, <3>1, <3>3 DEF PathIsOpen, Last
    <3> QED
      BY <3>2, <3>3
  <2> QED
    BY <1>4, <2>1, <2>2
<1>6. CASE Stays /\ Refers(v, ItemOf(v))
  <2>1. DOMAIN seen' = DOMAIN seen /\ open' = open
    BY <1>6 DEF Stays
  <2>2. \A c : ItemOf(v) # <<"node", c>>
    <3>1. \/ ItemOf(v) \in LeafValue
          \/ ItemOf(v)[1] = "ref"
          \/ ItemOf(v) = Text
      BY <1>6, SourceFacts DEF Refers
    <3> QED
      BY <3>1 DEF LeafValue, Text
  <2> QED
    BY <1>1, <1>2, <1>3, <1>4, <1>5, <2>1, <2>2
<1>7. CASE ~(Stays /\ Refers(v, ItemOf(v)))
  <2>1. /\ IsObject(v) /\ Enrols(v[2], n)
        /\ kindOf[v[2]] = "bytes" \/ Len(open) < MaxMarshalDepth
        /\ kindOf[v[2]] = "refusing" => ItemOf(v) = Text
        /\ kindOf[v[2]] # "refusing" => ItemOf(v) = <<"node", n>>
        /\ kindOf[v[2]] \in Leaflike => open' = open
        /\ kindOf[v[2]] \notin Leaflike => open' = Append(open, n)
    BY <1>7 DEF ReadDoes
  <2>2. /\ DOMAIN seen' = DOMAIN seen \cup {n} /\ n \notin DOMAIN seen
        /\ n = Len(seen) + 1 /\ jsval'[n] = <<>>
        /\ Kind(n)' = kindOf[v[2]]
        /\ source'[n].depth = Len(open) /\ source'[n].read = <<>>
    BY <2>1, <1>1 DEF Enrols, Kind
  <2>3. \A q \in DOMAIN seen : q < n
    BY <2>2, SeenFacts
  <2>4. ASSUME NEW c, ItemOf(v) = <<"node", c>>
        PROVE  c = n /\ Kind(n)' # "refusing"
    <3>1. kindOf[v[2]] # "refusing"
      BY <2>1, <2>4 DEF Text
    <3>2. <<"node", n>> = <<"node", c>>
      BY <2>1, <2>4, <3>1
    <3> QED
      BY <2>2, <3>1, <3>2
  <2> QED
    BY <1>1, <1>2, <1>3, <1>4, <1>5, <2>1, <2>2, <2>3, <2>4
<1> QED
  BY <1>6, <1>7

LEMMA NamesSeen ==
  ASSUME EncoderTyped, ItemsStand, NEW p, NEW j, NEW c, Names(p, j, c)
  PROVE  c \in DOMAIN seen
<1>1. /\ p \in DOMAIN seen /\ j \in DOMAIN jsval[p] /\ jsval[p] \in Seq(Item)
      /\ Len(jsval[p]) = Len(source[p].read) /\ source[p].read \in Seq(SourceValue)
  BY DEF Names, EncoderTyped, ItemsStand, Reading
<1>2. source[p].read[j] \in SourceValue
  BY <1>1
<1>3. jsval[p][j] \in {<<"node", c>>, <<"ref", c>>}
  BY DEF Names
<1>4. jsval[p][j][1] \in {"node", "ref"} /\ jsval[p][j][2] = c
  BY <1>3
<1>5. jsval[p][j] \notin LeafValue /\ jsval[p][j] # Text
  BY <1>4 DEF LeafValue, Text
<1> QED
  BY <1>1, <1>2, <1>4, <1>5, SourceFacts DEF ItemsStand, Fits

LEMMA ReadPath ==
  ASSUME EncoderTyped, PathIsOpen, NEW v \in SourceValue, NEW n, ReadDoes(v, n)
  PROVE  PathIsOpen'
<1>1. /\ phase' = "encode" /\ open # <<>>
      /\ \A q \in DOMAIN seen : q \in DOMAIN seen' /\ seen'[q] = seen[q] /\ Kind(q)' = Kind(q)
                                /\ source'[q].depth = source[q].depth
      /\ \/ open' = open
         \/ /\ open' = Append(open, n) /\ Kind(n)' \notin Leaflike
            /\ source'[n].depth = Len(open) /\ n \in DOMAIN seen'
            /\ \A q \in DOMAIN seen : q < n
  BY ReadKeeps DEF ReadDoes
<1>2. /\ Root \in DOMAIN seen' /\ seen'[Root] = Root
      /\ source'[Root].depth = 0 /\ Kind(Root)' \notin Leaflike
  BY <1>1 DEF PathIsOpen, Leaflike
<1>3. \A k \in DOMAIN open : open[k] \in DOMAIN seen
  BY DEF EncoderTyped
<1>4. CASE open' = open
  BY <1>1, <1>2, <1>3, <1>4 DEF PathIsOpen, Leaflike
<1>5. CASE open' # open
  <2>1. open' = Append(open, n) /\ n \in DOMAIN seen'
    BY <1>1, <1>5
  <2>2. DOMAIN seen \subseteq DOMAIN seen'
    BY <1>1
  <2>3. open \in Seq(DOMAIN seen')
    BY <2>2, SeqMonotonic DEF EncoderTyped
  <2>4. /\ Len(open) \in Nat /\ DOMAIN open = 1..Len(open)
        /\ DOMAIN open' = DOMAIN open \cup {Len(open) + 1}
        /\ \A k \in DOMAIN open : open'[k] = open[k]
        /\ open'[Len(open) + 1] = n
    BY <2>1, <2>3, Appended
  <2>5. open' # <<>> /\ open'[1] = Root
    <3>1. 1 \in DOMAIN open /\ open[1] = Root
      BY <1>1, <2>4 DEF PathIsOpen
    <3>2. 1 \in DOMAIN open' /\ open'[1] = open[1]
      BY <2>4, <3>1
    <3> QED
      BY <3>1, <3>2
  <2>6. \A k \in DOMAIN open' : source'[open'[k]].depth = k - 1 /\ Kind(open[k])' \notin Leaflike
    <3>1. ASSUME NEW k \in DOMAIN open
          PROVE  source'[open'[k]].depth = k - 1 /\ Kind(open[k])' \notin Leaflike
      BY <1>1, <1>3, <2>4 DEF PathIsOpen, Leaflike
    <3>2. source'[n].depth = Len(open) + 1 - 1 /\ Kind(n)' \notin Leaflike
      BY <1>1, <1>5, <2>4
    <3> QED
      BY <2>4, <3>1, <3>2
  <2>7. \A k, l \in DOMAIN open' : k < l => open'[k] < open'[l]
    <3>1. ASSUME NEW k \in DOMAIN open', NEW l \in DOMAIN open', k < l
          PROVE  open'[k] < open'[l]
      <4>1. k \in DOMAIN open
        BY <2>4, <3>1
      <4>2. CASE l \in DOMAIN open
        BY <2>4, <3>1, <4>1, <4>2 DEF PathIsOpen
      <4>3. CASE l = Len(open) + 1
        BY <1>1, <1>3, <1>5, <2>4, <4>1, <4>3
      <4> QED
        BY <2>4, <4>2, <4>3
    <3> QED
      BY <3>1
  <2> QED
    BY <1>1, <1>2, <2>5, <2>6, <2>7 DEF PathIsOpen, Leaflike
<1> QED
  BY <1>4, <1>5

LEMMA ReadTree ==
  ASSUME EInv, NEW v \in SourceValue, NEW n, ReadDoes(v, n)
  PROVE  TreeIsTree'
<1> DEFINE p == Last(open)
           i == Len(jsval[p]) + 1
<1> EncoderTyped /\ PathIsOpen /\ ItemsStand /\ TreeIsTree
  BY DEF EInv
<1>1. /\ i \notin DOMAIN jsval[p]
      /\ \A q, j, c : Node(q, j, c)' <=>
             Node(q, j, c) \/ (q = p /\ j = i /\ ItemOf(v) = <<"node", c>>)
  BY ReadItems
<1>2. \A q, j, c : Node(q, j, c) => q \in DOMAIN seen /\ c \in DOMAIN seen /\ j \in DOMAIN jsval[q]
  BY DEF TreeIsTree, Node
<1>3. ASSUME NEW q, NEW j, NEW c, Node(q, j, c)'
      PROVE  /\ c \in DOMAIN seen' /\ q < c
             /\ source'[c].depth = source'[q].depth + 1
             /\ Kind(c)' # "refusing"
             /\ Kind(c)' # "bytes" => source'[c].depth < MaxMarshalDepth
  <2>1. CASE Node(q, j, c)
    <3>1. /\ q \in DOMAIN seen /\ c \in DOMAIN seen /\ q < c
          /\ source[c].depth = source[q].depth + 1
          /\ Kind(c) # "refusing"
          /\ Kind(c) # "bytes" => source[c].depth < MaxMarshalDepth
      BY <2>1, <1>2 DEF TreeIsTree
    <3> QED
      BY <3>1, ReadKeeps
  <2>2. CASE q = p /\ j = i /\ ItemOf(v) = <<"node", c>>
    <3>1. c = n /\ n \in DOMAIN seen' /\ n \notin DOMAIN seen /\ Kind(n)' # "refusing"
      BY <2>2, ReadKeeps
    <3>2. /\ p \in DOMAIN seen /\ p < n
          /\ source'[n].depth = Len(open) /\ source[p].depth + 1 = Len(open)
          /\ source'[p].depth = source[p].depth
          /\ Kind(n)' # "bytes" => Len(open) < MaxMarshalDepth
      BY <3>1, ReadKeeps
    <3> QED
      BY <2>2, <3>1, <3>2
  <2> QED
    BY <1>1, <1>3, <2>1, <2>2
<1>4. ASSUME NEW q, NEW j, NEW r, NEW k, NEW c, Node(q, j, c)', Node(r, k, c)'
      PROVE  q = r /\ j = k
  <2>1. CASE Node(q, j, c) /\ Node(r, k, c)
    BY <2>1 DEF TreeIsTree
  <2>2. CASE ~(Node(q, j, c) /\ Node(r, k, c))
    <3>1. c \notin DOMAIN seen
      <4>1. ItemOf(v) = <<"node", c>>
        BY <1>1, <1>4, <2>2
      <4> QED
        BY <4>1, ReadKeeps
    <3>2. ~Node(q, j, c) /\ ~Node(r, k, c)
      BY <1>2, <3>1
    <3> QED
      BY <1>1, <1>4, <3>2
  <2> QED
    BY <2>1, <2>2
<1>5. ASSUME NEW c \in DOMAIN seen'
      PROVE  c = Root \/ Kind(c)' = "refusing" \/ \E q, j : Node(q, j, c)'
  <2>1. CASE c \in DOMAIN seen
    <3>1. c = Root \/ Kind(c) = "refusing" \/ \E q, j : Node(q, j, c)
      BY <2>1 DEF TreeIsTree
    <3> QED
      BY <1>1, <2>1, <3>1, ReadKeeps
  <2>2. CASE c \notin DOMAIN seen
    <3>1. DOMAIN seen' # DOMAIN seen
      BY <2>2, <1>5
    <3>2. /\ DOMAIN seen' = DOMAIN seen \cup {n}
          /\ Kind(n)' # "refusing" => ItemOf(v) = <<"node", n>>
      BY <3>1, ReadKeeps
    <3> QED
      BY <1>1, <1>5, <2>2, <3>2
  <2> QED
    BY <2>1, <2>2
<1> HIDE DEF p, i
<1> QED
  BY <1>3, <1>4, <1>5 DEF TreeIsTree

LEMMA ReadOrder ==
  ASSUME EInv, NEW v \in SourceValue, NEW n, ReadDoes(v, n)
  PROVE  IdsAreInOrder'
<1> DEFINE p == Last(open)
           i == Len(jsval[p]) + 1
<1> EncoderTyped /\ PathIsOpen /\ ItemsStand /\ TreeIsTree /\ IdsAreInOrder
  BY DEF EInv
<1>1. /\ i \notin DOMAIN jsval[p]
      /\ \A q, j, c : Node(q, j, c)' <=>
             Node(q, j, c) \/ (q = p /\ j = i /\ ItemOf(v) = <<"node", c>>)
      /\ \A q, j, c : Names(q, j, c)' =>
             Names(q, j, c) \/ (q = p /\ j = i)
  BY ReadItems
<1>2. /\ p \in DOMAIN seen /\ Len(open) \in DOMAIN open /\ p = open[Len(open)]
      /\ \A k \in DOMAIN open : open[k] <= p
      /\ \A k \in DOMAIN open : open[k] \in DOMAIN seen
  <2>1. /\ p \in DOMAIN seen /\ Len(open) \in DOMAIN open
        /\ \A k \in DOMAIN open : open[k] <= p
    BY ReadKeeps
  <2>2. p = open[Len(open)] /\ \A k \in DOMAIN open : open[k] \in DOMAIN seen
    BY DEF EncoderTyped, Last
  <2> QED
    BY <2>1, <2>2
<1>3. /\ DOMAIN seen \subseteq Nat /\ p \in Nat
      /\ jsval[p] \in Seq(Item) /\ Len(jsval[p]) \in Nat /\ DOMAIN jsval[p] = 1..Len(jsval[p])
  BY <1>2, SeenFacts DEF Id, EncoderTyped
<1>4. \A k \in DOMAIN open' :
         \/ k \in DOMAIN open /\ open'[k] = open[k]
         \/ open'[k] = n /\ n \notin DOMAIN seen /\ \A q \in DOMAIN seen : q < n
  <2>1. CASE open' = open
    BY <2>1
  <2>2. CASE open' # open
    <3>1. open' = Append(open, n) /\ n \notin DOMAIN seen /\ n \in DOMAIN seen'
          /\ DOMAIN seen \subseteq DOMAIN seen' /\ \A q \in DOMAIN seen : q < n
      BY <2>2, ReadKeeps
    <3>2. open \in Seq(DOMAIN seen')
      BY <3>1, SeqMonotonic DEF EncoderTyped
    <3> QED
      BY <3>1, <3>2, Appended
  <2> QED
    BY <2>1, <2>2
<1> HIDE DEF p
<1>5. ASSUME NEW r, NEW j, NEW c, Node(r, j, c)
      PROVE  /\ \A q, k, m : Names(q, k, m)' /\ ((q = r /\ k < j) \/ (r < q /\ q < c)) => m < c
             /\ \A k \in DOMAIN open' : ~(r < open'[k] /\ open'[k] < c)
  <2>1. /\ \A q, k, m : Names(q, k, m) /\ ((q = r /\ k < j) \/ (r < q /\ q < c)) => m < c
        /\ \A k \in DOMAIN open : ~(r < open[k] /\ open[k] < c)
    BY <1>5 DEF IdsAreInOrder
  <2>2. c \in DOMAIN seen /\ c \in Nat /\ r \in DOMAIN seen /\ j \in DOMAIN jsval[r]
    BY <1>3, <1>5 DEF TreeIsTree, Node
  <2>3. ~(r < p /\ p < c)
    BY <1>2, <2>1
  <2>4. r = p => ~(i < j)
    BY <1>3, <2>2
  <2>5. \A q, k, m : Names(q, k, m)' /\ ((q = r /\ k < j) \/ (r < q /\ q < c)) => m < c
    BY <1>1, <2>1, <2>3, <2>4
  <2>6. ASSUME NEW k \in DOMAIN open', r < open'[k], open'[k] < c
        PROVE  FALSE
    <3>1. CASE k \in DOMAIN open /\ open'[k] = open[k]
      BY <2>1, <2>6, <3>1
    <3>2. CASE open'[k] = n /\ \A q \in DOMAIN seen : q < n
      <4>1. c < n /\ n < c /\ n \in Nat
        <5>1. n \in DOMAIN seen'
          BY <3>2, <2>6, ReadTyped DEF EncoderTyped
        <5>2. n \in Nat
          BY <5>1, ReadTyped, DistinctAreFew DEF EncoderTyped
        <5> QED
          BY <2>2, <2>6, <3>2, <5>2
      <4> QED
        BY <2>2, <4>1
    <3> QED
      BY <1>4, <2>6, <3>1, <3>2
  <2> QED
    BY <2>5, <2>6
<1>6. ASSUME NEW c, ItemOf(v) = <<"node", c>>
      PROVE  /\ \A q, k, m : Names(q, k, m)' /\ ((q = p /\ k < i) \/ (p < q /\ q < c)) => m < c
             /\ \A k \in DOMAIN open' : ~(p < open'[k] /\ open'[k] < c)
  <2>1. c = n /\ n \in DOMAIN seen' /\ n \notin DOMAIN seen
    BY <1>6, ReadKeeps
  <2>2. \A q \in DOMAIN seen : q < n
    BY <2>1, ReadKeeps
  <2>3. n \in Nat
    BY <2>1, ReadTyped, DistinctAreFew DEF EncoderTyped
  <2>4. \A q, k, m : Names(q, k, m)' /\ ((q = p /\ k < i) \/ (p < q /\ q < n)) => m < n
    <3>1. ASSUME NEW q, NEW k, NEW m, Names(q, k, m)', (q = p /\ k < i) \/ (p < q /\ q < n)
          PROVE  m < n
      <4>1. Names(q, k, m)
        <5>1. CASE q = p /\ k = i
          BY <1>3, <3>1, <5>1
        <5> QED
          BY <1>1, <3>1, <5>1
      <4> QED
        BY <2>2, <4>1, NamesSeen
    <3> QED
      BY <3>1
  <2>5. ASSUME NEW k \in DOMAIN open' PROVE ~(p < open'[k] /\ open'[k] < n)
    <3>1. CASE k \in DOMAIN open /\ open'[k] = open[k]
      BY <1>2, <1>3, <3>1
    <3>2. CASE open'[k] = n
      BY <2>3, <3>2
    <3> QED
      BY <1>4, <3>1, <3>2
  <2> QED
    BY <2>1, <2>4, <2>5
<1> HIDE DEF i
<1> QED
  BY <1>1, <1>5, <1>6 DEF IdsAreInOrder

LEMMA ReadStands ==
  ASSUME EInv, NEW v \in SourceValue, NEW n, ReadDoes(v, n)
  PROVE  ItemsStand'
<1> PICK p, i, item : p = Last(open) /\ i = Len(jsval[p]) + 1 /\ item = ItemOf(v)
  OBVIOUS
<1> EncoderTyped /\ PathIsOpen /\ ItemsStand
  BY DEF EInv
<1>1. /\ phase' = "encode" /\ phase = "encode" /\ kindOf' = kindOf
      /\ \A q \in DOMAIN seen : q \in DOMAIN seen' /\ seen'[q] = seen[q] /\ Kind(q)' = Kind(q)
      /\ p \in DOMAIN seen /\ Kind(p) \notin Leaflike /\ Len(open) \in DOMAIN open
      /\ source[p].depth + 1 = Len(open)
  BY ReadKeeps
<1>2. /\ jsval'[p] \in Seq(Item) /\ Len(jsval'[p]) = Len(jsval[p]) + 1
      /\ jsval'[p][i] = item
      /\ \A j \in DOMAIN jsval[p] : jsval'[p][j] = jsval[p][j]
      /\ source'[p].read \in Seq(SourceValue) /\ Len(source'[p].read) = Len(source[p].read) + 1
      /\ source'[p].read[Len(source[p].read) + 1] = v
      /\ \A j \in DOMAIN source[p].read : source'[p].read[j] = source[p].read[j]
      /\ \A q \in DOMAIN seen : /\ source'[q].depth = source[q].depth
                                /\ q # p => jsval'[q] = jsval[q] /\ source'[q] = source[q]
  BY DEF ReadDoes, Writes
<1>3. DOMAIN jsval'[p] = DOMAIN jsval[p] \cup {i}
  BY ReadItems
<1>4. \A x, u, d : Fits(x, u, d) => Fits(x, u, d)'
  BY <1>1 DEF Fits
<1>5. \A k \in DOMAIN open : \E l \in DOMAIN open' : open'[l] = open[k]
  <2>1. CASE open' = open
    BY <2>1
  <2>2. CASE open' # open
    <3>1. /\ open' = Append(open, n) /\ n \in DOMAIN seen'
          /\ DOMAIN seen \subseteq DOMAIN seen'
      BY <2>2, ReadKeeps
    <3>2. open \in Seq(DOMAIN seen')
      BY <3>1, SeqMonotonic DEF EncoderTyped
    <3> QED
      BY <3>1, <3>2, Appended
  <2> QED
    BY <2>1, <2>2
<1>6. Fits(item, v, source[p].depth)'
  <2>1. CASE Refers(v, item)
    <3>1. Len(open) >= MaxMarshalDepth => source[p].depth + 1 >= MaxMarshalDepth
      BY <1>1
    <3>2. Fits(item, v, source[p].depth)
      BY <2>1, <3>1 DEF Refers, Fits
    <3> QED
      BY <1>1, <1>2, <1>4, <3>2
  <2>2. CASE ~Refers(v, item)
    <3>1. /\ IsObject(v) /\ Enrols(v[2], n)
          /\ kindOf[v[2]] = "refusing" => item = Text
          /\ kindOf[v[2]] # "refusing" => item = <<"node", n>>
      BY <2>2 DEF ReadDoes
    <3>2. n \in DOMAIN seen' /\ seen'[n] = v[2]
      BY <3>1 DEF Enrols
    <3>3. CASE kindOf[v[2]] = "refusing"
      BY <1>1, <3>1, <3>3 DEF Fits
    <3>4. CASE kindOf[v[2]] # "refusing"
      BY <3>1, <3>2, <3>4 DEF Fits
    <3> QED
      BY <3>3, <3>4
  <2> QED
    BY <2>1, <2>2
<1>7. ASSUME NEW q \in DOMAIN seen'
      PROVE  /\ Len(jsval'[q]) = Len(source'[q].read)
             /\ \A j \in DOMAIN jsval'[q] :
                    Fits(jsval[q][j], source[q].read[j], source[q].depth)'
             /\ Kind(q)' \in Leaflike => jsval'[q] = <<>>
             /\ Kind(q)' \in Keyed /\ phase' # "raised" /\ (\A k \in DOMAIN open' : open'[k] # q)
                  => Len(jsval'[q]) % 2 = 0
  <2>1. CASE q = p
    <3>1. /\ Len(jsval[p]) = Len(source[p].read)
          /\ \A j \in DOMAIN jsval[p] : Fits(jsval[p][j], source[p].read[j], source[p].depth)
          /\ DOMAIN jsval[p] = DOMAIN source[p].read
      BY <1>1 DEF ItemsStand, EncoderTyped, Reading
    <3>2. ASSUME NEW j \in DOMAIN jsval'[p]
          PROVE  Fits(jsval[p][j], source[p].read[j], source[p].depth)'
      <4>1. CASE j \in DOMAIN jsval[p]
        BY <1>1, <1>2, <1>4, <3>1, <4>1
      <4>2. CASE j = i
        BY <1>2, <1>6, <3>1, <4>2
      <4> QED
        BY <1>3, <4>1, <4>2
    <3>3. \E l \in DOMAIN open' : open'[l] = p
      BY <1>1, <1>5 DEF Last
    <3> QED
      BY <1>1, <1>2, <2>1, <3>1, <3>2, <3>3 DEF Leaflike
  <2>2. CASE q \in DOMAIN seen /\ q # p
    <3>1. /\ Len(jsval[q]) = Len(source[q].read)
          /\ \A j \in DOMAIN jsval[q] : Fits(jsval[q][j], source[q].read[j], source[q].depth)
          /\ Kind(q) \in Leaflike => jsval[q] = <<>>
          /\ Kind(q) \in Keyed /\ phase # "raised" /\ (\A k \in DOMAIN open : open[k] # q)
               => Len(jsval[q]) % 2 = 0
      BY <2>2 DEF ItemsStand
    <3>2. jsval'[q] = jsval[q] /\ source'[q] = source[q] /\ Kind(q)' = Kind(q)
      BY <1>1, <1>2, <2>2
    <3>3. \A j \in DOMAIN jsval'[q] : Fits(jsval[q][j], source[q].read[j], source[q].depth)'
      BY <1>4, <3>1, <3>2
    <3>4. (\A k \in DOMAIN open' : open'[k] # q) => \A k \in DOMAIN open : open[k] # q
      BY <1>5
    <3> QED
      BY <1>1, <3>1, <3>2, <3>3, <3>4 DEF Leaflike, Keyed
  <2>3. CASE q \notin DOMAIN seen
    <3>1. q = n /\ jsval'[n] = <<>> /\ source'[n].read = <<>>
      <4>1. DOMAIN seen' # DOMAIN seen
        BY <2>3
      <4>2. /\ DOMAIN seen' = DOMAIN seen \cup {n}
            /\ jsval'[n] = <<>> /\ source'[n].read = <<>>
        BY <4>1, ReadKeeps
      <4> QED
        BY <4>2, <1>7, <2>3
    <3>2. Len(jsval'[q]) = 0 /\ Len(source'[q].read) = 0 /\ DOMAIN jsval'[q] = {}
      BY <3>1
    <3>3. 0 % 2 = 0
      OBVIOUS
    <3> QED
      BY <3>1, <3>2, <3>3
  <2> QED
    BY <2>1, <2>2, <2>3
<1> QED
  BY <1>7 DEF ItemsStand, Leaflike, Keyed

-----------------------------------------------------------------------------
(* The encoder's invariant is one *)

LEMMA InitEncodes == Init => EInv
<1> SUFFICES ASSUME Init PROVE EInv
  OBVIOUS
<1>1. /\ phase = "encode" /\ to \in {"ruby", "js"} /\ kindOf \in [Object -> KindsOf(to)]
      /\ seen = <<1>> /\ open = <<1>> /\ jsval = << <<>> >>
      /\ source = << [depth |-> 0, read |-> <<>>] >> /\ kindOf[1] \notin Leaflike
  BY DEF Init, Root
<1>2. /\ DOMAIN seen = {1} /\ DOMAIN open = {1} /\ seen[1] = 1 /\ open[1] = 1 /\ Len(open) = 1
      /\ DOMAIN jsval = {1} /\ DOMAIN source = {1}
      /\ jsval[1] = <<>> /\ source[1].depth = 0 /\ source[1].read = <<>>
  BY <1>1
<1>3. 1 \in Object /\ seen \in Seq(Object) /\ open \in Seq({1})
  BY <1>1, MarshalAssumption DEF Object
<1>4. EncoderTyped
  <2>1. jsval \in [DOMAIN seen -> Seq(Item)]
    <3>1. <<>> \in Seq(Item)
      OBVIOUS
    <3>2. jsval = [q \in {1} |-> <<>>]
      BY <1>1
    <3> QED
      BY <1>2, <3>1, <3>2
  <2>2. source \in [DOMAIN seen -> Reading]
    <3> DEFINE fresh == [depth |-> 0, read |-> <<>>]
    <3>1. fresh \in Reading
      BY MarshalAssumption DEF Reading
    <3>2. source = <<fresh>>
      BY <1>1
    <3> HIDE DEF fresh
    <3>3. source = [q \in {1} |-> fresh]
      BY <3>2
    <3> QED
      BY <1>2, <3>1, <3>3
  <2> QED
    BY <1>1, <1>2, <1>3, <2>1, <2>2, MarshalAssumption DEF EncoderTyped
<1>5. PathIsOpen
  BY <1>1, <1>2 DEF PathIsOpen, Root, Kind
<1>6. ItemsStand
  <2>1. Len(jsval[1]) = 0 /\ Len(source[1].read) = 0 /\ DOMAIN jsval[1] = {}
    BY <1>2
  <2> QED
    BY <1>2, <2>1 DEF ItemsStand
<1>7. \A p, j, c : ~Node(p, j, c)
  BY <1>2 DEF Node
<1>8. TreeIsTree /\ IdsAreInOrder
  BY <1>2, <1>7 DEF TreeIsTree, IdsAreInOrder, Root
<1> QED
  BY <1>4, <1>5, <1>6, <1>8 DEF EInv

(* Nothing but the path changes, and the phase with it. *)
LEMMA PathChanges ==
  ASSUME EInv, UNCHANGED <<to, kindOf, seen, jsval, source>>,
         phase' \in {"encode", "decode", "done", "raised"}, PathIsOpen',
         open' \in Seq(DOMAIN seen), Len(open') <= MaxMarshalDepth,
         \A k \in DOMAIN open' : k \in DOMAIN open /\ open'[k] = open[k],
         \A p \in DOMAIN seen :
             Kind(p) \in Keyed /\ phase' # "raised" /\ (\A k \in DOMAIN open' : open'[k] # p)
               => Len(jsval[p]) % 2 = 0
  PROVE  EInv'
<1> EncoderTyped /\ ItemsStand /\ TreeIsTree /\ IdsAreInOrder
  BY DEF EInv
<1>1. /\ \A p, j, c : Node(p, j, c)' <=> Node(p, j, c)
      /\ \A p, j, c : Names(p, j, c)' <=> Names(p, j, c)
      /\ \A p : Kind(p)' = Kind(p)
      /\ \A item, v, d : Fits(item, v, d)' <=> Fits(item, v, d)
  BY DEF Node, Names, Kind, Fits
<1>2. EncoderTyped'
  BY DEF EncoderTyped, Reading
<1>3. ItemsStand'
  BY <1>1 DEF ItemsStand
<1>4. TreeIsTree'
  BY <1>1 DEF TreeIsTree
<1>5. IdsAreInOrder'
  BY <1>1 DEF IdsAreInOrder
<1> QED
  BY <1>2, <1>3, <1>4, <1>5 DEF EInv

LEMMA EncodesOn ==
  ASSUME EInv, [Next]_vars
  PROVE  EInv'
<1>0. EncoderTyped /\ PathIsOpen /\ ItemsStand
  BY DEF EInv
<1>1. ASSUME NEW v \in SourceValue, Read(v) PROVE EInv'
  <2>1. ReadDoes(v, Len(seen) + 1)
    BY <1>0, <1>1, ReadWrites
  <2> QED
    BY <1>0, <2>1, ReadTyped, ReadPath, ReadStands, ReadTree, ReadOrder DEF EInv
<1>2. CASE Close
  <2>1. /\ phase = "encode" /\ phase' = "encode" /\ Len(open) > 1
        /\ UNCHANGED <<to, kindOf, seen, jsval, source>> /\ open' = Shorter(open)
        /\ kindOf[seen[Last(open)]] \in Keyed => Len(source[Last(open)].read) % 2 = 0
    BY <1>2 DEF Close
  <2>2. /\ Len(open) \in Nat /\ Len(open) \in DOMAIN open /\ Last(open) \in DOMAIN seen
        /\ open' \in Seq(DOMAIN seen) /\ Len(open') = Len(open) - 1
        /\ DOMAIN open' = 1..(Len(open) - 1) /\ DOMAIN open = 1..Len(open)
        /\ \A k \in DOMAIN open' : k \in DOMAIN open /\ open'[k] = open[k]
    <3>1. open \in Seq(DOMAIN seen) /\ open # <<>>
      BY <1>0, <2>1 DEF EncoderTyped, PathIsOpen
    <3> QED
      BY <2>1, <3>1, Shortened
  <2>3. Len(open') <= MaxMarshalDepth
    BY <1>0, <2>2, MarshalAssumption DEF EncoderTyped
  <2>4. PathIsOpen'
    <3>1. open' # <<>> /\ open'[1] = Root
      <4>1. open' # <<>> /\ 1 \in DOMAIN open'
        BY <2>1, <2>2
      <4> QED
        BY <1>0, <4>1, <2>2 DEF PathIsOpen
    <3>2. \A k : Kind(k)' = Kind(k)
      BY <2>1 DEF Kind
    <3>3. \A k \in DOMAIN open' :
             source'[open'[k]].depth = k - 1 /\ Kind(open[k])' \notin Leaflike
      <4>1. ASSUME NEW k \in DOMAIN open', NEW q, q = open[k]
            PROVE  source'[open'[k]].depth = k - 1 /\ Kind(q)' \notin Leaflike
        BY <1>0, <2>1, <2>2, <3>2, <4>1 DEF PathIsOpen
      <4> QED
        BY <2>2, <4>1
    <3>4. \A k, l \in DOMAIN open' : k < l => open'[k] < open'[l]
      BY <1>0, <2>2 DEF PathIsOpen
    <3>5. Root \in DOMAIN seen' /\ seen'[Root] = Root /\ source'[Root].depth = 0 /\ Kind(Root)' \notin Leaflike
      BY <1>0, <2>1, <3>2 DEF PathIsOpen
    <3> QED
      BY <2>1, <3>1, <3>3, <3>4, <3>5 DEF PathIsOpen, Leaflike
  <2>5. ASSUME NEW p \in DOMAIN seen, Kind(p) \in Keyed, \A k \in DOMAIN open' : open'[k] # p
        PROVE  Len(jsval[p]) % 2 = 0
    <3>1. CASE p = Last(open)
      BY <1>0, <2>1, <2>5, <3>1 DEF ItemsStand, Kind
    <3>2. CASE p # Last(open)
      <4>1. \A k \in DOMAIN open : open[k] # p
        BY <2>2, <2>5, <3>2 DEF Last
      <4> QED
        BY <1>0, <2>1, <2>5, <4>1 DEF ItemsStand
    <3> QED
      BY <3>1, <3>2
  <2> QED
    BY <2>1, <2>2, <2>3, <2>4, <2>5, PathChanges
<1>3. CASE Start
  <2>1. /\ phase = "encode" /\ phase' = "decode" /\ Len(open) = 1 /\ open' = <<>>
        /\ UNCHANGED <<to, kindOf, seen, jsval, source>>
        /\ kindOf[Root] \in Keyed => Len(source[Root].read) % 2 = 0
    BY <1>3 DEF Start
  <2>2. PathIsOpen'
    BY <1>0, <2>1 DEF PathIsOpen, Kind
  <2>3. ASSUME NEW p \in DOMAIN seen, Kind(p) \in Keyed
        PROVE  Len(jsval[p]) % 2 = 0
    <3>1. CASE p = Root
      BY <1>0, <2>1, <2>3, <3>1 DEF ItemsStand, PathIsOpen, Kind
    <3>2. CASE p # Root
      <4>1. DOMAIN open = {1} /\ open[1] = Root
        BY <1>0, <2>1 DEF EncoderTyped, PathIsOpen
      <4> QED
        BY <1>0, <2>1, <2>3, <3>2, <4>1 DEF ItemsStand
    <3> QED
      BY <3>1, <3>2
  <2>4. open' \in Seq(DOMAIN seen) /\ Len(open') <= MaxMarshalDepth /\ DOMAIN open' = {}
    BY <2>1, MarshalAssumption
  <2> QED
    BY <2>1, <2>2, <2>3, <2>4, PathChanges
<1>4. CASE Raise
  <2>1. phase' = "raised" /\ open' = <<>> /\ UNCHANGED <<to, kindOf, seen, jsval, source>>
    BY <1>4 DEF Raise
  <2>2. PathIsOpen'
    BY <1>0, <2>1 DEF PathIsOpen, Kind
  <2>3. open' \in Seq(DOMAIN seen) /\ Len(open') <= MaxMarshalDepth /\ DOMAIN open' = {}
    BY <2>1, MarshalAssumption
  <2> QED
    BY <2>1, <2>2, <2>3, PathChanges
<1>5. CASE \/ Descend \/ DecodeBytes \/ DecodeValue \/ Ascend
           \/ Ended \/ UNCHANGED vars
  <2>1. /\ UNCHANGED <<to, kindOf, seen, jsval, source, open>>
        /\ phase' = phase \/ (phase = "decode" /\ phase' = "done")
    BY <1>5 DEF Descend, DecodeBytes, DecodeValue, Ascend, Ended, vars, encoder, Decoding
  <2>2. PathIsOpen'
    <3>1. phase' = "encode" <=> phase = "encode"
      BY <2>1
    <3>2. \A k : Kind(k)' = Kind(k)
      BY <2>1 DEF Kind
    <3> QED
      BY <1>0, <2>1, <3>1, <3>2 DEF PathIsOpen
  <2>3. /\ open' \in Seq(DOMAIN seen) /\ Len(open') <= MaxMarshalDepth
        /\ \A k \in DOMAIN open' : k \in DOMAIN open /\ open'[k] = open[k]
        /\ phase' \in {"encode", "decode", "done", "raised"}
    BY <1>0, <2>1 DEF EncoderTyped
  <2>4. \A p \in DOMAIN seen :
           Kind(p) \in Keyed /\ phase' # "raised" /\ (\A k \in DOMAIN open' : open'[k] # p)
             => Len(jsval[p]) % 2 = 0
    BY <1>0, <2>1 DEF ItemsStand
  <2> QED
    BY <2>1, <2>2, <2>3, <2>4, PathChanges
<1> QED
  BY <1>1, <1>2, <1>3, <1>4, <1>5 DEF Next

-----------------------------------------------------------------------------
(* The decoder's invariant *)

Built == {id \in Id : built[id] # 0}
Pair == CopyValue \X CopyValue

(* Pairs in what is keyed, values in the rest, and copies that are there. *)
KidsStand(copy, n) ==
    /\ copy.kind \in Keyed => copy.kids \in Seq(Pair)
    /\ copy.kind \notin Keyed => copy.kids \in Seq(CopyValue)
    /\ Held(copy) \subseteq 1..n

HeapStands ==
    /\ heap \in Seq(Copy)
    /\ \A a \in DOMAIN heap : KidsStand(heap[a], Len(heap))
    /\ swallowed \subseteq DOMAIN heap

(* The table: one copy for one container, of its kind. *)
TableStands ==
    /\ built \in [Id -> 0..Len(heap)]
    /\ Len(heap) = Cardinality(Built)
    /\ \A i, j \in Built : built[i] = built[j] => i = j
    /\ \A id \in Built : /\ id \in DOMAIN seen /\ Kind(id) # "refusing"
                         /\ heap[built[id]].kind = Kind(id)
    /\ phase = "encode" => heap = <<>> /\ Built = {} /\ swallowed = {}
    /\ phase \in {"decode", "done"} => Root \in Built

Activation == [id : Id, at : Object, next : Nat, key : CopyValue \cup {NoKey}]

(* A decoder's activation, the depth-th, between two items or at a node. *)
Decodes(f, depth) ==
    /\ f.id \in DOMAIN seen /\ Kind(f.id) # "bytes"
    /\ source[f.id].depth = depth - 1 /\ source[f.id].depth < MaxMarshalDepth
    /\ f.at # 0 /\ built[f.id] = f.at
    /\ f.next \in 1..(Len(jsval[f.id]) + 1)
    /\ f.key # NoKey <=> (Kind(f.id) \in Keyed /\ f.next % 2 = 0)
    /\ CopiesIn({f.key}) \subseteq DOMAIN heap

WalkStands ==
    /\ walk \in Seq(Activation)
    /\ phase # "decode" => walk = <<>>
    /\ \A k \in DOMAIN walk : Decodes(walk[k], k)
    /\ \A k \in DOMAIN walk : k + 1 \in DOMAIN walk =>
           Node(walk[k].id, walk[k].next, walk[k + 1].id)
    /\ \A k, l \in DOMAIN walk : k < l => walk[k].id < walk[l].id

(* The activation a node is read in has come to it, or is still there. *)
Passed(p, j) ==
    \A k \in DOMAIN walk : walk[k].id = p =>
        j < walk[k].next \/ (j = walk[k].next /\ k < Len(walk))

(* A container is built when its node is passed, and not before. *)
BuiltInOrder ==
    phase \in {"decode", "done"} =>
        \A p, j, c : Node(p, j, c) => (c \in Built <=> p \in Built /\ Passed(p, j))

(* Whatever is nested in what is being built comes before what is still to *)
(* be built.                                                               *)
PathPrecedes ==
    \A k, l \in DOMAIN walk : \A j, c :
        k < l /\ Node(walk[k].id, j, c) /\ walk[k].next < j => walk[l].id < c

DInv ==
    /\ EInv
    /\ HeapStands
    /\ TableStands
    /\ WalkStands
    /\ BuiltInOrder
    /\ PathPrecedes

-----------------------------------------------------------------------------
(* What a container is given *)

LEMMA CopyFacts ==
  ASSUME NEW x \in CopyValue
  PROVE  /\ x # NoKey
         /\ x[1] = "copy" => x[2] \in Object
         /\ \A h : Stored(h, x) \in CopyValue
         /\ \A h : Stored(h, x)[1] = "copy" => Stored(h, x) = x
<1>1. \/ x \in LeafValue \cup {Text, Nil}
      \/ x[1] \in {"copy", "dup"} /\ x[2] \in Object
  BY DEF CopyValue
<1>2. x[1] = "copy" => x[2] \in Object
  BY <1>1 DEF LeafValue, Text, Nil
<1>3. x # NoKey
  BY <1>1 DEF LeafValue, Text, Nil, NoKey
<1>4. x[1] = "copy" => <<"dup", x[2]>> \in CopyValue
  BY <1>2 DEF CopyValue
<1>5. \A h : Stored(h, x) \in CopyValue
  BY <1>4 DEF Stored
<1>6. \A h : Stored(h, x)[1] = "copy" => Stored(h, x) = x
  BY DEF Stored
<1> QED
  BY <1>2, <1>3, <1>5, <1>6

LEMMA CopiesOf ==
  ASSUME NEW V, NEW a
  PROVE  a \in CopiesIn(V) <=> \E x \in V : x[1] = "copy" /\ a = x[2]
BY DEF CopiesIn

(* The copies among the contents of a container, however it is keyed. *)
LEMMA HeldBy ==
  ASSUME NEW copy, NEW a
  PROVE  /\ copy.kind \notin Keyed =>
              (a \in Held(copy) <=>
                 \E i \in DOMAIN copy.kids : copy.kids[i][1] = "copy" /\ a = copy.kids[i][2])
         /\ copy.kind \in Keyed =>
              (a \in Held(copy) <=>
                 \E i \in DOMAIN copy.kids : \E x \in {copy.kids[i][1], copy.kids[i][2]} :
                     x[1] = "copy" /\ a = x[2])
<1>1. CASE copy.kind \notin Keyed
  <2>1. Held(copy) = CopiesIn({copy.kids[i] : i \in DOMAIN copy.kids})
    BY <1>1 DEF Held, ValuesIn
  <2> QED
    BY <1>1, <2>1, CopiesOf
<1>2. CASE copy.kind \in Keyed
  <2>1. Held(copy) = CopiesIn({copy.kids[i][1] : i \in DOMAIN copy.kids}
                                \cup {copy.kids[i][2] : i \in DOMAIN copy.kids})
    BY <1>2 DEF Held, ValuesIn
  <2>2. a \in Held(copy) <=>
          \E x \in {copy.kids[i][1] : i \in DOMAIN copy.kids}
                     \cup {copy.kids[i][2] : i \in DOMAIN copy.kids} : x[1] = "copy" /\ a = x[2]
    BY <2>1, CopiesOf
  <2> QED
    BY <1>2, <2>2
<1> QED
  BY <1>1, <1>2

(* f is an activation that may be given x, its container being in h. *)
MayTake(h, f, x) ==
    /\ f.at \in DOMAIN h /\ h[f.at].kind \in {"array", "set"} \cup Keyed
    /\ h[f.at].kind \in Keyed => h[f.at].kids \in Seq(Pair)
    /\ h[f.at].kind \notin Keyed => h[f.at].kids \in Seq(CopyValue)
    /\ x \in CopyValue /\ f.key \in CopyValue \cup {NoKey}

(* After it: the same kind of contents, and no copy that was not there. *)
LEMMA AddedToArray ==
  ASSUME NEW h, NEW f, NEW x, MayTake(h, f, x), h[f.at].kind = "array"
  PROVE  Added(h, f, x) = Append(h[f.at].kids, x)
<1>1. h[f.at].kind # "set" /\ h[f.at].kind \notin Keyed
  BY DEF Keyed
<1> QED
  BY <1>1 DEF Added, Push

LEMMA AddedToSet ==
  ASSUME NEW h, NEW f, NEW x, MayTake(h, f, x), h[f.at].kind = "set"
  PROVE  \/ Added(h, f, x) = h[f.at].kids
               /\ \E i \in DOMAIN h[f.at].kids : Same(h, h[f.at].kids[i], x)
         \/ Added(h, f, x) = Append(h[f.at].kids, Stored(h, x))
<1>1. h[f.at].kind # "array" /\ h[f.at].kind \notin Keyed
  BY DEF Keyed
<1>2. Added(h, f, x) = IF \E i \in DOMAIN h[f.at].kids : Same(h, h[f.at].kids[i], x)
                       THEN h[f.at].kids ELSE Append(h[f.at].kids, Stored(h, x))
  BY <1>1 DEF Added
<1> QED
  BY <1>2

LEMMA AddedToKeyed ==
  ASSUME NEW h, NEW f, NEW x, MayTake(h, f, x), h[f.at].kind \in Keyed
  PROVE  LET kids == h[f.at].kids
         IN  \/ f.key = NoKey /\ Added(h, f, x) = kids
             \/ /\ f.key # NoKey /\ \E i \in DOMAIN kids : Same(h, kids[i][1], f.key)
                /\ DOMAIN Added(h, f, x) = DOMAIN kids
                /\ Added(h, f, x) = [i \in DOMAIN kids |-> Added(h, f, x)[i]]
                /\ \A i \in DOMAIN kids :
                     \/ Added(h, f, x)[i] = <<kids[i][1], x>> /\ Same(h, kids[i][1], f.key)
                     \/ Added(h, f, x)[i] = kids[i] /\ ~Same(h, kids[i][1], f.key)
             \/ /\ f.key # NoKey /\ \A i \in DOMAIN kids : ~Same(h, kids[i][1], f.key)
                /\ Added(h, f, x) = Append(kids, <<Stored(h, f.key), x>>)
<1>1. h[f.at].kind # "array" /\ h[f.at].kind # "set"
  BY DEF Keyed
<1> DEFINE kids == h[f.at].kids
           r == [i \in DOMAIN kids |->
                   IF Same(h, kids[i][1], f.key) THEN <<kids[i][1], x>> ELSE kids[i]]
<1>2. Added(h, f, x) = IF f.key = NoKey THEN kids
                       ELSE IF \E i \in DOMAIN kids : Same(h, kids[i][1], f.key) THEN r
                       ELSE Append(kids, <<Stored(h, f.key), x>>)
  BY <1>1 DEF Added
<1>3. /\ DOMAIN r = DOMAIN kids /\ r = [i \in DOMAIN kids |-> r[i]]
      /\ \A i \in DOMAIN kids :
           \/ r[i] = <<kids[i][1], x>> /\ Same(h, kids[i][1], f.key)
           \/ r[i] = kids[i] /\ ~Same(h, kids[i][1], f.key)
  OBVIOUS
<1> HIDE DEF r
<1> QED
  BY <1>2, <1>3

LEMMA AddedIsTyped ==
  ASSUME NEW h, NEW f, NEW x, MayTake(h, f, x)
  PROVE  /\ h[f.at].kind \in Keyed => Added(h, f, x) \in Seq(Pair)
         /\ h[f.at].kind \notin Keyed => Added(h, f, x) \in Seq(CopyValue)
<1>1. CASE h[f.at].kind = "array"
  <2>1. h[f.at].kids \in Seq(CopyValue) /\ x \in CopyValue /\ h[f.at].kind \notin Keyed
    BY <1>1 DEF MayTake, Keyed
  <2> QED
    BY <1>1, <2>1, AddedToArray
<1>2. CASE h[f.at].kind = "set"
  <2>1. /\ h[f.at].kids \in Seq(CopyValue) /\ Stored(h, x) \in CopyValue
        /\ h[f.at].kind \notin Keyed
    BY <1>2, CopyFacts DEF MayTake, Keyed
  <2> QED
    BY <1>2, <2>1, AddedToSet
<1>3. CASE h[f.at].kind \in Keyed
  <2> DEFINE kids == h[f.at].kids
             r == Added(h, f, x)
  <2>1. kids \in Seq(Pair) /\ x \in CopyValue /\ f.key \in CopyValue \cup {NoKey}
    BY <1>3 DEF MayTake
  <2>2. Len(kids) \in Nat /\ DOMAIN kids = 1..Len(kids)
        /\ \A i \in DOMAIN kids : kids[i] \in Pair
    BY <2>1
  <2>3. \/ r = kids
        \/ /\ DOMAIN r = DOMAIN kids /\ r = [i \in DOMAIN kids |-> r[i]]
           /\ \A i \in DOMAIN kids : r[i] \in {<<kids[i][1], x>>, kids[i]}
        \/ f.key # NoKey /\ r = Append(kids, <<Stored(h, f.key), x>>)
    BY <1>3, AddedToKeyed
  <2> HIDE DEF r, kids
  <2>4. CASE r = kids
    BY <2>1, <2>4, <1>3 DEF r
  <2>5. CASE /\ DOMAIN r = DOMAIN kids /\ r = [i \in DOMAIN kids |-> r[i]]
             /\ \A i \in DOMAIN kids : r[i] \in {<<kids[i][1], x>>, kids[i]}
    <3>1. \A i \in DOMAIN kids : r[i] \in Pair
      BY <2>1, <2>2, <2>5 DEF Pair
    <3>2. r \in [1..Len(kids) -> Pair]
      BY <2>2, <2>5, <3>1
    <3>3. r \in Seq(Pair)
      BY <2>2, <3>2, Numbered
    <3> QED
      BY <3>3, <1>3 DEF r
  <2>6. CASE f.key # NoKey /\ r = Append(kids, <<Stored(h, f.key), x>>)
    <3>1. <<Stored(h, f.key), x>> \in Pair
      BY <2>1, <2>6, CopyFacts DEF Pair
    <3>2. r \in Seq(Pair)
      BY <2>1, <2>6, <3>1, AppendProperties
    <3> QED
      BY <3>2, <1>3 DEF r
  <2> QED
    BY <2>3, <2>4, <2>5, <2>6
<1> QED
  BY <1>1, <1>2, <1>3 DEF MayTake

(* c is the container of f, once it is given x. *)
Filled(c, h, f, x) == c.kind = h[f.at].kind /\ c.kids = Added(h, f, x)

LEMMA AddedIsThere ==
  ASSUME NEW h, NEW f, NEW x, MayTake(h, f, x), NEW c, Filled(c, h, f, x)
  PROVE  Held(c) \subseteq Held(h[f.at]) \cup CopiesIn({x, f.key})
<1> SUFFICES ASSUME NEW a \in Held(c)
             PROVE  a \in Held(h[f.at]) \/ \E y \in {x, f.key} : y[1] = "copy" /\ a = y[2]
  BY CopiesOf
<1>0. c.kind = h[f.at].kind /\ c.kids = Added(h, f, x)
  BY DEF Filled
<1>1. CASE h[f.at].kind = "array" \/ h[f.at].kind = "set"
  <2>1. /\ h[f.at].kids \in Seq(CopyValue) /\ c.kind \notin Keyed /\ h[f.at].kind \notin Keyed
        /\ x \in CopyValue
    BY <1>0, <1>1 DEF MayTake, Keyed
  <2>2. PICK i \in DOMAIN c.kids : c.kids[i][1] = "copy" /\ a = c.kids[i][2]
    BY <2>1, HeldBy
  <2>3. \/ c.kids = h[f.at].kids
        \/ c.kids = Append(h[f.at].kids, x)
        \/ c.kids = Append(h[f.at].kids, Stored(h, x))
    BY <1>0, <1>1, AddedToArray, AddedToSet
  <2>4. \/ i \in DOMAIN h[f.at].kids /\ c.kids[i] = h[f.at].kids[i]
        \/ c.kids[i] \in {x, Stored(h, x)}
    <3>1. Stored(h, x) \in CopyValue
      BY <2>1, CopyFacts
    <3>2. ASSUME NEW y \in CopyValue, c.kids = Append(h[f.at].kids, y)
          PROVE  (i \in DOMAIN h[f.at].kids /\ c.kids[i] = h[f.at].kids[i]) \/ c.kids[i] = y
      BY <2>1, <3>2, Appended
    <3> QED
      BY <2>1, <2>3, <3>1, <3>2
  <2>5. CASE i \in DOMAIN h[f.at].kids /\ c.kids[i] = h[f.at].kids[i]
    BY <2>1, <2>2, <2>5, HeldBy
  <2>6. CASE c.kids[i] \in {x, Stored(h, x)}
    <3>1. c.kids[i] = x
      BY <2>1, <2>2, <2>6, CopyFacts
    <3> QED
      BY <2>2, <3>1
  <2> QED
    BY <2>4, <2>5, <2>6
<1>2. CASE h[f.at].kind \in Keyed
  <2> DEFINE kids == h[f.at].kids
             r == Added(h, f, x)
  <2>1. kids \in Seq(Pair) /\ x \in CopyValue /\ f.key \in CopyValue \cup {NoKey} /\ r = c.kids
    BY <1>0, <1>2 DEF MayTake
  <2>2. PICK i \in DOMAIN r : \E y \in {r[i][1], r[i][2]} : y[1] = "copy" /\ a = y[2]
    BY <1>0, <1>2, HeldBy
  <2> PICK z \in {r[i][1], r[i][2]} : z[1] = "copy" /\ a = z[2]
    BY <2>2
  <2>3. \/ r = kids
        \/ /\ DOMAIN r = DOMAIN kids
           /\ \A j \in DOMAIN kids : r[j] \in {<<kids[j][1], x>>, kids[j]}
        \/ f.key # NoKey /\ r = Append(kids, <<Stored(h, f.key), x>>)
    BY <1>2, AddedToKeyed
  <2> HIDE DEF r, kids
  <2>4. \/ i \in DOMAIN kids /\ r[i] \in {<<kids[i][1], x>>, kids[i]}
        \/ f.key # NoKey /\ r[i] = <<Stored(h, f.key), x>>
    <3>1. CASE f.key # NoKey /\ r = Append(kids, <<Stored(h, f.key), x>>)
      <4>1. <<Stored(h, f.key), x>> \in Pair
        BY <2>1, <3>1, CopyFacts DEF Pair
      <4>2. \/ i \in DOMAIN kids /\ r[i] = kids[i]
            \/ r[i] = <<Stored(h, f.key), x>>
        BY <2>1, <3>1, <4>1, Appended
      <4> QED
        BY <3>1, <4>2
    <3> QED
      BY <2>3, <3>1
  <2>5. \/ i \in DOMAIN kids /\ z \in {kids[i][1], kids[i][2]}
        \/ z = x
        \/ f.key # NoKey /\ z = Stored(h, f.key)
    BY <2>2, <2>4
  <2>6. CASE i \in DOMAIN kids /\ z \in {kids[i][1], kids[i][2]}
    BY <1>2, <2>2, <2>6, HeldBy DEF kids
  <2>7. CASE z = x
    BY <2>2, <2>7
  <2>8. CASE f.key # NoKey /\ z = Stored(h, f.key)
    <3>1. z = f.key
      BY <2>1, <2>2, <2>8, CopyFacts
    <3> QED
      BY <2>2, <3>1
  <2> QED
    BY <2>5, <2>6, <2>7, <2>8
<1> QED
  BY <1>1, <1>2 DEF MayTake

(* An array holds what it held, and what it is given. *)
LEMMA ArrayHolds ==
  ASSUME NEW h, NEW f, NEW x, MayTake(h, f, x), h[f.at].kind = "array",
         NEW c, Filled(c, h, f, x)
  PROVE  Held(h[f.at]) \subseteq Held(c) /\ CopiesIn({x}) \subseteq Held(c)
<1>1. /\ c.kind \notin Keyed /\ h[f.at].kind \notin Keyed
      /\ h[f.at].kids \in Seq(CopyValue) /\ x \in CopyValue
      /\ c.kids = Append(h[f.at].kids, x)
  BY AddedToArray DEF Filled, MayTake, Keyed
<1>2. /\ \A i \in DOMAIN h[f.at].kids : i \in DOMAIN c.kids /\ c.kids[i] = h[f.at].kids[i]
      /\ \E i \in DOMAIN c.kids : c.kids[i] = x
  <2>1. /\ Append(h[f.at].kids, x) = c.kids /\ Len(c.kids) = Len(h[f.at].kids) + 1
        /\ DOMAIN c.kids = DOMAIN h[f.at].kids \cup {Len(h[f.at].kids) + 1}
        /\ \A i \in DOMAIN h[f.at].kids : c.kids[i] = h[f.at].kids[i]
        /\ c.kids[Len(h[f.at].kids) + 1] = x
    BY <1>1, Appended
  <2> QED
    BY <2>1
<1>3. Held(h[f.at]) \subseteq Held(c)
  <2>1. ASSUME NEW a \in Held(h[f.at]) PROVE a \in Held(c)
    <3>1. PICK i \in DOMAIN h[f.at].kids :
             h[f.at].kids[i][1] = "copy" /\ a = h[f.at].kids[i][2]
      BY <1>1, <2>1, HeldBy
    <3>2. i \in DOMAIN c.kids /\ c.kids[i][1] = "copy" /\ a = c.kids[i][2]
      BY <1>2, <3>1
    <3> QED
      BY <1>1, <3>2, HeldBy
  <2> QED
    BY <2>1
<1>4. CopiesIn({x}) \subseteq Held(c)
  <2>1. ASSUME NEW a \in CopiesIn({x}) PROVE a \in Held(c)
    <3>1. x[1] = "copy" /\ a = x[2]
      BY <2>1, CopiesOf
    <3>2. PICK i \in DOMAIN c.kids : c.kids[i] = x
      BY <1>2
    <3>3. c.kids[i][1] = "copy" /\ a = c.kids[i][2]
      BY <3>1, <3>2
    <3> QED
      BY <1>1, <3>3, HeldBy
  <2> QED
    BY <2>1
<1> QED
  BY <1>3, <1>4

-----------------------------------------------------------------------------
(* A value goes in *)

(* The copies there are: those of the heap, and perhaps one more. *)
Extends(copies) ==
    /\ heap \in Seq(Copy) /\ copies \in Seq(Copy)
    /\ DOMAIN heap \subseteq DOMAIN copies
    /\ \A a \in DOMAIN heap : copies[a] = heap[a]

(* f was the m-th activation from below, and it has been given x. *)
GraftDoes(m, f, x, copies) ==
    /\ heap' \in Seq(Copy) /\ Len(heap') = Len(copies) /\ DOMAIN heap' = DOMAIN copies
    /\ \A a \in DOMAIN copies : a # f.at => heap'[a] = copies[a]
    /\ Filled(heap'[f.at], copies, f, x) /\ KidsStand(heap'[f.at], Len(copies))
    /\ walk' \in Seq(Activation) /\ DOMAIN walk' = 1..m /\ Len(walk') = m
    /\ walk'[m].id = f.id /\ walk'[m].at = f.at /\ walk'[m].next = f.next + 1
    /\ heap[f.at].kind \in Keyed /\ f.key = NoKey => walk'[m].key = x
    /\ ~(heap[f.at].kind \in Keyed /\ f.key = NoKey) => walk'[m].key = NoKey
    /\ heap[f.at].kind = "array" => swallowed' = swallowed
    /\ heap[f.at].kind # "array" =>
         swallowed' = swallowed \cup ((Held(heap[f.at]) \cup CopiesIn({x, f.key}))
                                        \ (Held(heap'[f.at]) \cup CopiesIn({walk'[m].key})))
    /\ swallowed' \subseteq DOMAIN heap'

LEMMA GraftWorks ==
  ASSUME NEW below \in Seq(Activation), NEW f \in Activation, NEW x, NEW copies,
         Extends(copies), f.at \in DOMAIN heap, MayTake(copies, f, x),
         KidsStand(copies[f.at], Len(copies)),
         CopiesIn({x, f.key}) \subseteq DOMAIN copies, swallowed \subseteq DOMAIN heap,
         Graft(below, f, x, copies)
  PROVE  /\ GraftDoes(Len(below) + 1, f, x, copies)
         /\ \A k \in DOMAIN below : walk'[k] = below[k]
<1> DEFINE copy == [copies[f.at] EXCEPT !.kids = Added(copies, f, x)]
           frame == Advanced(f, x)
<1>1. /\ heap' = [copies EXCEPT ![f.at] = copy]
      /\ walk' = Append(below, frame)
      /\ swallowed' =
            IF copy.kind = "array" THEN swallowed
            ELSE swallowed \cup ((Held(heap[f.at]) \cup CopiesIn({x, f.key}))
                                   \ (Held(copy) \cup CopiesIn({frame.key})))
  BY DEF Graft
<1>2. /\ copies \in Seq(Copy) /\ DOMAIN copies = 1..Len(copies) /\ Len(copies) \in Nat
      /\ f.at \in DOMAIN copies /\ copies[f.at] = heap[f.at] /\ copies[f.at] \in Copy
  BY DEF Extends
<1>3. copy \in Copy /\ Filled(copy, copies, f, x)
  <2>1. Added(copies, f, x) \in Seq(CopyValue) \cup Seq(Pair)
    BY AddedIsTyped
  <2> DEFINE added == Added(copies, f, x)
  <2> HIDE DEF added
  <2>2. [copies[f.at] EXCEPT !.kids = added] \in Copy
    BY <1>2, <2>1 DEF Copy, Pair, added
  <2>3. /\ [copies[f.at] EXCEPT !.kids = added].kids = added
        /\ [copies[f.at] EXCEPT !.kids = added].kind = copies[f.at].kind
    BY <1>2 DEF Copy
  <2> QED
    BY <2>2, <2>3 DEF added, Filled
<1>4. /\ frame \in Activation
      /\ frame.id = f.id /\ frame.at = f.at /\ frame.next = f.next + 1
      /\ heap[f.at].kind \in Keyed /\ f.key = NoKey => frame.key = x
      /\ ~(heap[f.at].kind \in Keyed /\ f.key = NoKey) => frame.key = NoKey
  <2> DEFINE key == IF heap[f.at].kind \in Keyed /\ f.key = NoKey THEN x ELSE NoKey
  <2>1. /\ key \in CopyValue \cup {NoKey}
        /\ heap[f.at].kind \in Keyed /\ f.key = NoKey => key = x
        /\ ~(heap[f.at].kind \in Keyed /\ f.key = NoKey) => key = NoKey
    BY DEF MayTake
  <2>2. frame = [f EXCEPT !.next = @ + 1, !.key = key]
    BY Zenon DEF Advanced
  <2> HIDE DEF key, frame
  <2>3. /\ frame \in Activation /\ frame.id = f.id /\ frame.at = f.at
        /\ frame.next = f.next + 1 /\ frame.key = key
    <3>1. f \in [id : Id, at : Object, next : Nat, key : CopyValue \cup {NoKey}]
      BY DEF Activation
    <3>2. frame = [id |-> f.id, at |-> f.at, next |-> f.next + 1, key |-> key]
      BY <2>2, <3>1
    <3>3. f.id \in Id /\ f.at \in Object /\ f.next + 1 \in Nat
      BY <3>1
    <3> QED
      BY <2>1, <3>2, <3>3 DEF Activation
  <2> QED
    BY <2>1, <2>3
<1> HIDE DEF copy, frame
<1>5. /\ heap' \in Seq(Copy) /\ Len(heap') = Len(copies) /\ DOMAIN heap' = DOMAIN copies
      /\ heap'[f.at] = copy
      /\ \A a \in DOMAIN copies : a # f.at => heap'[a] = copies[a]
  BY <1>1, <1>2, <1>3
<1>6. KidsStand(copy, Len(copies))
  <2>1. Held(copy) \subseteq Held(copies[f.at]) \cup CopiesIn({x, f.key})
    BY <1>3, AddedIsThere
  <2>2. Held(copies[f.at]) \subseteq DOMAIN copies
    BY <1>2 DEF KidsStand
  <2> QED
    BY <1>2, <1>3, <2>1, <2>2, AddedIsTyped DEF KidsStand, Filled
<1>7. /\ walk' \in Seq(Activation) /\ DOMAIN walk' = 1..(Len(below) + 1)
      /\ Len(walk') = Len(below) + 1
      /\ walk'[Len(below) + 1] = frame /\ \A k \in DOMAIN below : walk'[k] = below[k]
  BY <1>1, <1>4
<1>8. swallowed' \subseteq DOMAIN heap'
  <2>1. Held(heap[f.at]) \subseteq DOMAIN copies
    BY <1>2 DEF KidsStand
  <2>2. swallowed \subseteq DOMAIN copies
    BY DEF Extends
  <2> QED
    BY <1>1, <1>5, <2>1, <2>2
<1>9. copy.kind = heap[f.at].kind
  BY <1>2, <1>3 DEF Filled
<1> QED
  BY <1>1, <1>3, <1>4, <1>5, <1>6, <1>7, <1>8, <1>9 DEF GraftDoes

-----------------------------------------------------------------------------
(* A copy is allocated and registered *)

LEMMA CopyAllocated ==
  ASSUME EncoderTyped, HeapStands, NEW id \in DOMAIN seen, NEW copies, copies = WithCopy(id)
  PROVE  /\ Extends(copies) /\ Len(heap) \in Nat /\ DOMAIN heap = 1..Len(heap)
         /\ Len(copies) = Len(heap) + 1
         /\ DOMAIN copies = DOMAIN heap \cup {Len(heap) + 1} /\ Len(heap) + 1 \notin DOMAIN heap
         /\ copies[Len(heap) + 1].kind = Kind(id) /\ copies[Len(heap) + 1].kids = <<>>
         /\ Held(copies[Len(heap) + 1]) = {}
         /\ \A a \in DOMAIN copies : KidsStand(copies[a], Len(copies))
<1> DEFINE fresh == [kind |-> Kind(id), kids |-> <<>>]
<1>1. fresh \in Copy
  <2>1. Kind(id) \in KindsOf("ruby")
    <3>1. seen[id] \in Object
      BY DEF EncoderTyped
    <3>2. kindOf[seen[id]] \in KindsOf(to) /\ to \in {"ruby", "js"}
      BY <3>1 DEF EncoderTyped
    <3> QED
      BY <3>2 DEF Kind, KindsOf
  <2>2. <<>> \in Seq(CopyValue)
    OBVIOUS
  <2> QED
    BY <2>1, <2>2 DEF Copy
<1>2. copies = Append(heap, fresh)
  BY DEF WithCopy, Kind
<1>3. Held(fresh) = {} /\ fresh.kids = <<>> /\ fresh.kind = Kind(id)
  <2>1. fresh.kids = <<>> /\ fresh.kind = Kind(id) /\ DOMAIN fresh.kids = {}
    OBVIOUS
  <2>2. \A a : a \notin Held(fresh)
    BY <2>1, HeldBy
  <2> QED
    BY <2>1, <2>2
<1> HIDE DEF fresh
<1>4. /\ copies \in Seq(Copy) /\ Len(heap) \in Nat /\ Len(copies) = Len(heap) + 1
      /\ DOMAIN heap = 1..Len(heap)
      /\ DOMAIN copies = DOMAIN heap \cup {Len(heap) + 1} /\ Len(heap) + 1 \notin DOMAIN heap
      /\ \A a \in DOMAIN heap : copies[a] = heap[a]
      /\ copies[Len(heap) + 1] = fresh
  BY <1>1, <1>2, Appended DEF HeapStands
<1>5. \A a \in DOMAIN copies : KidsStand(copies[a], Len(copies))
  <2>1. ASSUME NEW a \in DOMAIN heap PROVE KidsStand(copies[a], Len(copies))
    <3>1. KidsStand(heap[a], Len(heap)) /\ copies[a] = heap[a]
      BY <1>4, <2>1 DEF HeapStands
    <3>2. 1..Len(heap) \subseteq 1..Len(copies)
      BY <1>4
    <3> QED
      BY <3>1, <3>2 DEF KidsStand
  <2>2. KidsStand(fresh, Len(copies))
    BY <1>3 DEF KidsStand
  <2> QED
    BY <1>4, <2>1, <2>2
<1> QED
  BY <1>3, <1>4, <1>5 DEF Extends, HeapStands

LEMMA BuiltFacts ==
  ASSUME TableStands
  PROVE  /\ IsFiniteSet(Built) /\ Cardinality(Built) = Len(heap) /\ Built \subseteq Id
         /\ \A id \in Built : built[id] \in 1..Len(heap) /\ built[id] # 0
         /\ \A id \in Id : id \notin Built => built[id] = 0
<1>1. IsFiniteSet(Id) /\ Built \in SUBSET Id
  BY FS_Interval, MarshalAssumption DEF Id, Built
<1>2. IsFiniteSet(Built)
  BY <1>1, FS_Subset
<1> QED
  BY <1>1, <1>2, FS_CardinalityType DEF TableStands, Built

LEMMA TableGrows ==
  ASSUME EncoderTyped, TableStands, NEW id \in DOMAIN seen, id \notin Built,
         Kind(id) # "refusing", Register(id), UNCHANGED <<seen, kindOf>>,
         phase' # "encode", Root \in Built \cup {id},
         Len(heap') = Len(heap) + 1, heap'[Len(heap) + 1].kind = Kind(id),
         \A a \in 1..Len(heap) : heap'[a].kind = heap[a].kind
  PROVE  /\ TableStands' /\ Built' = Built \cup {id} /\ built'[id] = Len(heap) + 1
         /\ \A c \in Built : built'[c] = built[c]
         /\ \A c \in Id : c # id => built'[c] = built[c]
         /\ Len(heap) + 1 \in Object
<1>1. id \in Id /\ \A k : Kind(k)' = Kind(k)
  BY SeenFacts DEF Kind
<1>2. /\ IsFiniteSet(Built) /\ Cardinality(Built) = Len(heap) /\ Len(heap) \in Nat
      /\ \A c \in Built : built[c] \in 1..Len(heap)
  BY BuiltFacts, FS_CardinalityType
<1>3. /\ built' \in [Id -> 0..(Len(heap) + 1)] /\ built'[id] = Len(heap) + 1
      /\ \A c \in Id : c # id => built'[c] = built[c]
  BY <1>1, <1>2 DEF Register, TableStands
<1>4. Built' = Built \cup {id}
  BY <1>1, <1>2, <1>3 DEF Built
<1>5. Cardinality(Built') = Len(heap) + 1
  BY <1>2, <1>4, FS_AddElement
<1>6. \A i, j \in Built' : built'[i] = built'[j] => i = j
  BY <1>1, <1>2, <1>3, <1>4 DEF TableStands, Built
<1>7. ASSUME NEW c \in Built'
      PROVE  /\ c \in DOMAIN seen' /\ Kind(c)' # "refusing"
             /\ heap'[built'[c]].kind = Kind(c)'
  <2>1. CASE c = id
    BY <1>1, <1>3, <2>1
  <2>2. CASE c \in Built /\ c # id
    <3>1. c \in Id /\ built'[c] = built[c] /\ built[c] \in 1..Len(heap)
      BY <1>2, <1>3, <2>2 DEF Built
    <3> QED
      BY <1>1, <2>2, <3>1 DEF TableStands
  <2> QED
    BY <1>4, <1>7, <2>1, <2>2
<1>8. TableStands'
  BY <1>3, <1>4, <1>5, <1>6, <1>7 DEF TableStands
<1>9. Len(heap) + 1 <= MaxObjects
  <2>1. IsFiniteSet(Id) /\ Cardinality(Id) = MaxObjects
    BY CountTo, MarshalAssumption DEF Id
  <2>2. Built' \in SUBSET Id
    BY DEF Built
  <2> QED
    BY <1>5, <2>1, <2>2, FS_Subset
<1> QED
  BY <1>2, <1>3, <1>4, <1>8, <1>9, MarshalAssumption DEF Object, Built

LEMMA TableKept ==
  ASSUME TableStands, UNCHANGED <<seen, kindOf, built>>, phase # "encode", phase' # "encode",
         phase = "decode", Len(heap') = Len(heap),
         \A a \in 1..Len(heap) : heap'[a].kind = heap[a].kind
  PROVE  TableStands'
<1>1. /\ Built' = Built /\ \A k : Kind(k)' = Kind(k)
  BY DEF Built, Kind
<1>2. \A id \in Built : built[id] \in 1..Len(heap)
  BY BuiltFacts
<1> QED
  BY <1>1, <1>2 DEF TableStands

-----------------------------------------------------------------------------
(* The decoder's activations *)

LEMMA WalkFacts ==
  ASSUME EncoderTyped, WalkStands
  PROVE  /\ Len(walk) \in Nat /\ DOMAIN walk = 1..Len(walk) /\ Len(walk) <= MaxMarshalDepth
         /\ \A k \in DOMAIN walk :
              /\ walk[k] \in Activation /\ walk[k].id \in DOMAIN seen /\ walk[k].id \in Nat
              /\ walk[k].next \in Nat /\ jsval[walk[k].id] \in Seq(Item)
         /\ \A k, l \in DOMAIN walk : walk[k].id = walk[l].id => k = l
<1>1. Len(walk) \in Nat /\ DOMAIN walk = 1..Len(walk) /\ \A k \in DOMAIN walk : walk[k] \in Activation
  BY DEF WalkStands
<1>2. ASSUME NEW k \in DOMAIN walk
      PROVE  /\ walk[k].id \in DOMAIN seen /\ walk[k].id \in Nat /\ walk[k].next \in Nat
             /\ jsval[walk[k].id] \in Seq(Item)
             /\ source[walk[k].id].depth = k - 1 /\ source[walk[k].id].depth < MaxMarshalDepth
  <2>1. walk[k].id \in Id /\ walk[k].next \in Nat
    BY <1>1 DEF Activation
  <2>2. /\ walk[k].id \in DOMAIN seen
        /\ source[walk[k].id].depth = k - 1 /\ source[walk[k].id].depth < MaxMarshalDepth
    BY DEF WalkStands, Decodes
  <2>3. jsval[walk[k].id] \in Seq(Item)
    BY <2>2 DEF EncoderTyped
  <2> QED
    BY <2>1, <2>2, <2>3 DEF Id
<1>3. Len(walk) <= MaxMarshalDepth
  <2>1. CASE Len(walk) = 0
    BY <2>1, MarshalAssumption
  <2>2. CASE Len(walk) # 0
    <3>1. Len(walk) \in DOMAIN walk
      BY <1>1, <2>2
    <3>2. Len(walk) - 1 < MaxMarshalDepth
      BY <1>2, <3>1
    <3> QED
      BY <1>1, <3>2, MarshalAssumption
  <2> QED
    BY <2>1, <2>2
<1>4. \A k, l \in DOMAIN walk : walk[k].id = walk[l].id => k = l
  <2>1. \A k, l \in DOMAIN walk : k < l => walk[k].id < walk[l].id
    BY DEF WalkStands
  <2> QED
    BY <1>1, <1>2, <2>1
<1> QED
  BY <1>1, <1>2, <1>3, <1>4

(* What Frame is, when there is one. *)
LEMMA TopFacts ==
  ASSUME EncoderTyped, WalkStands, walk # <<>>
  PROVE  /\ Len(walk) \in DOMAIN walk /\ Frame = walk[Len(walk)]
         /\ ~Finished => Frame.next \in DOMAIN jsval[Frame.id]
         /\ Finished => Frame.next = Len(jsval[Frame.id]) + 1
<1>1. Len(walk) \in DOMAIN walk /\ Frame = walk[Len(walk)]
  BY WalkFacts DEF Frame, Last
<1>2. /\ jsval[Frame.id] \in Seq(Item) /\ Frame.next \in 1..(Len(jsval[Frame.id]) + 1)
  BY <1>1, WalkFacts DEF WalkStands, Decodes
<1> QED
  BY <1>1, <1>2 DEF Finished

LEMMA ParityTurns ==
  ASSUME NEW n \in Nat
  PROVE  (n + 1) % 2 = 0 <=> n % 2 # 0
OBVIOUS

(* The m-th activation goes on to its next item, and is then the top one. *)
GoesOn(m, x) ==
    /\ m \in DOMAIN walk /\ walk[m].next <= Len(jsval[walk[m].id])
    /\ walk' \in Seq(Activation) /\ DOMAIN walk' = 1..m /\ Len(walk') = m
    /\ \A k \in 1..(m - 1) : walk'[k] = walk[k]
    /\ walk'[m].id = walk[m].id /\ walk'[m].at = walk[m].at
    /\ walk'[m].next = walk[m].next + 1
    /\ Kind(walk[m].id) \in Keyed /\ walk[m].key = NoKey => walk'[m].key = x
    /\ ~(Kind(walk[m].id) \in Keyed /\ walk[m].key = NoKey) => walk'[m].key = NoKey

LEMMA WalkGoesOn ==
  ASSUME EncoderTyped, WalkStands, UNCHANGED <<kindOf, seen, jsval, source>>, phase' = "decode",
         NEW m, NEW x \in CopyValue, GoesOn(m, x),
         DOMAIN heap \subseteq DOMAIN heap', CopiesIn({x}) \subseteq DOMAIN heap',
         \A k \in DOMAIN walk : built'[walk[k].id] = built[walk[k].id]
  PROVE  WalkStands'
<1>1. /\ \A k : Kind(k)' = Kind(k)
      /\ \A p, j, c : Node(p, j, c)' <=> Node(p, j, c)
  BY DEF Kind, Node
<1>2. /\ m \in Nat /\ DOMAIN walk' = 1..m /\ 1..m \subseteq DOMAIN walk
      /\ \A k \in 1..m : walk'[k].id = walk[k].id
      /\ \A k \in 1..m : k # m => walk'[k] = walk[k]
  <2>1. /\ m \in DOMAIN walk /\ DOMAIN walk' = 1..m /\ walk'[m].id = walk[m].id
        /\ \A k \in 1..(m - 1) : walk'[k] = walk[k]
    BY DEF GoesOn
  <2>2. m \in Nat /\ 1..m \subseteq DOMAIN walk
    BY <2>1, WalkFacts
  <2>3. \A k \in 1..m : k # m => k \in 1..(m - 1)
    BY <2>2
  <2>4. \A k \in 1..m : k # m => walk'[k] = walk[k]
    BY <2>1, <2>3
  <2> QED
    BY <2>1, <2>2, <2>4
<1>3. CopiesIn({NoKey}) = {}
  BY CopiesOf DEF NoKey
<1>4. ASSUME NEW k \in 1..m, NEW f, f = walk'[k]
      PROVE  Decodes(f, k)'
  <2>1. Decodes(walk[k], k)
    BY <1>2 DEF WalkStands
  <2>2. CASE k # m
    <3>1. f = walk[k]
      BY <1>2, <1>4, <2>2
    <3>2. f.id \in DOMAIN seen /\ built'[f.id] = built[f.id]
      BY <1>2, <2>1, <3>1 DEF Decodes
    <3> QED
      BY <1>1, <2>1, <3>1, <3>2 DEF Decodes, Keyed
  <2>3. CASE k = m
    <3> DEFINE g == walk[m]
    <3>1. /\ g.id \in DOMAIN seen /\ Kind(g.id) # "bytes"
          /\ source[g.id].depth = m - 1 /\ source[g.id].depth < MaxMarshalDepth
          /\ g.at # 0 /\ built[g.id] = g.at /\ g.next \in Nat /\ g.next >= 1
          /\ g.next <= Len(jsval[g.id]) /\ Len(jsval[g.id]) \in Nat
          /\ g.key # NoKey <=> (Kind(g.id) \in Keyed /\ g.next % 2 = 0)
      BY <1>2, <2>1, <2>3, WalkFacts DEF Decodes, GoesOn
    <3>2. /\ f.id = g.id /\ f.at = g.at /\ f.next = g.next + 1
          /\ Kind(g.id) \in Keyed /\ g.key = NoKey => f.key = x
          /\ ~(Kind(g.id) \in Keyed /\ g.key = NoKey) => f.key = NoKey
          /\ built'[g.id] = built[g.id]
      BY <1>2, <1>4, <2>3 DEF GoesOn
    <3> HIDE DEF g
    <3>3. f.next \in 1..(Len(jsval[f.id]) + 1)
      BY <3>1, <3>2
    <3>4. f.key # NoKey <=> (Kind(f.id) \in Keyed /\ f.next % 2 = 0)
      <4>1. (g.next + 1) % 2 = 0 <=> g.next % 2 # 0
        BY <3>1, ParityTurns
      <4>2. x # NoKey
        BY CopyFacts
      <4> QED
        BY <3>1, <3>2, <4>1, <4>2
    <3>5. CopiesIn({f.key}) \subseteq DOMAIN heap'
      BY <1>3, <3>2
    <3> QED
      BY <1>1, <2>3, <3>1, <3>2, <3>3, <3>4, <3>5 DEF Decodes, Keyed
  <2> QED
    BY <2>2, <2>3
<1>5. ASSUME NEW k \in 1..m, k + 1 \in 1..m
      PROVE  Node(walk[k].id, walk[k].next, walk[k + 1].id)'
  <2>1. /\ k \in DOMAIN walk /\ k + 1 \in DOMAIN walk /\ k # m
        /\ walk'[k] = walk[k] /\ walk'[k + 1].id = walk[k + 1].id
    BY <1>2, <1>5
  <2>2. Node(walk[k].id, walk[k].next, walk[k + 1].id)
    BY <2>1 DEF WalkStands
  <2> QED
    BY <2>1, <2>2 DEF Node
<1>6. \A k, l \in 1..m : k < l => walk'[k].id < walk'[l].id
  BY <1>2 DEF WalkStands
<1>7. walk' \in Seq(Activation)
  BY DEF GoesOn
<1>8. \A k \in DOMAIN walk' : Decodes(walk[k], k)'
  BY <1>2, <1>4
<1> QED
  BY <1>2, <1>5, <1>6, <1>7, <1>8 DEF WalkStands

(* A new activation, for the node the top one is at. *)
Deepens(c) ==
    /\ walk # <<>> /\ Node(Frame.id, Frame.next, c) /\ Kind(c) # "bytes"
    /\ walk' = Append(walk, NewFrame(c))

LEMMA DeepWalk ==
  ASSUME EncoderTyped, WalkStands, TreeIsTree, NEW c, Deepens(c), Len(heap) + 1 \in Object
  PROVE  /\ walk' \in Seq(Activation) /\ DOMAIN walk' = DOMAIN walk \cup {Len(walk) + 1}
         /\ Len(walk') = Len(walk) + 1 /\ Len(walk) + 1 \notin DOMAIN walk
         /\ \A k \in DOMAIN walk : walk'[k] = walk[k]
         /\ walk'[Len(walk) + 1] = NewFrame(c)
         /\ c \in DOMAIN seen /\ c \in Nat /\ \A k \in DOMAIN walk : walk[k].id < c
<1>1. /\ Len(walk) \in DOMAIN walk /\ Frame = walk[Len(walk)] /\ Len(walk) \in Nat
      /\ DOMAIN walk = 1..Len(walk)
      /\ \A k \in DOMAIN walk : walk[k].id \in Nat
  BY TopFacts, WalkFacts DEF Deepens
<1>2. c \in DOMAIN seen /\ Frame.id < c /\ c \in Id /\ c \in Nat
  BY SeenFacts DEF Deepens, TreeIsTree, Id
<1>3. ASSUME NEW k \in DOMAIN walk PROVE walk[k].id < c
  <2>1. k = Len(walk) \/ k < Len(walk)
    BY <1>1
  <2>2. k < Len(walk) => walk[k].id < Frame.id
    BY <1>1 DEF WalkStands
  <2> QED
    BY <1>1, <1>2, <2>1, <2>2
<1>4. NewFrame(c) \in Activation
  BY <1>2 DEF NewFrame, Activation
<1>5. walk \in Seq(Activation)
  BY DEF WalkStands
<1>6. /\ walk' \in Seq(Activation) /\ Len(walk') = Len(walk) + 1
      /\ DOMAIN walk' = DOMAIN walk \cup {Len(walk) + 1} /\ Len(walk) + 1 \notin DOMAIN walk
      /\ \A k \in DOMAIN walk : walk'[k] = walk[k]
      /\ walk'[Len(walk) + 1] = NewFrame(c)
  BY <1>4, <1>5, Appended DEF Deepens
<1> QED
  BY <1>2, <1>3, <1>6

LEMMA WalkDeepens ==
  ASSUME EncoderTyped, WalkStands, TreeIsTree, UNCHANGED <<kindOf, seen, jsval, source>>,
         phase' = "decode", NEW c, Deepens(c), Len(heap) + 1 \in Object,
         DOMAIN heap \subseteq DOMAIN heap', built'[c] = Len(heap) + 1,
         \A k \in DOMAIN walk : built'[walk[k].id] = built[walk[k].id]
  PROVE  WalkStands'
<1>1. /\ \A k : Kind(k)' = Kind(k)
      /\ \A p, j, d : Node(p, j, d)' <=> Node(p, j, d)
  BY DEF Kind, Node
<1>2. /\ walk' \in Seq(Activation) /\ DOMAIN walk' = DOMAIN walk \cup {Len(walk) + 1}
      /\ Len(walk) + 1 \notin DOMAIN walk
      /\ \A k \in DOMAIN walk : walk'[k] = walk[k]
      /\ walk'[Len(walk) + 1] = NewFrame(c)
      /\ c \in DOMAIN seen /\ c \in Nat /\ \A k \in DOMAIN walk : walk[k].id < c
  BY DeepWalk
<1>3. /\ Len(walk) \in DOMAIN walk /\ Frame = walk[Len(walk)] /\ Len(walk) \in Nat
      /\ DOMAIN walk = 1..Len(walk)
  BY TopFacts, WalkFacts DEF Deepens
<1>4. ASSUME NEW k \in DOMAIN walk, NEW f, f = walk[k]
      PROVE  Decodes(f, k)'
  <2>1. Decodes(f, k) /\ built'[f.id] = built[f.id]
    BY <1>4 DEF WalkStands
  <2> QED
    BY <1>1, <2>1 DEF Decodes, Keyed
<1>5. ASSUME NEW f, f = NewFrame(c), NEW n, n = Len(walk) + 1
      PROVE  Decodes(f, n)'
  <2>1. /\ f.id = c /\ f.at = Len(heap) + 1 /\ f.next = 1 /\ f.key = NoKey
    BY <1>5 DEF NewFrame
  <2>2. /\ source[c].depth = source[Frame.id].depth + 1 /\ source[c].depth < MaxMarshalDepth
        /\ Kind(c) # "bytes"
    BY DEF Deepens, TreeIsTree
  <2>3. source[Frame.id].depth = Len(walk) - 1
    BY <1>3 DEF WalkStands, Decodes
  <2>4. jsval[c] \in Seq(Item) /\ 1 \in 1..(Len(jsval[c]) + 1) /\ ~(1 % 2 = 0)
    BY <1>2 DEF EncoderTyped
  <2>5. CopiesIn({NoKey}) = {}
    BY CopiesOf DEF NoKey
  <2>6. Len(heap) + 1 # 0
    BY DEF Object
  <2>7. source[c].depth = n - 1
    BY <1>3, <1>5, <2>2, <2>3
  <2>8. /\ f.id \in DOMAIN seen' /\ Kind(f.id)' # "bytes"
        /\ source'[f.id].depth = n - 1 /\ source'[f.id].depth < MaxMarshalDepth
        /\ f.at # 0 /\ built'[f.id] = f.at
    BY <1>1, <1>2, <2>1, <2>2, <2>6, <2>7
  <2>9. /\ f.next \in 1..(Len(jsval'[f.id]) + 1)
        /\ f.key # NoKey <=> (Kind(f.id)' \in Keyed /\ f.next % 2 = 0)
        /\ CopiesIn({f.key}) \subseteq DOMAIN heap'
    BY <2>1, <2>4, <2>5
  <2> QED
    BY <2>8, <2>9 DEF Decodes, Keyed
<1>6. ASSUME NEW k \in DOMAIN walk', k + 1 \in DOMAIN walk', NEW f, NEW g,
             f = walk'[k], g = walk'[k + 1]
      PROVE  Node(f.id, f.next, g.id)'
  <2>1. k \in DOMAIN walk
    BY <1>2, <1>3, <1>6
  <2>2. CASE k + 1 \in DOMAIN walk
    <3>1. f = walk[k] /\ g = walk[k + 1]
      BY <1>2, <1>6, <2>1, <2>2
    <3> QED
      BY <1>1, <2>1, <2>2, <3>1 DEF WalkStands
  <2>3. CASE k + 1 \notin DOMAIN walk
    <3>1. k = Len(walk)
      BY <1>3, <2>1, <2>3
    <3>2. f = Frame /\ g = NewFrame(c)
      BY <1>2, <1>3, <1>6, <2>1, <3>1
    <3>3. g.id = c
      BY <3>2 DEF NewFrame
    <3> QED
      BY <1>1, <3>2, <3>3 DEF Deepens
  <2> QED
    BY <2>2, <2>3
<1>7. \A k, l \in DOMAIN walk' : k < l => walk'[k].id < walk'[l].id
  <2>1. \A k, l \in DOMAIN walk : k < l => walk[k].id < walk[l].id
    BY DEF WalkStands
  <2>2. NewFrame(c).id = c
    BY DEF NewFrame
  <2> QED
    BY <1>2, <1>3, <2>1, <2>2
<1>8. \A k \in DOMAIN walk' : Decodes(walk[k], k)'
  <2>1. ASSUME NEW k \in DOMAIN walk', NEW f, f = walk'[k]
        PROVE  Decodes(f, k)'
    <3>1. k \in DOMAIN walk \/ k = Len(walk) + 1
      BY <1>2
    <3>2. CASE k \in DOMAIN walk
      <4>1. f = walk[k]
        BY <1>2, <2>1, <3>2
      <4> QED
        BY <1>4, <3>2, <4>1
    <3>3. CASE k = Len(walk) + 1
      <4>1. f = NewFrame(c)
        BY <1>2, <2>1, <3>3
      <4> QED
        BY <1>5, <3>3, <4>1
    <3> QED
      BY <3>1, <3>2, <3>3
  <2> QED
    BY <2>1
<1>9. \A k \in DOMAIN walk' : k + 1 \in DOMAIN walk' =>
           Node(walk[k].id, walk[k].next, walk[k + 1].id)'
  BY <1>6
<1> QED
  BY <1>2, <1>7, <1>8, <1>9 DEF WalkStands

-----------------------------------------------------------------------------
(* The order of the building *)

(* The activations above m, which return, have come to their end. *)
Returns(m) ==
    \/ m = Len(walk)
    \/ m = Len(walk) - 1 /\ Finished

LEMMA PassedGoes ==
  ASSUME EncoderTyped, WalkStands, UNCHANGED <<seen, jsval>>, NEW m, NEW x, GoesOn(m, x),
         Returns(m), NEW p, NEW j, NEW c, Node(p, j, c)
  PROVE  Passed(p, j)' <=>
           (Passed(p, j) \/ (m = Len(walk) /\ p = Frame.id /\ j = Frame.next))
<1>1. /\ m \in DOMAIN walk /\ m \in Nat /\ DOMAIN walk' = 1..m /\ Len(walk') = m
      /\ Len(walk) \in Nat /\ DOMAIN walk = 1..Len(walk)
      /\ \A k \in 1..(m - 1) : walk'[k] = walk[k]
      /\ walk'[m].id = walk[m].id /\ walk'[m].next = walk[m].next + 1
      /\ walk # <<>>
  BY WalkFacts DEF GoesOn
<1>2. /\ \A k \in DOMAIN walk : walk[k].id \in Nat /\ walk[k].next \in Nat
      /\ \A k, l \in DOMAIN walk : walk[k].id = walk[l].id => k = l
  BY WalkFacts
<1>3. Frame = walk[Len(walk)] /\ Len(walk) \in DOMAIN walk
  BY <1>1, TopFacts
<1>4. j \in Nat /\ j \in 1..Len(jsval[p])
  BY DEF Node, EncoderTyped
<1>5. CASE \A k \in DOMAIN walk : walk[k].id # p
  <2>1. Passed(p, j)
    BY <1>5 DEF Passed
  <2>2. Passed(p, j)'
    BY <1>1, <1>5 DEF Passed
  <2> QED
    BY <2>1, <2>2
<1>6. ASSUME NEW k \in DOMAIN walk, walk[k].id = p
      PROVE  Passed(p, j)' <=>
               (Passed(p, j) \/ (m = Len(walk) /\ p = Frame.id /\ j = Frame.next))
  <2>1. Passed(p, j) <=> (j < walk[k].next \/ (j = walk[k].next /\ k < Len(walk)))
    BY <1>2, <1>6 DEF Passed
  <2>2. CASE k < m
    <3>1. Passed(p, j)' <=> (j < walk[k].next \/ (j = walk[k].next /\ k < m))
      <4>1. \A l \in 1..m : walk'[l].id = walk[l].id
        BY <1>1
      <4>2. k \in 1..(m - 1) /\ k \in 1..m /\ k \in DOMAIN walk' /\ 1..m \subseteq DOMAIN walk
        BY <1>1, <2>2
      <4>3. walk'[k] = walk[k]
        BY <1>1, <4>2
      <4>4. \A l \in 1..m : walk'[l].id = p => l = k
        BY <1>2, <1>6, <4>1, <4>2
      <4> QED
        BY <1>1, <1>6, <4>2, <4>3, <4>4 DEF Passed
    <3>2. k < Len(walk) /\ p # Frame.id
      BY <1>1, <1>2, <1>3, <1>6, <2>2
    <3> QED
      BY <2>1, <2>2, <3>1, <3>2
  <2>3. CASE k = m
    <3>1. Passed(p, j)' <=> j < walk[m].next + 1
      <4>1. \A l \in 1..m : walk'[l].id = walk[l].id
        BY <1>1
      <4>2. /\ m \in 1..m /\ walk'[m].next = walk[m].next + 1 /\ walk'[m].id = p
            /\ \A l \in 1..m : walk'[l].id = p => l = m
        BY <1>1, <1>2, <1>6, <2>3, <4>1
      <4> QED
        BY <1>1, <1>6, <4>2 DEF Passed
    <3>2. j < walk[m].next + 1 <=> (j < walk[m].next \/ j = walk[m].next)
      BY <1>1, <1>2, <1>4
    <3> QED
      BY <1>1, <1>3, <1>6, <2>1, <2>3, <3>1, <3>2
  <2>4. CASE k > m
    <3>1. k = Len(walk) /\ m = Len(walk) - 1 /\ Finished
      BY <1>1, <2>4 DEF Returns
    <3>2. Passed(p, j)'
      <4>1. ASSUME NEW l \in 1..m
            PROVE  walk'[l].id = walk[l].id /\ walk[l].id # p
        <5>1. l \in DOMAIN walk /\ l # k /\ (l = m \/ l \in 1..(m - 1))
          BY <1>1, <2>4
        <5>2. walk[l].id # p
          BY <1>2, <1>6, <5>1
        <5> QED
          BY <1>1, <5>1, <5>2
      <4> QED
        BY <1>1, <4>1 DEF Passed
    <3>3. j < walk[k].next
      <4>1. walk[k].next = Len(jsval[p]) + 1
        BY <1>1, <1>3, <1>6, <3>1, TopFacts
      <4> QED
        BY <1>4, <4>1
    <3> QED
      BY <2>1, <3>2, <3>3
  <2> QED
    BY <1>1, <2>2, <2>3, <2>4
<1> QED
  BY <1>5, <1>6

(* Nothing is built by it, or the node the top activation has come to. *)
LEMMA OrderGoes ==
  ASSUME EncoderTyped, WalkStands, TreeIsTree, BuiltInOrder, UNCHANGED <<seen, jsval>>,
         phase = "decode", NEW m, NEW x, GoesOn(m, x), Returns(m),
         NEW C, Built' = Built \cup C,
         \/ C = {} /\ (m = Len(walk) => \A c : ~Node(Frame.id, Frame.next, c))
         \/ /\ m = Len(walk) /\ Frame.id \in Built
            /\ \E c : /\ C = {c} /\ Node(Frame.id, Frame.next, c)
                      /\ \A j, d : ~Node(c, j, d)
  PROVE  BuiltInOrder'
<1>1. \A p, j, c : Node(p, j, c)' <=> Node(p, j, c)
  BY DEF Node
<1>2. ASSUME NEW p, NEW j, NEW c, Node(p, j, c)
      PROVE  c \in Built' <=> (p \in Built' /\ Passed(p, j)')
  <2>1. c \in Built <=> (p \in Built /\ Passed(p, j))
    BY <1>2 DEF BuiltInOrder
  <2>2. Passed(p, j)' <=>
           (Passed(p, j) \/ (m = Len(walk) /\ p = Frame.id /\ j = Frame.next))
    BY <1>2, PassedGoes
  <2>3. CASE C = {} /\ (m = Len(walk) => \A d : ~Node(Frame.id, Frame.next, d))
    BY <1>2, <2>1, <2>2, <2>3
  <2>4. ASSUME m = Len(walk), Frame.id \in Built, NEW d, C = {d},
               Node(Frame.id, Frame.next, d), \A k, e : ~Node(d, k, e)
        PROVE  c \in Built' <=> (p \in Built' /\ Passed(p, j)')
    <3>1. p # d
      BY <1>2, <2>4
    <3>2. c = d => p = Frame.id /\ j = Frame.next
      BY <1>2, <2>4 DEF TreeIsTree
    <3>3. p = Frame.id /\ j = Frame.next => c = d
      BY <1>2, <2>4 DEF Node
    <3> QED
      BY <2>1, <2>2, <2>4, <3>1, <3>2, <3>3
  <2> QED
    BY <2>3, <2>4
<1> QED
  BY <1>1, <1>2 DEF BuiltInOrder

LEMMA OrderDeepens ==
  ASSUME EncoderTyped, WalkStands, TreeIsTree, BuiltInOrder, UNCHANGED <<seen, jsval>>,
         phase = "decode", NEW c, Deepens(c), Len(heap) + 1 \in Object, c \notin Built,
         Frame.id \in Built, Built' = Built \cup {c}
  PROVE  BuiltInOrder'
<1>1. \A p, j, d : Node(p, j, d)' <=> Node(p, j, d)
  BY DEF Node
<1>2. /\ DOMAIN walk' = DOMAIN walk \cup {Len(walk) + 1}
      /\ Len(walk') = Len(walk) + 1 /\ Len(walk) + 1 \notin DOMAIN walk
      /\ \A k \in DOMAIN walk : walk'[k] = walk[k]
      /\ walk'[Len(walk) + 1] = NewFrame(c)
      /\ c \in Nat /\ \A k \in DOMAIN walk : walk[k].id < c
  BY DeepWalk
<1>3. /\ Len(walk) \in Nat /\ DOMAIN walk = 1..Len(walk)
      /\ \A k \in DOMAIN walk : walk[k].id \in Nat /\ walk[k].next \in Nat
      /\ \A k, l \in DOMAIN walk : walk[k].id = walk[l].id => k = l
  BY WalkFacts
<1>4. Frame = walk[Len(walk)] /\ Len(walk) \in DOMAIN walk
  BY TopFacts DEF Deepens
<1>5. NewFrame(c).id = c /\ NewFrame(c).next = 1
  BY DEF NewFrame
<1>6. \A k \in DOMAIN walk : walk[k].id # c
  BY <1>2, <1>3
<1>7. ASSUME NEW p, NEW j, NEW d, Node(p, j, d)
      PROVE  d \in Built' <=> (p \in Built' /\ Passed(p, j)')
  <2>1. d \in Built <=> (p \in Built /\ Passed(p, j))
    BY <1>7 DEF BuiltInOrder
  <2>2. j \in Nat /\ j >= 1
    BY <1>7 DEF Node, EncoderTyped
  <2>3. d = c <=> (p = Frame.id /\ j = Frame.next)
    <3>1. Node(Frame.id, Frame.next, c)
      BY DEF Deepens
    <3>2. d = c => p = Frame.id /\ j = Frame.next
      BY <1>7, <3>1 DEF TreeIsTree
    <3>3. p = Frame.id /\ j = Frame.next => d = c
      BY <1>7, <3>1 DEF Node
    <3> QED
      BY <3>2, <3>3
  <2>4. CASE p = c
    <3>1. d # c
      BY <1>4, <1>6, <2>3, <2>4
    <3>2. ~Passed(p, j)'
      <4>1. Len(walk) + 1 \in DOMAIN walk' /\ walk'[Len(walk) + 1].id = p
        BY <1>2, <1>5, <2>4
      <4>2. ~(j < 1 \/ (j = 1 /\ Len(walk) + 1 < Len(walk')))
        BY <1>2, <1>3, <2>2
      <4> QED
        BY <1>2, <1>5, <4>1, <4>2 DEF Passed
    <3> QED
      BY <2>1, <2>4, <3>1, <3>2
  <2>5. CASE p # c
    <3>1. Passed(p, j)' <=> \A k \in DOMAIN walk : walk[k].id = p => j <= walk[k].next
      <4>1. Passed(p, j)' <=> \A k \in DOMAIN walk : walk[k].id = p =>
                j < walk[k].next \/ (j = walk[k].next /\ k < Len(walk) + 1)
        BY <1>2, <1>5, <2>5 DEF Passed
      <4> QED
        BY <1>3, <2>2, <4>1
    <3>2. CASE p = Frame.id
      <4>1. Passed(p, j)' <=> j <= Frame.next
        BY <1>3, <1>4, <3>1, <3>2
      <4>2. Passed(p, j) <=> j < Frame.next
        BY <1>3, <1>4, <3>2 DEF Passed
      <4>3. Frame.next \in Nat
        BY <1>3, <1>4
      <4> QED
        BY <2>1, <2>2, <2>3, <2>5, <3>2, <4>1, <4>2, <4>3
    <3>3. CASE p # Frame.id
      <4>1. \A k \in DOMAIN walk : walk[k].id = p => k < Len(walk)
        BY <1>3, <1>4, <3>3
      <4>2. Passed(p, j)' <=> Passed(p, j)
        BY <1>3, <2>2, <3>1, <4>1 DEF Passed
      <4> QED
        BY <2>1, <2>3, <2>5, <3>3, <4>2
    <3> QED
      BY <3>2, <3>3
  <2> QED
    BY <2>4, <2>5
<1> QED
  BY <1>1, <1>7 DEF BuiltInOrder

LEMMA PrecedesGoes ==
  ASSUME EncoderTyped, WalkStands, PathPrecedes, UNCHANGED <<seen, jsval>>,
         NEW m, NEW x, GoesOn(m, x)
  PROVE  PathPrecedes'
<1>1. \A p, j, c : Node(p, j, c)' <=> Node(p, j, c)
  BY DEF Node
<1>2. /\ m \in Nat /\ DOMAIN walk' = 1..m /\ 1..m \subseteq DOMAIN walk
      /\ \A k \in 1..(m - 1) : walk'[k] = walk[k]
      /\ walk'[m].id = walk[m].id
  BY WalkFacts DEF GoesOn
<1>3. ASSUME NEW k \in DOMAIN walk', NEW l \in DOMAIN walk', k < l,
             NEW j, NEW c, NEW p, p = walk'[k].id, Node(p, j, c), walk'[k].next < j
      PROVE  walk'[l].id < c
  <2>1. /\ k \in DOMAIN walk /\ l \in DOMAIN walk /\ k \in 1..(m - 1)
        /\ walk'[k] = walk[k] /\ walk'[l].id = walk[l].id
    BY <1>2, <1>3
  <2> QED
    BY <1>3, <2>1 DEF PathPrecedes
<1>4. \A k, l \in DOMAIN walk' : \A j, c :
        k < l /\ Node(walk[k].id, j, c)' /\ walk'[k].next < j => walk'[l].id < c
  BY <1>1, <1>3
<1> QED
  BY <1>4 DEF PathPrecedes

LEMMA PrecedesDeepens ==
  ASSUME EncoderTyped, WalkStands, TreeIsTree, IdsAreInOrder, PathPrecedes,
         UNCHANGED <<seen, jsval>>, NEW c, Deepens(c), Len(heap) + 1 \in Object
  PROVE  PathPrecedes'
<1>1. \A p, j, d : Node(p, j, d)' <=> Node(p, j, d)
  BY DEF Node
<1>2. /\ DOMAIN walk' = DOMAIN walk \cup {Len(walk) + 1}
      /\ \A k \in DOMAIN walk : walk'[k] = walk[k]
      /\ walk'[Len(walk) + 1] = NewFrame(c)
      /\ c \in Nat /\ \A k \in DOMAIN walk : walk[k].id < c
  BY DeepWalk
<1>3. /\ Len(walk) \in Nat /\ DOMAIN walk = 1..Len(walk)
      /\ \A k \in DOMAIN walk : walk[k].id \in Nat
  BY WalkFacts
<1>4. Frame = walk[Len(walk)] /\ Len(walk) \in DOMAIN walk
  BY TopFacts DEF Deepens
<1>5. NewFrame(c).id = c
  BY DEF NewFrame
<1>6. Names(Frame.id, Frame.next, c)
  BY DEF Deepens, Node, Names
<1>7. ASSUME NEW k \in DOMAIN walk', NEW l \in DOMAIN walk', k < l,
             NEW j, NEW d, NEW p, p = walk'[k].id, Node(p, j, d), walk'[k].next < j
      PROVE  walk'[l].id < d
  <2>1. k \in DOMAIN walk /\ walk'[k] = walk[k]
    BY <1>2, <1>3, <1>7
  <2>2. CASE l \in DOMAIN walk
    BY <1>2, <1>7, <2>1, <2>2 DEF PathPrecedes
  <2>3. CASE l = Len(walk) + 1
    <3>1. CASE k = Len(walk)
      <4>1. p = Frame.id /\ Frame.next < j
        BY <1>4, <1>7, <2>1, <3>1
      <4>2. c < d
        BY <1>6, <1>7, <4>1 DEF IdsAreInOrder
      <4> QED
        BY <1>2, <1>5, <2>3, <4>2
    <3>2. CASE k < Len(walk)
      <4>1. p < Frame.id /\ Frame.id < d
        BY <1>4, <1>7, <2>1, <3>2 DEF WalkStands, PathPrecedes
      <4>2. c < d
        BY <1>6, <1>7, <4>1 DEF IdsAreInOrder
      <4> QED
        BY <1>2, <1>5, <2>3, <4>2
    <3> QED
      BY <1>3, <2>1, <3>1, <3>2
  <2> QED
    BY <1>2, <2>2, <2>3
<1>8. \A k, l \in DOMAIN walk' : \A j, d :
        k < l /\ Node(walk[k].id, j, d)' /\ walk'[k].next < j => walk'[l].id < d
  BY <1>1, <1>7
<1> QED
  BY <1>8 DEF PathPrecedes

-----------------------------------------------------------------------------
(* The steps of the decoder *)

LEMMA HeapIsSmall ==
  ASSUME TableStands
  PROVE  Len(heap) \in Nat /\ Len(heap) <= MaxObjects
<1>1. IsFiniteSet(Built) /\ Cardinality(Built) = Len(heap) /\ Built \subseteq Id
  BY BuiltFacts
<1>2. IsFiniteSet(Id) /\ Cardinality(Id) = MaxObjects
  BY CountTo, MarshalAssumption DEF Id
<1> QED
  BY <1>1, <1>2, FS_Subset, FS_CardinalityType

(* An activation fills the copy of its container. *)
LEMMA ActivationFacts ==
  ASSUME DInv, NEW k \in DOMAIN walk, NEW f, f = walk[k]
  PROVE  /\ f \in Activation /\ f.id \in DOMAIN seen /\ f.id \in Built /\ built[f.id] = f.at
         /\ f.at \in DOMAIN heap /\ heap[f.at] \in Copy
         /\ heap[f.at].kind = Kind(f.id)
         /\ heap[f.at].kind \in {"array", "set"} \cup Keyed
         /\ KidsStand(heap[f.at], Len(heap))
         /\ f.key \in CopyValue \cup {NoKey} /\ CopiesIn({f.key}) \subseteq DOMAIN heap
<1> EncoderTyped /\ HeapStands /\ TableStands /\ WalkStands
  BY DEF DInv, EInv
<1>1. f \in Activation /\ f.id \in Id
  BY WalkFacts DEF Activation
<1>2. /\ f.id \in DOMAIN seen /\ Kind(f.id) # "bytes" /\ f.at # 0 /\ built[f.id] = f.at
      /\ CopiesIn({f.key}) \subseteq DOMAIN heap
  BY DEF WalkStands, Decodes
<1>3. f.id \in Built
  BY <1>1, <1>2 DEF Built
<1>4. f.at \in 1..Len(heap) /\ f.at \in DOMAIN heap
  BY <1>2, <1>3, BuiltFacts DEF HeapStands
<1>5. heap[f.at].kind = Kind(f.id) /\ Kind(f.id) # "refusing"
  BY <1>2, <1>3 DEF TableStands
<1>6. heap[f.at] \in Copy /\ KidsStand(heap[f.at], Len(heap))
  BY <1>4 DEF HeapStands
<1>7. heap[f.at].kind \in {"array", "set"} \cup Keyed
  <2>1. heap[f.at].kind \in KindsOf("ruby")
    BY <1>6 DEF Copy
  <2> QED
    BY <1>2, <1>5, <2>1 DEF KindsOf, Keyed
<1> QED
  BY <1>1, <1>2, <1>3, <1>4, <1>5, <1>6, <1>7 DEF Activation

(* What an item that is not a node stands for. *)
ValueOf(item) == IF item[1] = "ref" THEN Resolved(item[2]) ELSE item

LEMMA ValueFacts ==
  ASSUME DInv, NEW item \in Item, item[1] # "node", NEW x, x = ValueOf(item)
  PROVE  x \in CopyValue /\ CopiesIn({x}) \subseteq DOMAIN heap
<1> TableStands /\ HeapStands
  BY DEF DInv
<1>1. CASE item[1] # "ref"
  <2>1. x \in LeafValue \cup {Text} /\ x[1] # "copy"
    BY <1>1, ItemFacts DEF ValueOf, LeafValue, Text
  <2> QED
    BY <2>1, CopiesOf DEF CopyValue
<1>2. CASE item[1] = "ref"
  <2>1. item[2] \in Id /\ x = Resolved(item[2])
    BY <1>2, ItemFacts DEF ValueOf
  <2>2. CASE built[item[2]] = 0
    <3>1. x = Nil
      BY <2>1, <2>2 DEF Resolved
    <3> QED
      BY <3>1, CopiesOf DEF CopyValue, Nil
  <2>3. CASE built[item[2]] # 0
    <3>1. x = <<"copy", built[item[2]]>>
      BY <2>1, <2>3 DEF Resolved
    <3>2. built[item[2]] \in 1..Len(heap)
      BY <2>1, <2>3, BuiltFacts DEF Built
    <3>3. built[item[2]] \in Object /\ built[item[2]] \in DOMAIN heap
      BY <3>2, HeapIsSmall, MarshalAssumption DEF Object, HeapStands
    <3> QED
      BY <3>1, <3>3, CopiesOf DEF CopyValue
  <2> QED
    BY <2>2, <2>3
<1> QED
  BY <1>1, <1>2

(* A step in which the m-th activation is given x, and is then on top. *)
Takes(m, x, copies) ==
    /\ m \in DOMAIN walk /\ Returns(m) /\ x \in CopyValue /\ Extends(copies)
    /\ MayTake(copies, walk[m], x) /\ copies[walk[m].at] = heap[walk[m].at]
    /\ GraftDoes(m, walk[m], x, copies) /\ GoesOn(m, x) /\ HeapStands'
    /\ DOMAIN heap' = DOMAIN copies /\ Len(heap') = Len(copies)
    /\ \A a \in DOMAIN copies : heap'[a].kind = copies[a].kind
    /\ CopiesIn({x}) \subseteq DOMAIN heap' /\ DOMAIN heap \subseteq DOMAIN heap'

LEMMA OwnCopies ==
  ASSUME DInv
  PROVE  /\ Extends(heap) /\ \A a \in DOMAIN heap : KidsStand(heap[a], Len(heap))
BY DEF DInv, HeapStands, Extends

LEMMA GivenTakes ==
  ASSUME DInv, NEW m \in DOMAIN walk, Returns(m), NEW below \in Seq(Activation),
         Len(below) = m - 1, \A k \in DOMAIN below : below[k] = walk[k],
         walk[m].next <= Len(jsval[walk[m].id]),
         NEW x \in CopyValue, NEW copies, Extends(copies),
         \A a \in DOMAIN copies : KidsStand(copies[a], Len(copies)),
         CopiesIn({x}) \subseteq DOMAIN copies, Graft(below, walk[m], x, copies)
  PROVE  Takes(m, x, copies)
<1> SUFFICES ASSUME NEW f, f = walk[m]
             PROVE  Takes(m, x, copies)
  OBVIOUS
<1>0. Graft(below, f, x, copies) /\ f.next <= Len(jsval[f.id])
  OBVIOUS
<1>1. /\ f \in Activation /\ f.at \in DOMAIN heap
      /\ heap[f.at].kind = Kind(f.id)
      /\ heap[f.at].kind \in {"array", "set"} \cup Keyed
      /\ KidsStand(heap[f.at], Len(heap))
      /\ f.key \in CopyValue \cup {NoKey} /\ CopiesIn({f.key}) \subseteq DOMAIN heap
  BY ActivationFacts
<1>2. f.at \in DOMAIN copies /\ copies[f.at] = heap[f.at] /\ DOMAIN heap \subseteq DOMAIN copies
  BY <1>1 DEF Extends
<1>3. MayTake(copies, f, x)
  BY <1>1, <1>2 DEF MayTake, KidsStand
<1>4. CopiesIn({x, f.key}) \subseteq DOMAIN copies
  BY <1>1, <1>2, CopiesOf
<1>5. swallowed \subseteq DOMAIN heap
  BY DEF DInv, HeapStands
<1>6. KidsStand(copies[f.at], Len(copies))
  BY <1>2
<1>7. m \in Nat /\ Len(below) + 1 = m /\ DOMAIN below = 1..(m - 1) /\ m \in 1..Len(walk)
  <2>1. m \in Nat /\ m \in 1..Len(walk)
    BY WalkFacts DEF DInv, EInv
  <2> QED
    BY <2>1
<1>8. /\ GraftDoes(Len(below) + 1, f, x, copies)
      /\ \A k \in DOMAIN below : walk'[k] = below[k]
  BY <1>0, <1>1, <1>3, <1>4, <1>5, <1>6, GraftWorks
<1>9. GraftDoes(m, f, x, copies)
  BY <1>7, <1>8
<1>10. GoesOn(m, x)
  <2>1. /\ walk' \in Seq(Activation) /\ DOMAIN walk' = 1..m /\ Len(walk') = m
        /\ walk'[m].id = f.id /\ walk'[m].at = f.at /\ walk'[m].next = f.next + 1
        /\ heap[f.at].kind \in Keyed /\ f.key = NoKey => walk'[m].key = x
        /\ ~(heap[f.at].kind \in Keyed /\ f.key = NoKey) => walk'[m].key = NoKey
    BY <1>9 DEF GraftDoes
  <2>2. \A k \in 1..(m - 1) : walk'[k] = walk[k]
    BY <1>7, <1>8
  <2> QED
    BY <1>0, <1>1, <2>1, <2>2 DEF GoesOn
<1>11. /\ heap' \in Seq(Copy) /\ Len(heap') = Len(copies) /\ DOMAIN heap' = DOMAIN copies
       /\ \A a \in DOMAIN copies : a # f.at => heap'[a] = copies[a]
       /\ Filled(heap'[f.at], copies, f, x) /\ KidsStand(heap'[f.at], Len(copies))
       /\ swallowed' \subseteq DOMAIN heap'
  BY <1>9 DEF GraftDoes
<1>12. HeapStands'
  <2>1. \A a \in DOMAIN heap' : KidsStand(heap'[a], Len(heap'))
    BY <1>11
  <2> QED
    BY <1>11, <2>1 DEF HeapStands
<1>13. \A a \in DOMAIN copies : heap'[a].kind = copies[a].kind
  BY <1>11 DEF Filled
<1> QED
  BY <1>2, <1>3, <1>9, <1>10, <1>11, <1>12, <1>13 DEF Takes

LEMMA TopIsGiven ==
  ASSUME DInv, Decoding, ~Finished,
         NEW x \in CopyValue, NEW copies, Extends(copies),
         \A a \in DOMAIN copies : KidsStand(copies[a], Len(copies)),
         CopiesIn({x}) \subseteq DOMAIN copies, Graft(Shorter(walk), Frame, x, copies)
  PROVE  Takes(Len(walk), x, copies)
<1> EncoderTyped /\ WalkStands
  BY DEF DInv, EInv
<1> DEFINE m == Len(walk)
<1>1. /\ m \in DOMAIN walk /\ Frame = walk[m] /\ Frame.next \in DOMAIN jsval[Frame.id]
      /\ jsval[Frame.id] \in Seq(Item)
  BY TopFacts, WalkFacts DEF Decoding
<1>2. walk[m].next <= Len(jsval[walk[m].id])
  BY <1>1
<1>3. /\ Shorter(walk) \in Seq(Activation) /\ Len(Shorter(walk)) = m - 1
      /\ \A k \in DOMAIN Shorter(walk) : Shorter(walk)[k] = walk[k]
  <2>1. walk \in Seq(Activation) /\ walk # <<>>
    BY DEF WalkStands, Decoding
  <2> QED
    BY <2>1, Shortened
<1>4. Returns(m)
  BY DEF Returns
<1>5. Graft(Shorter(walk), walk[m], x, copies)
  BY <1>1
<1> HIDE DEF m
<1>6. Takes(m, x, copies)
  BY <1>1, <1>2, <1>3, <1>4, <1>5, GivenTakes DEF m
<1> QED
  BY <1>6 DEF m

LEMMA ValueTakes ==
  ASSUME DInv, DecodeValue
  PROVE  /\ Frame.next \in DOMAIN jsval[Frame.id] /\ jsval[Frame.id][Frame.next] \in Item
         /\ jsval[Frame.id][Frame.next][1] # "node"
         /\ Takes(Len(walk), ValueOf(jsval[Frame.id][Frame.next]), heap)
         /\ phase' = phase /\ UNCHANGED <<to, kindOf, seen, open, jsval, source, built>>
<1> DEFINE item == jsval[Frame.id][Frame.next]
<1>1. /\ Decoding /\ ~Finished /\ item[1] # "node"
      /\ Graft(Shorter(walk), Frame, ValueOf(item), heap)
      /\ phase' = phase /\ UNCHANGED <<to, kindOf, seen, open, jsval, source, built>>
  BY DEF DecodeValue, ValueOf, encoder
<1>2. Frame.next \in DOMAIN jsval[Frame.id] /\ jsval[Frame.id] \in Seq(Item) /\ item \in Item
  <2>1. EncoderTyped /\ WalkStands /\ walk # <<>>
    BY <1>1 DEF DInv, EInv, Decoding
  <2> QED
    BY <1>1, <2>1, TopFacts, WalkFacts
<1> HIDE DEF item
<1>3. ValueOf(item) \in CopyValue /\ CopiesIn({ValueOf(item)}) \subseteq DOMAIN heap
  BY <1>1, <1>2, ValueFacts
<1>4. Takes(Len(walk), ValueOf(item), heap)
  BY <1>1, <1>3, OwnCopies, TopIsGiven
<1> QED
  BY <1>1, <1>2, <1>4 DEF item

LEMMA NodeIsUnbuilt ==
  ASSUME DInv, Decoding, ~Finished, NEW c, jsval[Frame.id][Frame.next] = <<"node", c>>
  PROVE  /\ Node(Frame.id, Frame.next, c) /\ c \in DOMAIN seen /\ c \in Id /\ c \notin Built
         /\ Kind(c) # "refusing" /\ Frame.id \in Built
<1> EncoderTyped /\ WalkStands /\ TreeIsTree /\ walk # <<>>
  BY DEF DInv, EInv, Decoding
<1>1. /\ Len(walk) \in DOMAIN walk /\ Frame = walk[Len(walk)]
      /\ Frame.next \in DOMAIN jsval[Frame.id]
  BY TopFacts
<1>2. Frame.id \in DOMAIN seen /\ Frame.id \in Built /\ Frame.next \in Nat
  BY <1>1, ActivationFacts, WalkFacts
<1>3. Node(Frame.id, Frame.next, c)
  BY <1>1, <1>2 DEF Node
<1>4. ~Passed(Frame.id, Frame.next)
  <2>1. ~(Frame.next < Frame.next) /\ ~(Len(walk) < Len(walk))
    BY <1>2, WalkFacts
  <2> QED
    BY <1>1, <2>1 DEF Passed
<1>5. c \notin Built
  BY <1>3, <1>4 DEF DInv, BuiltInOrder, Decoding
<1> QED
  BY <1>2, <1>3, <1>5, SeenFacts DEF TreeIsTree

LEMMA BytesTake ==
  ASSUME DInv, DecodeBytes
  PROVE  /\ Takes(Len(walk), <<"copy", Len(heap) + 1>>, WithCopy(jsval[Frame.id][Frame.next][2]))
         /\ Node(Frame.id, Frame.next, jsval[Frame.id][Frame.next][2])
         /\ jsval[Frame.id][Frame.next][2] \in DOMAIN seen
         /\ jsval[Frame.id][Frame.next][2] \notin Built
         /\ Kind(jsval[Frame.id][Frame.next][2]) = "bytes"
         /\ Register(jsval[Frame.id][Frame.next][2]) /\ Frame.id \in Built
         /\ phase' = phase /\ UNCHANGED <<to, kindOf, seen, open, jsval, source>>
<1> DEFINE item == jsval[Frame.id][Frame.next]
           c == item[2]
           x == <<"copy", Len(heap) + 1>>
<1>1. /\ Decoding /\ ~Finished /\ item[1] = "node" /\ kindOf[seen[c]] = "bytes"
      /\ Register(c) /\ Graft(Shorter(walk), Frame, x, WithCopy(c))
      /\ phase' = phase /\ UNCHANGED <<to, kindOf, seen, open, jsval, source>>
  BY DEF DecodeBytes, encoder
<1>2. EncoderTyped /\ HeapStands /\ TableStands /\ WalkStands /\ walk # <<>>
  BY <1>1 DEF DInv, EInv, Decoding
<1>3. item = <<"node", c>>
  <2>1. Frame.next \in DOMAIN jsval[Frame.id] /\ jsval[Frame.id] \in Seq(Item) /\ item \in Item
    BY <1>1, <1>2, TopFacts, WalkFacts
  <2> HIDE DEF item
  <2> QED
    BY <1>1, <2>1, ItemFacts
<1> HIDE DEF c
<1>4. /\ Node(Frame.id, Frame.next, c) /\ c \in DOMAIN seen /\ c \in Id /\ c \notin Built
      /\ Frame.id \in Built
  BY <1>1, <1>3, NodeIsUnbuilt
<1> DEFINE copies == WithCopy(c)
<1>5. /\ Extends(copies) /\ \A a \in DOMAIN copies : KidsStand(copies[a], Len(copies))
      /\ Len(heap) + 1 \in DOMAIN copies /\ Len(copies) = Len(heap) + 1
  BY <1>2, <1>4, CopyAllocated
<1>6. Len(heap) + 1 \in Object
  <2>1. IsFiniteSet(Built) /\ Cardinality(Built) = Len(heap) /\ Built \subseteq Id
    BY <1>2, BuiltFacts
  <2>2. IsFiniteSet(Id) /\ Cardinality(Id) = MaxObjects /\ Len(heap) \in Nat
    BY <1>2, CountTo, HeapIsSmall, MarshalAssumption DEF Id
  <2>3. Cardinality(Built \cup {c}) = Len(heap) + 1 /\ Built \cup {c} \subseteq Id
    BY <1>4, <2>1, FS_AddElement
  <2>4. Len(heap) + 1 <= MaxObjects
    BY <2>2, <2>3, FS_Subset
  <2> QED
    BY <2>2, <2>4, MarshalAssumption DEF Object
<1>7. x \in CopyValue /\ CopiesIn({x}) \subseteq DOMAIN copies
  BY <1>5, <1>6, CopiesOf DEF CopyValue
<1> HIDE DEF x, copies
<1>8. Takes(Len(walk), x, copies)
  <2>1. Graft(Shorter(walk), Frame, x, copies)
    BY <1>1 DEF x, copies, c
  <2> QED
    BY <1>1, <1>5, <1>7, <2>1, TopIsGiven
<1> QED
  BY <1>1, <1>4, <1>8 DEF x, copies, c, Kind

LEMMA AscendTakes ==
  ASSUME DInv, Ascend, Len(walk) # 1
  PROVE  /\ Takes(Len(walk) - 1, <<"copy", Frame.at>>, heap) /\ Finished
         /\ Decoding /\ Len(walk) - 1 \in DOMAIN walk
         /\ phase' = phase /\ UNCHANGED <<to, kindOf, seen, open, jsval, source, built>>
<1> DEFINE m == Len(walk) - 1
           x == <<"copy", Frame.at>>
<1>1. /\ Decoding /\ Finished /\ phase' = phase
      /\ Graft(Shorter(Shorter(walk)), Last(Shorter(walk)), x, heap)
      /\ UNCHANGED <<to, kindOf, seen, open, jsval, source, built>>
  BY DEF Ascend, encoder
<1>2. EncoderTyped /\ HeapStands /\ TableStands /\ WalkStands /\ walk # <<>> /\ TreeIsTree
  BY <1>1 DEF DInv, EInv, Decoding
<1>3. /\ Len(walk) \in DOMAIN walk /\ Frame = walk[Len(walk)] /\ Len(walk) \in Nat
      /\ DOMAIN walk = 1..Len(walk) /\ walk \in Seq(Activation)
  BY <1>2, TopFacts, WalkFacts DEF WalkStands
<1>4. m \in DOMAIN walk /\ m \in Nat /\ m + 1 = Len(walk) /\ m # 0
  BY <1>3
<1>5. /\ Shorter(walk) \in Seq(Activation) /\ Len(Shorter(walk)) = m
      /\ Shorter(walk) # <<>> /\ DOMAIN Shorter(walk) = 1..m
      /\ \A k \in DOMAIN Shorter(walk) : Shorter(walk)[k] = walk[k]
  <2>1. ASSUME NEW r, r = Shorter(walk)
        PROVE  /\ r \in Seq(Activation) /\ Len(r) = m /\ DOMAIN r = 1..m
               /\ \A k \in DOMAIN r : r[k] = walk[k]
    <3>1. walk \in Seq(Activation) /\ walk # <<>>
      BY <1>2, <1>3
    <3>2. /\ r \in Seq(Activation) /\ Len(r) = Len(walk) - 1 /\ DOMAIN r = 1..(Len(walk) - 1)
          /\ \A k \in DOMAIN r : k \in DOMAIN walk /\ r[k] = walk[k]
      BY <2>1, <3>1, Shortened
    <3> QED
      BY <3>2
  <2>2. ASSUME NEW r, r = Shorter(walk) PROVE r # <<>>
    <3>1. Len(r) = m
      BY <2>1, <2>2
    <3> QED
      BY <1>4, <3>1
  <2> QED
    BY <2>1, <2>2
<1>6. Last(Shorter(walk)) = walk[m]
  BY <1>4, <1>5 DEF Last
<1>7. /\ Shorter(Shorter(walk)) \in Seq(Activation) /\ Len(Shorter(Shorter(walk))) = m - 1
      /\ \A k \in DOMAIN Shorter(Shorter(walk)) : Shorter(Shorter(walk))[k] = walk[k]
  <2> DEFINE s == Shorter(walk)
             r == Shorter(s)
  <2>1. s \in Seq(Activation) /\ s # <<>> /\ Len(s) = m /\ \A k \in DOMAIN s : s[k] = walk[k]
    BY <1>5
  <2> HIDE DEF s
  <2>2. /\ r \in Seq(Activation) /\ Len(r) = Len(s) - 1
        /\ \A k \in DOMAIN r : k \in DOMAIN s /\ r[k] = s[k]
    BY <2>1, Shortened
  <2>3. r \in Seq(Activation) /\ Len(r) = m - 1 /\ \A k \in DOMAIN r : r[k] = walk[k]
    BY <2>1, <2>2
  <2> QED
    BY <2>3 DEF s
<1>8. /\ x \in CopyValue /\ CopiesIn({x}) \subseteq DOMAIN heap
  <2>1. Frame.at \in DOMAIN heap /\ Frame \in Activation
    BY <1>3, ActivationFacts
  <2>2. Frame.at \in Object
    BY <2>1 DEF Activation
  <2> QED
    BY <2>1, <2>2, CopiesOf DEF CopyValue
<1>9. walk[m].next <= Len(jsval[walk[m].id])
  <2>1. Node(walk[m].id, walk[m].next, walk[m + 1].id)
    BY <1>2, <1>3, <1>4 DEF WalkStands
  <2>2. walk[m].next \in DOMAIN jsval[walk[m].id] /\ jsval[walk[m].id] \in Seq(Item)
    BY <1>2, <1>4, <2>1, WalkFacts DEF Node
  <2> QED
    BY <2>2
<1>10. Returns(m)
  BY <1>1 DEF Returns
<1> HIDE DEF x, m
<1>11. Graft(Shorter(Shorter(walk)), walk[m], x, heap)
  BY <1>1, <1>6 DEF x
<1>12. Takes(m, x, heap)
  BY <1>4, <1>7, <1>8, <1>9, <1>10, <1>11, OwnCopies, GivenTakes
<1> QED
  BY <1>1, <1>4, <1>12 DEF x, m

LEMMA TakenWalkStands ==
  ASSUME DInv, UNCHANGED <<kindOf, seen, jsval, source>>, phase = "decode", phase' = "decode",
         NEW m, NEW x, NEW copies, Takes(m, x, copies),
         \A id \in Built : built'[id] = built[id]
  PROVE  WalkStands' /\ PathPrecedes' /\ HeapStands'
<1>1. EncoderTyped /\ WalkStands /\ PathPrecedes
  BY DEF DInv, EInv
<1>2. /\ x \in CopyValue /\ GoesOn(m, x) /\ HeapStands'
      /\ DOMAIN heap \subseteq DOMAIN heap' /\ CopiesIn({x}) \subseteq DOMAIN heap'
  BY DEF Takes
<1>3. \A k \in DOMAIN walk : built'[walk[k].id] = built[walk[k].id]
  BY ActivationFacts
<1>4. WalkStands'
  BY <1>1, <1>2, <1>3, WalkGoesOn
<1>5. PathPrecedes'
  BY <1>1, <1>2, PrecedesGoes
<1> QED
  BY <1>2, <1>4, <1>5

(* A step of the decoder that allocates nothing. *)
LEMMA NothingBuilt ==
  ASSUME DInv, UNCHANGED <<kindOf, seen, jsval, source, built>>, Decoding, phase' = phase,
         NEW m, NEW x, Takes(m, x, heap),
         m = Len(walk) => \A c : ~Node(Frame.id, Frame.next, c)
  PROVE  /\ HeapStands' /\ TableStands' /\ WalkStands' /\ BuiltInOrder' /\ PathPrecedes'
<1>1. EncoderTyped /\ TableStands /\ WalkStands /\ TreeIsTree /\ BuiltInOrder
  BY DEF DInv, EInv
<1>2. phase = "decode" /\ phase' = "decode" /\ phase # "encode" /\ phase' # "encode"
  BY DEF Decoding
<1>3. HeapStands' /\ WalkStands' /\ PathPrecedes'
  BY <1>2, TakenWalkStands
<1>4. TableStands'
  <2>1. Len(heap') = Len(heap) /\ \A a \in 1..Len(heap) : heap'[a].kind = heap[a].kind
    BY DEF Takes, DInv, HeapStands
  <2> QED
    BY <1>1, <1>2, <2>1, TableKept
<1>5. BuiltInOrder'
  <2>1. Built' = Built \cup {}
    BY DEF Built
  <2>2. GoesOn(m, x) /\ Returns(m)
    BY DEF Takes
  <2> QED
    BY <1>1, <1>2, <2>1, <2>2, OrderGoes
<1> QED
  BY <1>3, <1>4, <1>5

LEMMA ValueKeeps ==
  ASSUME DInv, EInv', DecodeValue
  PROVE  DInv'
<1> DEFINE item == jsval[Frame.id][Frame.next]
<1>1. /\ Frame.next \in DOMAIN jsval[Frame.id] /\ item[1] # "node"
      /\ Takes(Len(walk), ValueOf(item), heap)
      /\ phase' = phase /\ UNCHANGED <<kindOf, seen, jsval, source, built>>
  BY ValueTakes
<1>2. \A c : ~Node(Frame.id, Frame.next, c)
  <2>1. \A c : <<"node", c>>[1] = "node"
    OBVIOUS
  <2> QED
    BY <1>1, <2>1 DEF Node
<1>3. Decoding
  BY DEF DecodeValue
<1> HIDE DEF item
<1>4. HeapStands' /\ TableStands' /\ WalkStands' /\ BuiltInOrder' /\ PathPrecedes'
  BY <1>1, <1>2, <1>3, NothingBuilt
<1> QED
  BY <1>4 DEF DInv

LEMMA BytesKeep ==
  ASSUME DInv, EInv', DecodeBytes
  PROVE  DInv'
<1>1. PICK c : c = jsval[Frame.id][Frame.next][2]
  OBVIOUS
<1>2. /\ Takes(Len(walk), <<"copy", Len(heap) + 1>>, WithCopy(c))
      /\ Node(Frame.id, Frame.next, c) /\ c \in DOMAIN seen /\ c \notin Built
      /\ Kind(c) = "bytes" /\ Register(c) /\ Frame.id \in Built
      /\ phase' = phase /\ UNCHANGED <<to, kindOf, seen, open, jsval, source>>
  BY <1>1, BytesTake
<1>3. /\ EncoderTyped /\ HeapStands /\ TableStands /\ WalkStands /\ TreeIsTree /\ BuiltInOrder
      /\ ItemsStand
  BY DEF DInv, EInv
<1>4. phase = "decode" /\ phase' = "decode" /\ phase' # "encode" /\ Root \in Built
  BY <1>2, <1>3 DEF DecodeBytes, Decoding, TableStands
<1>5. PICK copies : copies = WithCopy(c)
  OBVIOUS
<1>6. /\ Len(copies) = Len(heap) + 1 /\ copies[Len(heap) + 1].kind = Kind(c)
      /\ Len(heap) + 1 \in DOMAIN copies /\ DOMAIN heap = 1..Len(heap)
      /\ \A a \in 1..Len(heap) : a \in DOMAIN copies /\ copies[a].kind = heap[a].kind
  BY <1>2, <1>3, <1>5, CopyAllocated DEF Extends
<1>7. /\ Len(heap') = Len(heap) + 1 /\ heap'[Len(heap) + 1].kind = Kind(c)
      /\ \A a \in 1..Len(heap) : heap'[a].kind = heap[a].kind
  BY <1>2, <1>5, <1>6 DEF Takes
<1>8. /\ TableStands' /\ Built' = Built \cup {c} /\ \A id \in Built : built'[id] = built[id]
  <2>1. Kind(c) # "refusing" /\ Root \in Built \cup {c} /\ UNCHANGED <<seen, kindOf>>
    BY <1>2, <1>4
  <2> QED
    BY <1>2, <1>3, <1>4, <1>7, <2>1, TableGrows
<1>9. HeapStands' /\ WalkStands' /\ PathPrecedes'
  BY <1>2, <1>4, <1>8, TakenWalkStands
<1>10. BuiltInOrder'
  <2>1. \A j, d : ~Node(c, j, d)
    <3>1. jsval[c] = <<>>
      BY <1>2, <1>3 DEF ItemsStand, Leaflike
    <3> QED
      BY <3>1 DEF Node
  <2>2. GoesOn(Len(walk), <<"copy", Len(heap) + 1>>) /\ Returns(Len(walk))
    BY <1>2 DEF Takes
  <2> QED
    BY <1>2, <1>3, <1>4, <1>8, <2>1, <2>2, OrderGoes
<1> QED
  BY <1>8, <1>9, <1>10 DEF DInv

LEMMA AscendKeeps ==
  ASSUME DInv, EInv', Ascend
  PROVE  DInv'
<1>1. CASE Len(walk) # 1
  <2>1. /\ Takes(Len(walk) - 1, <<"copy", Frame.at>>, heap) /\ Finished
        /\ Decoding /\ Len(walk) - 1 \in DOMAIN walk
        /\ phase' = phase /\ UNCHANGED <<to, kindOf, seen, open, jsval, source, built>>
    BY <1>1, AscendTakes
  <2>2. Len(walk) - 1 # Len(walk)
    <3>1. Len(walk) \in Nat
      BY DEF DInv, WalkStands
    <3> QED
      BY <3>1
  <2>3. HeapStands' /\ TableStands' /\ WalkStands' /\ BuiltInOrder' /\ PathPrecedes'
    BY <2>1, <2>2, NothingBuilt
  <2> QED
    BY <2>3 DEF DInv
<1>2. CASE Len(walk) = 1
  <2>1. /\ phase = "decode" /\ walk # <<>> /\ Finished /\ phase' = "done" /\ walk' = <<>>
        /\ UNCHANGED <<to, kindOf, seen, open, jsval, source, built, heap, swallowed>>
    BY <1>2 DEF Ascend, Decoding, encoder
  <2>2. /\ EncoderTyped /\ HeapStands /\ TableStands /\ WalkStands /\ BuiltInOrder
    BY DEF DInv, EInv
  <2>3. /\ \A k : Kind(k)' = Kind(k)
        /\ \A p, j, c : Node(p, j, c)' <=> Node(p, j, c)
        /\ Built' = Built
    BY <2>1 DEF Kind, Node, Built
  <2>4. HeapStands'
    BY <2>1, <2>2 DEF HeapStands, KidsStand, Held, ValuesIn, CopiesIn
  <2>5. TableStands'
    BY <2>1, <2>2, <2>3 DEF TableStands
  <2>6. WalkStands' /\ PathPrecedes'
    BY <2>1 DEF WalkStands, PathPrecedes
  <2>7. BuiltInOrder'
    <3>1. ASSUME NEW p, NEW j, NEW c, Node(p, j, c)
          PROVE  Passed(p, j) /\ Passed(p, j)'
      <4>1. Frame = walk[1] /\ DOMAIN walk = {1} /\ Frame.next = Len(jsval[Frame.id]) + 1
        <5>1. Frame = walk[1] /\ DOMAIN walk = 1..1
          BY <1>2, <2>1, <2>2, TopFacts, WalkFacts
        <5> QED
          BY <2>1, <2>2, <5>1, TopFacts
      <4>2. p = Frame.id => j < Frame.next
        BY <2>2, <3>1, <4>1 DEF Node, EncoderTyped
      <4> QED
        BY <2>1, <4>1, <4>2 DEF Passed
    <3> QED
      BY <2>1, <2>2, <2>3, <3>1 DEF BuiltInOrder
  <2> QED
    BY <2>4, <2>5, <2>6, <2>7 DEF DInv
<1> QED
  BY <1>1, <1>2

LEMMA DescendDoes ==
  ASSUME DInv, Descend
  PROVE  \E c : /\ Deepens(c) /\ c \in DOMAIN seen /\ c \in Id /\ c \notin Built
                /\ Kind(c) # "refusing" /\ Frame.id \in Built /\ Register(c)
                /\ heap' = WithCopy(c) /\ phase = "decode" /\ phase' = "decode"
                /\ UNCHANGED <<to, kindOf, seen, open, jsval, source, swallowed>>
<1> DEFINE item == jsval[Frame.id][Frame.next]
           c == item[2]
<1>1. /\ Decoding /\ ~Finished /\ item[1] = "node" /\ kindOf[seen[c]] # "bytes"
      /\ heap' = WithCopy(c) /\ Register(c) /\ walk' = Append(walk, NewFrame(c))
      /\ phase' = phase /\ UNCHANGED <<to, kindOf, seen, open, jsval, source, swallowed>>
  BY DEF Descend, encoder
<1>2. item = <<"node", c>>
  <2>1. EncoderTyped /\ WalkStands /\ walk # <<>>
    BY <1>1 DEF DInv, EInv, Decoding
  <2>2. Frame.next \in DOMAIN jsval[Frame.id] /\ jsval[Frame.id] \in Seq(Item) /\ item \in Item
    BY <1>1, <2>1, TopFacts, WalkFacts
  <2> HIDE DEF item
  <2> QED
    BY <1>1, <2>2, ItemFacts
<1> HIDE DEF c
<1>3. /\ Node(Frame.id, Frame.next, c) /\ c \in DOMAIN seen /\ c \in Id /\ c \notin Built
      /\ Kind(c) # "refusing" /\ Frame.id \in Built
  BY <1>1, <1>2, NodeIsUnbuilt
<1>4. Deepens(c)
  BY <1>1, <1>3 DEF Deepens, Decoding, Kind
<1> QED
  BY <1>1, <1>3, <1>4 DEF Decoding

LEMMA DescendKeeps ==
  ASSUME DInv, EInv', Descend
  PROVE  DInv'
<1>1. PICK c : /\ Deepens(c) /\ c \in DOMAIN seen /\ c \in Id /\ c \notin Built
               /\ Kind(c) # "refusing" /\ Frame.id \in Built /\ Register(c)
               /\ heap' = WithCopy(c) /\ phase = "decode" /\ phase' = "decode"
               /\ UNCHANGED <<to, kindOf, seen, open, jsval, source, swallowed>>
  BY DescendDoes
<1>2. /\ EncoderTyped /\ HeapStands /\ TableStands /\ WalkStands /\ TreeIsTree /\ BuiltInOrder
      /\ IdsAreInOrder /\ PathPrecedes
  BY DEF DInv, EInv
<1>3. /\ Extends(heap') /\ Len(heap') = Len(heap) + 1 /\ heap'[Len(heap) + 1].kind = Kind(c)
      /\ DOMAIN heap = 1..Len(heap) /\ DOMAIN heap \subseteq DOMAIN heap'
      /\ \A a \in 1..Len(heap) : heap'[a].kind = heap[a].kind
      /\ \A a \in DOMAIN heap' : KidsStand(heap'[a], Len(heap'))
  BY <1>1, <1>2, CopyAllocated DEF Extends
<1>4. /\ TableStands' /\ Built' = Built \cup {c} /\ built'[c] = Len(heap) + 1
      /\ \A id \in Built : built'[id] = built[id]
      /\ Len(heap) + 1 \in Object
  <2>1. Root \in Built \cup {c} /\ phase' # "encode"
    BY <1>1, <1>2 DEF TableStands
  <2> QED
    BY <1>1, <1>2, <1>3, <2>1, TableGrows
<1>5. HeapStands'
  <2>1. swallowed' \subseteq DOMAIN heap'
    BY <1>1, <1>2, <1>3 DEF HeapStands
  <2>2. heap' \in Seq(Copy)
    BY <1>3 DEF Extends
  <2>3. \A a \in DOMAIN heap' : KidsStand(heap[a], Len(heap))'
    BY <1>3 DEF KidsStand, Held, ValuesIn, CopiesIn
  <2> QED
    BY <2>1, <2>2, <2>3 DEF HeapStands
<1>6. WalkStands'
  <2>1. \A k \in DOMAIN walk : built'[walk[k].id] = built[walk[k].id]
    BY <1>4, ActivationFacts
  <2> QED
    BY <1>1, <1>2, <1>3, <1>4, <2>1, WalkDeepens
<1>7. BuiltInOrder' /\ PathPrecedes'
  BY <1>1, <1>2, <1>4, OrderDeepens, PrecedesDeepens
<1> QED
  BY <1>4, <1>5, <1>6, <1>7 DEF DInv

LEMMA StartDoes ==
  ASSUME DInv, Start
  PROVE  /\ phase' = "decode" /\ heap' = WithCopy(Root) /\ Register(Root)
         /\ walk' = <<NewFrame(Root)>> /\ UNCHANGED <<to, kindOf, seen, jsval, source, swallowed>>
         /\ heap = <<>> /\ Built = {} /\ swallowed = {}
         /\ Root \in DOMAIN seen /\ Root \in Id /\ Kind(Root) \notin Leaflike
         /\ source[Root].depth = 0
BY SeenFacts DEF Start, DInv, EInv, TableStands, PathIsOpen

LEMMA StartKeeps ==
  ASSUME DInv, EInv', Start
  PROVE  DInv'
<1>1. /\ phase' = "decode" /\ heap' = WithCopy(Root) /\ Register(Root)
      /\ walk' = <<NewFrame(Root)>> /\ UNCHANGED <<to, kindOf, seen, jsval, source, swallowed>>
      /\ heap = <<>> /\ Built = {} /\ swallowed = {}
      /\ Root \in DOMAIN seen /\ Root \in Id /\ Kind(Root) \notin Leaflike
      /\ source[Root].depth = 0
  BY StartDoes
<1>2. EncoderTyped /\ HeapStands /\ TableStands /\ TreeIsTree
  BY DEF DInv, EInv
<1>3. Len(heap) = 0 /\ 0 + 1 = 1
  BY <1>1
<1>4. /\ Extends(heap') /\ Len(heap') = 1 /\ heap'[1].kind = Kind(Root)
      /\ \A a \in DOMAIN heap' : KidsStand(heap'[a], Len(heap'))
  <2>1. /\ Extends(heap') /\ Len(heap') = Len(heap) + 1
        /\ heap'[Len(heap) + 1].kind = Kind(Root)
        /\ \A a \in DOMAIN heap' : KidsStand(heap'[a], Len(heap'))
    BY <1>1, <1>2, CopyAllocated
  <2> QED
    BY <1>3, <2>1
<1>5. /\ TableStands' /\ Built' = {Root} /\ built'[Root] = 1 /\ 1 \in Object
  <2>1. /\ Root \notin Built /\ Root \in Built \cup {Root} /\ phase' # "encode"
        /\ Kind(Root) # "refusing"
        /\ Len(heap') = Len(heap) + 1 /\ heap'[Len(heap) + 1].kind = Kind(Root)
        /\ \A a \in 1..Len(heap) : heap'[a].kind = heap[a].kind
    BY <1>1, <1>3, <1>4 DEF Leaflike
  <2>2. /\ TableStands' /\ Built' = Built \cup {Root} /\ built'[Root] = Len(heap) + 1
        /\ Len(heap) + 1 \in Object
    BY <1>1, <1>2, <2>1, TableGrows
  <2> QED
    BY <1>1, <1>3, <2>2
<1>6. HeapStands'
  <2>1. heap' \in Seq(Copy) /\ swallowed' \subseteq DOMAIN heap'
    BY <1>1, <1>4 DEF Extends
  <2>2. \A a \in DOMAIN heap' : KidsStand(heap[a], Len(heap))'
    BY <1>4 DEF KidsStand, Held, ValuesIn, CopiesIn
  <2> QED
    BY <2>1, <2>2 DEF HeapStands
<1>7. PICK f : f = NewFrame(Root)
  OBVIOUS
<1>8. f.id = Root /\ f.at = 1 /\ f.next = 1 /\ f.key = NoKey /\ f \in Activation
  BY <1>1, <1>3, <1>5, <1>7 DEF NewFrame, Activation
<1>9. walk' = <<f>> /\ walk' \in Seq(Activation) /\ DOMAIN walk' = {1} /\ walk'[1] = f /\ Len(walk') = 1
  BY <1>1, <1>7, <1>8
<1>10. /\ \A k : Kind(k)' = Kind(k)
       /\ \A p, j, c : Node(p, j, c)' <=> Node(p, j, c)
  BY <1>1 DEF Kind, Node
<1>11. Decodes(f, 1)'
  <2>1. jsval[Root] \in Seq(Item) /\ 1 \in 1..(Len(jsval[Root]) + 1) /\ ~(1 % 2 = 0)
    BY <1>1, <1>2 DEF EncoderTyped
  <2>2. CopiesIn({NoKey}) = {}
    BY CopiesOf DEF NoKey
  <2>3. /\ f.id \in DOMAIN seen' /\ Kind(f.id)' # "bytes"
        /\ source'[f.id].depth = 1 - 1 /\ source'[f.id].depth < MaxMarshalDepth
        /\ f.at # 0 /\ built'[f.id] = f.at
    BY <1>1, <1>5, <1>8, <1>10, MarshalAssumption DEF Leaflike
  <2>4. /\ f.next \in 1..(Len(jsval'[f.id]) + 1)
        /\ f.key # NoKey <=> (Kind(f.id)' \in Keyed /\ f.next % 2 = 0)
        /\ CopiesIn({f.key}) \subseteq DOMAIN heap'
    BY <1>1, <1>8, <2>1, <2>2
  <2> QED
    BY <2>3, <2>4 DEF Decodes, Keyed
<1>12. WalkStands'
  <2>1. \A k \in DOMAIN walk' : Decodes(walk[k], k)'
    BY <1>9, <1>11
  <2>2. /\ \A k \in DOMAIN walk' : k + 1 \notin DOMAIN walk'
        /\ \A k, l \in DOMAIN walk' : ~(k < l)
    BY <1>9
  <2> QED
    BY <1>1, <1>9, <2>1, <2>2 DEF WalkStands
<1>13. BuiltInOrder'
  <2>1. ASSUME NEW p, NEW j, NEW c, Node(p, j, c)
        PROVE  c \in Built' <=> p \in Built' /\ Passed(p, j)'
    <3>1. p < c /\ p \in DOMAIN seen /\ DOMAIN seen = 1..Len(seen) /\ j \in Nat /\ j >= 1
      BY <1>2, <2>1, SeenFacts DEF TreeIsTree, Node, EncoderTyped
    <3>2. c # Root
      BY <3>1 DEF Root
    <3>3. p = Root => ~Passed(p, j)'
      BY <1>8, <1>9, <3>1 DEF Passed
    <3> QED
      BY <1>5, <3>2, <3>3
  <2> QED
    BY <1>10, <2>1 DEF BuiltInOrder
<1>14. PathPrecedes'
  BY <1>9 DEF PathPrecedes
<1> QED
  BY <1>5, <1>6, <1>12, <1>13, <1>14 DEF DInv

(* Nothing of the decoder's moves while the encoder works, or is given up. *)
LEMMA DecoderRests ==
  ASSUME DInv, EInv', UNCHANGED <<to, kindOf, built, heap, swallowed>>,
         \/ phase = "encode" /\ phase' = "encode" /\ walk' = walk
         \/ phase' = "raised" /\ walk' = <<>>,
         \A k \in DOMAIN seen : k \in DOMAIN seen' /\ seen'[k] = seen[k]
  PROVE  DInv'
<1>1. EncoderTyped /\ HeapStands /\ TableStands /\ WalkStands
  BY DEF DInv, EInv
<1>2. walk' = <<>> /\ phase' \notin {"decode", "done"}
  BY <1>1 DEF WalkStands
<1>3. HeapStands'
  BY <1>1 DEF HeapStands, KidsStand, Held, ValuesIn, CopiesIn
<1>4. TableStands'
  <2>1. Built' = Built /\ \A k \in DOMAIN seen : Kind(k)' = Kind(k)
    BY DEF Built, Kind
  <2>2. phase' = "encode" => phase = "encode"
    OBVIOUS
  <2> QED
    BY <1>1, <1>2, <2>1, <2>2 DEF TableStands
<1>5. WalkStands'
  BY <1>2 DEF WalkStands
<1>6. BuiltInOrder' /\ PathPrecedes'
  BY <1>2 DEF BuiltInOrder, PathPrecedes
<1> QED
  BY <1>3, <1>4, <1>5, <1>6 DEF DInv

LEMMA Stutters ==
  ASSUME DInv, EInv', UNCHANGED vars
  PROVE  DInv'
<1>1. UNCHANGED <<phase, to, kindOf, seen, open, jsval, source, built, heap, walk, swallowed>>
  BY DEF vars, encoder, decoder
<1>2. /\ \A k : Kind(k)' = Kind(k)
      /\ \A p, j, c : Node(p, j, c)' <=> Node(p, j, c)
      /\ \A p, j : Passed(p, j)' <=> Passed(p, j)
      /\ \A f, n : Decodes(f, n)' <=> Decodes(f, n)
      /\ Built' = Built
  BY <1>1 DEF Kind, Node, Passed, Decodes, Built, CopiesIn
<1>3. HeapStands'
  BY <1>1 DEF DInv, HeapStands, KidsStand, Held, ValuesIn, CopiesIn
<1>4. TableStands'
  BY <1>1, <1>2 DEF DInv, TableStands
<1>5. WalkStands'
  BY <1>1, <1>2 DEF DInv, WalkStands
<1>6. BuiltInOrder' /\ PathPrecedes'
  BY <1>1, <1>2 DEF DInv, BuiltInOrder, PathPrecedes
<1> QED
  BY <1>3, <1>4, <1>5, <1>6 DEF DInv

LEMMA InitStands == Init => DInv
<1> SUFFICES ASSUME Init PROVE DInv
  OBVIOUS
<1>1. EInv
  BY InitEncodes
<1>2. phase = "encode" /\ heap = <<>> /\ walk = <<>> /\ swallowed = {} /\ built = [id \in Id |-> 0]
  BY DEF Init
<1>3. Built = {} /\ Len(heap) = 0 /\ built \in [Id -> 0..Len(heap)]
  BY <1>2 DEF Built
<1>4. TableStands
  BY <1>2, <1>3, FS_EmptySet DEF TableStands
<1>5. HeapStands /\ WalkStands /\ BuiltInOrder /\ PathPrecedes
  BY <1>2 DEF HeapStands, WalkStands, BuiltInOrder, PathPrecedes
<1> QED
  BY <1>1, <1>4, <1>5 DEF DInv

LEMMA StepStands ==
  ASSUME DInv, [Next]_vars
  PROVE  DInv'
<1>1. EInv' /\ EncoderTyped /\ PathIsOpen
  <2>1. EInv
    BY DEF DInv
  <2> QED
    BY <2>1, EncodesOn DEF EInv
<1>2. ASSUME NEW v \in SourceValue, Read(v) PROVE DInv'
  <2>1. ReadDoes(v, Len(seen) + 1)
    BY <1>1, <1>2, ReadWrites
  <2>2. phase = "encode" /\ UNCHANGED <<phase, to, kindOf, built, heap, walk, swallowed>>
    BY <2>1 DEF ReadDoes, decoder
  <2>3. \A k \in DOMAIN seen : k \in DOMAIN seen' /\ seen'[k] = seen[k]
    BY <2>1 DEF ReadDoes, Writes, Stays, Enrols
  <2> QED
    BY <1>1, <2>2, <2>3, DecoderRests
<1>3. CASE Close
  <2>1. phase = "encode" /\ UNCHANGED <<phase, to, kindOf, seen, built, heap, walk, swallowed>>
    BY <1>3 DEF Close, decoder
  <2> QED
    BY <1>1, <2>1, DecoderRests
<1>4. CASE Raise
  <2>1. phase' = "raised" /\ walk' = <<>> /\ UNCHANGED <<to, kindOf, seen, built, heap, swallowed>>
    BY <1>4 DEF Raise
  <2> QED
    BY <1>1, <2>1, DecoderRests
<1>5. CASE UNCHANGED vars
  BY <1>1, <1>5, Stutters
<1> QED
  BY <1>1, <1>2, <1>3, <1>4, <1>5, StartKeeps, DescendKeeps, BytesKeep, ValueKeeps, AscendKeeps
     DEF Next, Ended

(***************************************************************************)
(* What the decoder's invariant says holds of every copy of every graph.   *)
(***************************************************************************)
LEMMA DecoderInvariance == Spec => []DInv
BY InitStands, StepStands, PTL DEF Spec

-----------------------------------------------------------------------------
(* Theorems *)

(***************************************************************************)
(* marshal.rs keeps its state in its types: ids are those given out, no    *)
(* activation of the encoder or the decoder is nested deeper than          *)
(* MAX_MARSHAL_DEPTH, a built entry is a copy that exists, and a container *)
(* only ever holds what is a value to the other language.                  *)
(***************************************************************************)
THEOREM TypeCorrect == Spec => []TypeOK
<1>1. DInv => TypeOK
  <2> SUFFICES ASSUME DInv PROVE TypeOK
    OBVIOUS
  <2>1. EncoderTyped /\ HeapStands /\ TableStands /\ WalkStands
    BY DEF DInv, EInv
  <2>2. walk \in Seq([id : Id, at : DOMAIN heap, next : Nat, key : CopyValue \cup {NoKey}])
    <3> DEFINE Narrow == [id : Id, at : DOMAIN heap, next : Nat, key : CopyValue \cup {NoKey}]
    <3>1. /\ Len(walk) \in Nat /\ DOMAIN walk = 1..Len(walk)
      BY <2>1, WalkFacts
    <3>2. ASSUME NEW k \in DOMAIN walk, NEW f, f = walk[k]
          PROVE  f \in Narrow
      <4>1. f \in Activation /\ f.at \in DOMAIN heap
        BY <3>2, ActivationFacts
      <4> QED
        BY <4>1 DEF Activation
    <3>3. walk \in [1..Len(walk) -> Narrow]
      <4>1. walk \in Seq(Activation)
        BY <2>1 DEF WalkStands
      <4>2. walk = [k \in 1..Len(walk) |-> walk[k]]
        BY <4>1
      <4> HIDE DEF Narrow
      <4> QED
        BY <3>1, <3>2, <4>2
    <3> HIDE DEF Narrow
    <3>4. walk \in Seq(Narrow)
      BY <3>1, <3>3, Numbered
    <3> QED
      BY <3>4 DEF Narrow
  <2>3. Len(walk) <= MaxMarshalDepth
    BY <2>1, WalkFacts
  <2> QED
    BY <2>1, <2>2, <2>3 DEF TypeOK, EncoderTyped, Reading, HeapStands, TableStands
<1> QED
  BY <1>1, DecoderInvariance, PTL

-----------------------------------------------------------------------------
(* What the collector sees *)

(* S holds the activations' copies and keys and what was swallowed, and all *)
(* that these hold.                                                         *)
Guards(S) ==
    /\ S \subseteq DOMAIN heap
    /\ \A k \in DOMAIN walk : walk[k].at \in S /\ CopiesIn({walk[k].key}) \subseteq S
    /\ swallowed \subseteq S
    /\ \A b \in S : Held(heap[b]) \subseteq S

Rooted ==
    phase = "decode" =>
        \A S : Guards(S) => \A id \in Built : built[id] \in S

LEMMA GuardsAreMarks ==
  ASSUME DInv, NEW S, S \subseteq DOMAIN heap
  PROVE  Guards(S) <=> /\ Locals \cup swallowed \subseteq S
                       /\ \A b \in S : Held(heap[b]) \subseteq S
<1>1. (\A k \in DOMAIN walk : CopiesIn({walk[k].key}) \subseteq S)
        <=> CopiesIn({walk[k].key : k \in DOMAIN walk}) \subseteq S
  <2>1. \A a : a \in CopiesIn({walk[k].key : k \in DOMAIN walk})
                 <=> \E k \in DOMAIN walk : a \in CopiesIn({walk[k].key})
    <3>1. ASSUME NEW a
          PROVE  a \in CopiesIn({walk[k].key : k \in DOMAIN walk})
                   <=> \E k \in DOMAIN walk : walk[k].key[1] = "copy" /\ a = walk[k].key[2]
      BY CopiesOf
    <3>2. ASSUME NEW a, NEW k
          PROVE  a \in CopiesIn({walk[k].key}) <=> (walk[k].key[1] = "copy" /\ a = walk[k].key[2])
      BY CopiesOf
    <3> QED
      BY <3>1, <3>2
  <2> QED
    BY <2>1
<1>2. (\A k \in DOMAIN walk : walk[k].at \in S) <=> {walk[k].at : k \in DOMAIN walk} \subseteq S
  OBVIOUS
<1> QED
  BY <1>1, <1>2 DEF Guards, Locals

(* Nothing is lost from sight when an activation takes what it is given:    *)
(* what was in sight of the collector is, and so is x.                      *)
LEMMA TakenIsGuarded ==
  ASSUME DInv, NEW m, NEW x, NEW copies, Takes(m, x, copies), phase = "decode",
         NEW S, Guards(S)',
         \A k \in DOMAIN walk : k > m => CopiesIn({x}) = {walk[k].at} /\ walk[k].key = NoKey
  PROVE  /\ CopiesIn({x}) \subseteq S
         /\ \E T : Guards(T) /\ T \subseteq S
<1> DEFINE f == walk[m]
           T == S \cap DOMAIN heap
<1>1. /\ m \in DOMAIN walk /\ x \in CopyValue /\ Extends(copies)
      /\ MayTake(copies, f, x) /\ copies[f.at] = heap[f.at]
      /\ GraftDoes(m, f, x, copies) /\ GoesOn(m, x)
      /\ DOMAIN heap' = DOMAIN copies
  BY DEF Takes
<1>2. /\ m \in Nat /\ DOMAIN walk = 1..Len(walk) /\ Len(walk) \in Nat
      /\ DOMAIN walk' = 1..m /\ m \in DOMAIN walk'
      /\ \A k \in 1..(m - 1) : walk'[k] = walk[k]
      /\ walk'[m].at = f.at
  <2>1. EncoderTyped /\ WalkStands
    BY DEF DInv, EInv
  <2> QED
    BY <1>1, <2>1, WalkFacts DEF GoesOn
<1>3. /\ f.at \in DOMAIN heap /\ heap[f.at].kind = Kind(f.id)
      /\ KidsStand(heap[f.at], Len(heap)) /\ CopiesIn({f.key}) \subseteq DOMAIN heap
      /\ f.key # NoKey => Kind(f.id) \in Keyed
  <2>1. /\ f.at \in DOMAIN heap /\ heap[f.at].kind = Kind(f.id)
        /\ KidsStand(heap[f.at], Len(heap)) /\ CopiesIn({f.key}) \subseteq DOMAIN heap
    BY <1>1, ActivationFacts
  <2>2. f.key # NoKey => Kind(f.id) \in Keyed
    BY <1>1 DEF DInv, WalkStands, Decodes
  <2> QED
    BY <2>1, <2>2
<1>4. /\ f.at \in S /\ Held(heap'[f.at]) \subseteq S /\ CopiesIn({walk'[m].key}) \subseteq S
      /\ swallowed' \subseteq S
  BY <1>2 DEF Guards
<1>5. CopiesIn({NoKey}) = {}
  BY CopiesOf DEF NoKey
<1>6. /\ CopiesIn({x, f.key}) = CopiesIn({x}) \cup CopiesIn({f.key})
  <2>1. \A a : a \in CopiesIn({x, f.key}) <=> a \in CopiesIn({x}) \/ a \in CopiesIn({f.key})
    BY CopiesOf
  <2> QED
    BY <2>1
<1> HIDE DEF f
<1>7. swallowed \subseteq S /\ Held(heap[f.at]) \cup CopiesIn({x, f.key}) \subseteq S
  <2>1. CASE heap[f.at].kind = "array"
    <3>1. swallowed' = swallowed
      BY <1>1, <2>1 DEF GraftDoes
    <3>2. f.key = NoKey
      BY <1>3, <2>1 DEF Keyed
    <3>3. Held(copies[f.at]) \subseteq Held(heap'[f.at]) /\ CopiesIn({x}) \subseteq Held(heap'[f.at])
      <4>1. PICK c : c = heap'[f.at]
        OBVIOUS
      <4>2. Filled(c, copies, f, x) /\ copies[f.at].kind = "array" /\ MayTake(copies, f, x)
        BY <1>1, <2>1, <4>1 DEF GraftDoes
      <4>3. Held(copies[f.at]) \subseteq Held(c) /\ CopiesIn({x}) \subseteq Held(c)
        BY <4>2, ArrayHolds
      <4> QED
        BY <4>1, <4>3
    <3>4. CopiesIn({f.key}) = {}
      BY <1>5, <3>2
    <3> QED
      BY <1>1, <1>4, <1>6, <3>1, <3>3, <3>4
  <2>2. CASE heap[f.at].kind # "array"
    <3>1. swallowed' = swallowed \cup ((Held(heap[f.at]) \cup CopiesIn({x, f.key}))
                                        \ (Held(heap'[f.at]) \cup CopiesIn({walk'[m].key})))
      BY <1>1, <2>2 DEF GraftDoes
    <3> QED
      BY <1>4, <3>1
  <2> QED
    BY <2>1, <2>2
<1>8. ASSUME NEW k \in DOMAIN walk
      PROVE  walk[k].at \in T /\ CopiesIn({walk[k].key}) \subseteq T
  <2>1. walk[k].at \in DOMAIN heap /\ CopiesIn({walk[k].key}) \subseteq DOMAIN heap
    BY ActivationFacts
  <2>2. CASE k < m
    <3>1. k \in DOMAIN walk' /\ walk'[k] = walk[k]
      BY <1>2, <2>2
    <3> QED
      BY <2>1, <3>1 DEF Guards
  <2>3. CASE k = m
    BY <1>4, <1>6, <1>7, <2>1, <2>3 DEF f
  <2>4. CASE k > m
    BY <1>5, <1>6, <1>7, <2>1, <2>4
  <2>5. k < m \/ k = m \/ k > m
    BY <1>2
  <2> QED
    BY <2>2, <2>3, <2>4, <2>5
<1>9. ASSUME NEW b \in T
      PROVE  Held(heap[b]) \subseteq T
  <2>1. Held(heap[b]) \subseteq DOMAIN heap
    BY <1>9 DEF DInv, HeapStands, KidsStand
  <2>2. CASE b = f.at
    BY <1>7, <2>1, <2>2
  <2>3. CASE b # f.at
    <3>1. heap'[b] = heap[b]
      BY <1>1, <1>9, <2>3 DEF GraftDoes, Extends
    <3>2. Held(heap'[b]) \subseteq S
      BY <1>9 DEF Guards
    <3> QED
      BY <2>1, <3>1, <3>2
  <2> QED
    BY <2>2, <2>3
<1>10. swallowed \subseteq T
  BY <1>7 DEF DInv, HeapStands
<1>11. Guards(T)
  BY <1>8, <1>9, <1>10 DEF Guards
<1> QED
  BY <1>6, <1>7, <1>11

LEMMA RootedSteps ==
  ASSUME DInv, DInv', Rooted, [Next]_vars
  PROVE  Rooted'
<1> SUFFICES ASSUME phase' = "decode", NEW S, Guards(S)', NEW id \in Built'
             PROVE  built'[id] \in S
  BY DEF Rooted
<1>1. ASSUME NEW m, NEW x, Takes(m, x, heap), built' = built, phase = "decode",
             \A k \in DOMAIN walk : k > m => CopiesIn({x}) = {walk[k].at} /\ walk[k].key = NoKey
      PROVE  built'[id] \in S
  <2>1. PICK T : Guards(T) /\ T \subseteq S
    BY <1>1, TakenIsGuarded
  <2>2. id \in Built
    BY <1>1 DEF Built
  <2> QED
    BY <1>1, <2>1, <2>2 DEF Rooted
<1>2. Len(walk) \in Nat /\ DOMAIN walk = 1..Len(walk)
  BY DEF DInv, WalkStands
<1>3. CASE DecodeValue
  <2>1. /\ Takes(Len(walk), ValueOf(jsval[Frame.id][Frame.next]), heap)
        /\ phase' = phase /\ built' = built
    BY <1>3, ValueTakes
  <2>2. \A k \in DOMAIN walk : ~(k > Len(walk))
    BY <1>2
  <2> QED
    BY <1>1, <2>1, <2>2
<1>4. CASE DecodeBytes
  <2>1. PICK c : c = jsval[Frame.id][Frame.next][2]
    OBVIOUS
  <2>2. /\ Takes(Len(walk), <<"copy", Len(heap) + 1>>, WithCopy(c))
        /\ c \in DOMAIN seen /\ Register(c) /\ phase' = phase
    BY <1>4, <2>1, BytesTake
  <2>3. /\ CopiesIn({<<"copy", Len(heap) + 1>>}) \subseteq S
        /\ \E T : Guards(T) /\ T \subseteq S
    <3>1. \A k \in DOMAIN walk : ~(k > Len(walk))
      BY <1>2
    <3>2. phase = "decode"
      BY <2>2
    <3>3. PICK copies : copies = WithCopy(c)
      OBVIOUS
    <3>4. Takes(Len(walk), <<"copy", Len(heap) + 1>>, copies)
      BY <2>2, <3>3
    <3> QED
      BY <3>1, <3>2, <3>4, TakenIsGuarded
  <2>4. Len(heap) + 1 \in S
    BY <2>3, CopiesOf
  <2>5. /\ id \in Id /\ c \in Id /\ built \in [Id -> 0..Len(heap)]
    BY <2>2, SeenFacts DEF Built, DInv, EInv, TableStands
  <2>6. CASE id = c
    BY <2>2, <2>4, <2>5, <2>6 DEF Register
  <2>7. CASE id # c
    <3>1. built'[id] = built[id] /\ id \in Built
      BY <2>2, <2>5, <2>7 DEF Register, Built
    <3> QED
      BY <2>2, <2>3, <3>1 DEF Rooted
  <2> QED
    BY <2>6, <2>7
<1>5. CASE Ascend
  <2>1. Len(walk) # 1
    BY <1>5 DEF Ascend
  <2>2. /\ Takes(Len(walk) - 1, <<"copy", Frame.at>>, heap) /\ Finished
        /\ Decoding /\ phase' = phase /\ built' = built
    BY <1>5, <2>1, AscendTakes
  <2>3. CopiesIn({<<"copy", Frame.at>>}) = {Frame.at}
    <3>1. PICK n : n = Frame.at
      OBVIOUS
    <3>2. ASSUME NEW a PROVE a \in CopiesIn({<<"copy", n>>}) <=> a = n
      <4>1. PICK y : y = <<"copy", n>>
        OBVIOUS
      <4>2. y[1] = "copy" /\ y[2] = n
        BY <4>1
      <4>3. a \in CopiesIn({y}) <=> \E z \in {y} : z[1] = "copy" /\ a = z[2]
        BY CopiesOf
      <4>4. (\E z \in {y} : z[1] = "copy" /\ a = z[2]) <=> a = n
        BY <4>2
      <4> QED
        BY <4>1, <4>3, <4>4
    <3>3. CopiesIn({<<"copy", n>>}) = {n}
      BY <3>2
    <3> QED
      BY <3>1, <3>3
  <2>4. Frame = walk[Len(walk)] /\ Frame.key = NoKey
    <3>1. EncoderTyped /\ WalkStands /\ ItemsStand /\ walk # <<>> /\ phase = "decode" /\ open = <<>>
      BY <2>2 DEF DInv, EInv, Decoding, PathIsOpen
    <3>2. Frame = walk[Len(walk)] /\ Len(walk) \in DOMAIN walk
      BY <3>1, TopFacts
    <3>3. Decodes(Frame, Len(walk)) /\ Frame.next = Len(jsval[Frame.id]) + 1
      BY <2>2, <3>1, <3>2, TopFacts DEF WalkStands
    <3>4. Kind(Frame.id) \in Keyed => Len(jsval[Frame.id]) % 2 = 0
      <4>1. Frame.id \in DOMAIN seen /\ phase # "raised" /\ \A k \in DOMAIN open : FALSE
        BY <3>1, <3>3 DEF Decodes
      <4> QED
        BY <3>1, <4>1 DEF ItemsStand
    <3>5. Len(jsval[Frame.id]) \in Nat
      BY <3>1, <3>3 DEF Decodes, EncoderTyped
    <3>6. (Len(jsval[Frame.id]) + 1) % 2 = 0 <=> Len(jsval[Frame.id]) % 2 # 0
      BY <3>5, ParityTurns
    <3> QED
      BY <3>2, <3>3, <3>4, <3>6 DEF Decodes
  <2>5. \A k \in DOMAIN walk : k > Len(walk) - 1 =>
            CopiesIn({<<"copy", Frame.at>>}) = {walk[k].at} /\ walk[k].key = NoKey
    <3>1. \A k \in DOMAIN walk : k > Len(walk) - 1 => k = Len(walk)
      BY <1>2
    <3> QED
      BY <2>3, <2>4, <3>1
  <2> QED
    BY <1>1, <2>2, <2>5 DEF Decoding
<1>6. CASE Descend
  <2>1. PICK c : /\ Deepens(c) /\ c \in DOMAIN seen /\ c \in Id /\ Register(c)
                 /\ heap' = WithCopy(c) /\ phase = "decode" /\ swallowed' = swallowed
    BY <1>6, DescendDoes
  <2>2. /\ EncoderTyped /\ HeapStands /\ TableStands /\ WalkStands
        /\ built \in [Id -> 0..Len(heap)] /\ walk \in Seq(Activation)
    BY DEF DInv, EInv, TableStands, WalkStands
  <2>3. /\ Extends(heap') /\ Len(heap) + 1 \notin DOMAIN heap
        /\ walk' = Append(walk, NewFrame(c))
    BY <2>1, <2>2, CopyAllocated DEF Deepens
  <2>4. /\ \A k \in DOMAIN walk : k \in DOMAIN walk' /\ walk'[k] = walk[k]
        /\ Len(walk) + 1 \in DOMAIN walk' /\ walk'[Len(walk) + 1].at = Len(heap) + 1
    <3>1. NewFrame(c).at = Len(heap) + 1
      BY DEF NewFrame
    <3>2. walk' \in Seq(Activation)
      BY DEF DInv, WalkStands
    <3> HIDE DEF NewFrame
    <3> QED
      BY <2>2, <2>3, <3>1
  <2>5. Guards(S \cap DOMAIN heap)
    <3> DEFINE T == S \cap DOMAIN heap
    <3>1. \A k \in DOMAIN walk : walk[k].at \in T /\ CopiesIn({walk[k].key}) \subseteq T
      <4>1. \A k \in DOMAIN walk : walk[k].at \in DOMAIN heap /\ CopiesIn({walk[k].key}) \subseteq DOMAIN heap
        BY ActivationFacts
      <4> QED
        BY <2>4, <4>1 DEF Guards
    <3>2. swallowed \subseteq T
      BY <2>1, <2>2 DEF Guards, HeapStands
    <3>3. ASSUME NEW b \in T PROVE Held(heap[b]) \subseteq T
      <4>1. heap'[b] = heap[b]
        BY <2>3, <3>3 DEF Extends
      <4>2. Held(heap'[b]) \subseteq S
        BY <3>3 DEF Guards
      <4>3. Held(heap[b]) \subseteq DOMAIN heap
        BY <2>2, <3>3 DEF HeapStands, KidsStand
      <4> QED
        BY <4>1, <4>2, <4>3
    <3> QED
      BY <3>1, <3>2, <3>3 DEF Guards
  <2>6. Len(heap) + 1 \in S
    BY <2>4 DEF Guards
  <2>7. CASE id = c
    BY <2>1, <2>2, <2>6, <2>7 DEF Register
  <2>8. CASE id # c
    <3>1. built'[id] = built[id] /\ id \in Built
      BY <2>1, <2>2, <2>8 DEF Register, Built
    <3> QED
      BY <2>1, <2>5, <3>1 DEF Rooted
  <2> QED
    BY <2>7, <2>8
<1>7. CASE Start
  <2>1. /\ Register(Root) /\ walk' = <<NewFrame(Root)>> /\ heap = <<>> /\ Built = {} /\ Root \in Id
    BY <1>7, StartDoes
  <2>2. walk'[1] = NewFrame(Root) /\ 1 \in DOMAIN walk' /\ NewFrame(Root).at = 1
    BY <2>1 DEF NewFrame
  <2>3. built'[Root] = 1 /\ id = Root
    BY <2>1 DEF Register, Built, DInv, TableStands
  <2> QED
    BY <2>2, <2>3 DEF Guards
<1>8. CASE UNCHANGED vars
  <2>1. UNCHANGED <<phase, built, heap, walk, swallowed>>
    BY <1>8 DEF vars, decoder
  <2>2. Guards(S) /\ id \in Built
    BY <2>1 DEF Guards, Held, ValuesIn, CopiesIn, Built
  <2> QED
    BY <2>1, <2>2 DEF Rooted
<1>9. CASE (\E v \in SourceValue : Read(v)) \/ Close \/ Raise
  BY <1>9 DEF Read, Close, Raise
<1> QED
  BY <1>3, <1>4, <1>5, <1>6, <1>7, <1>8, <1>9 DEF Next, Ended

(***************************************************************************)
(* jsval_to_ruby keeps its table in a Rust Vec the collector does not      *)
(* scan, and says the copies are in its caller's frame or in what that     *)
(* holds: so they are, for graphs of any shape, between any two items, but *)
(* for what a Hash or Set was handed and has not kept.                     *)
(***************************************************************************)
THEOREM BuiltStaysRooted == Spec => []BuiltIsRooted
<1>1. Init => Rooted
  BY DEF Init, Rooted
<1>2. DInv /\ Rooted => BuiltIsRooted
  <2> SUFFICES ASSUME DInv, Rooted, phase = "decode", NEW id \in Id, built[id] # 0
               PROVE  built[id] \in MarkedFrom(Locals \cup swallowed)
    BY DEF BuiltIsRooted
  <2>1. id \in Built /\ built[id] \in DOMAIN heap
    BY BuiltFacts DEF Built, DInv, HeapStands
  <2>2. ASSUME NEW S \in SUBSET DOMAIN heap, Locals \cup swallowed \subseteq S,
               \A b \in S : Held(heap[b]) \subseteq S
        PROVE  built[id] \in S
    <3>1. Guards(S)
      BY <2>2, GuardsAreMarks
    <3> QED
      BY <2>1, <3>1 DEF Rooted
  <2> QED
    BY <2>1, <2>2 DEF MarkedFrom
<1>3. DInv /\ DInv' /\ Rooted /\ [Next]_vars => Rooted'
  BY RootedSteps
<1> QED
  BY <1>1, <1>2, <1>3, DecoderInvariance, PTL DEF Spec

-----------------------------------------------------------------------------
(* References find their copies *)

LEMMA Least ==
  ASSUME NEW n \in Nat, NEW T, T \subseteq 1..n, T # {}
  PROVE  \E k \in T : \A j \in T : k <= j
<1> DEFINE U == {1..k : k \in T}
           R == StrictSubsetOrdering(1..n)
<1>1. IsWellFoundedOn(R, SUBSET (1..n))
  <2>1. IsFiniteSet(1..n)
    BY FS_Interval
  <2>2. FiniteSubsetsOf(1..n) = SUBSET (1..n)
    BY <2>1, FS_FiniteSubsetsOfFinite
  <2> QED
    BY <2>2, FS_StrictSubsetOrderingWellFounded
<1>2. U \subseteq SUBSET (1..n) /\ U # {}
  <2>1. ASSUME NEW k \in T PROVE 1..k \subseteq 1..n
    <3>1. k \in 1..n
      OBVIOUS
    <3> QED
      BY <3>1
  <2> QED
    BY <2>1
<1>3. \E x \in U : \A y \in U : ~(<<y, x>> \in R)
  <2> HIDE DEF R, U
  <2> QED
    BY <1>1, <1>2, WFMin
<1>4. PICK k \in T : \A y \in U : ~(<<y, 1..k>> \in R)
  BY <1>3
<1>5. ASSUME NEW j \in T, ~(k <= j) PROVE FALSE
  <2>1. j \in Nat /\ k \in Nat /\ j < k /\ k <= n
    BY <1>5
  <2>2. 1..j \subseteq 1..k /\ 1..j # 1..k
    <3>1. 1..j \subseteq 1..k /\ k \in 1..k /\ k \notin 1..j
      BY <1>5, <2>1
    <3> QED
      BY <3>1
  <2>3. 1..j \in SUBSET (1..n) /\ 1..k \in SUBSET (1..n)
    BY <2>1
  <2>4. <<1..j, 1..k>> \in R
    BY <2>2, <2>3 DEF StrictSubsetOrdering
  <2> QED
    BY <1>4, <1>5, <2>4
<1> QED
  BY <1>4, <1>5

(* A reference the decoder has come to is to a copy, or to a Proxy that     *)
(* refused to be read.                                                      *)
LEMMA ReferencesResolve ==
  ASSUME DInv, Decoding, ~Finished, NEW r, jsval[Frame.id][Frame.next] = <<"ref", r>>,
         r \in DOMAIN seen
  PROVE  r \in Built \/ Kind(r) = "refusing"
<1> SUFFICES ASSUME r \notin Built, Kind(r) # "refusing"
             PROVE  FALSE
  OBVIOUS
<1>0. /\ EncoderTyped /\ ItemsStand /\ TreeIsTree /\ IdsAreInOrder /\ TableStands /\ WalkStands
      /\ BuiltInOrder /\ PathPrecedes /\ walk # <<>> /\ phase = "decode"
  BY DEF DInv, EInv, Decoding
<1> DEFINE p == Frame.id
           j == Frame.next
           T == {c \in DOMAIN seen : c \notin Built /\ Kind(c) # "refusing"}
<1>1. DOMAIN seen = 1..Len(seen) /\ Len(seen) \in Nat
  BY <1>0, SeenFacts
<1>2. PICK c \in T : \A d \in T : c <= d
  <2>1. r \in T /\ T \subseteq 1..Len(seen)
    BY <1>1
  <2> HIDE DEF T
  <2> QED
    BY <1>1, <2>1, Least
<1>3. c <= r /\ c \in DOMAIN seen /\ c \notin Built /\ Kind(c) # "refusing" /\ c \in Nat /\ r \in Nat
  BY <1>1, <1>2
<1>4. PICK q, i : Node(q, i, c)
  <2>1. c # Root
    BY <1>0, <1>3 DEF TableStands
  <2> QED
    BY <1>0, <1>3, <2>1 DEF TreeIsTree
<1>5. q \in DOMAIN seen /\ q < c /\ q \in Nat /\ i \in Nat
  BY <1>0, <1>1, <1>4 DEF TreeIsTree, Node, EncoderTyped
<1>6. Kind(q) # "refusing"
  <2>1. jsval[q] # <<>>
    BY <1>4 DEF Node
  <2> QED
    BY <1>0, <1>5, <2>1 DEF ItemsStand, Leaflike
<1>7. q \in Built
  <2>1. q \notin T
    BY <1>2, <1>3, <1>5
  <2> QED
    BY <1>5, <1>6, <2>1
<1>8. ~Passed(q, i)
  BY <1>0, <1>3, <1>4, <1>7 DEF BuiltInOrder
<1>9. PICK k \in DOMAIN walk :
         walk[k].id = q /\ ~(i < walk[k].next \/ (i = walk[k].next /\ k < Len(walk)))
  BY <1>8 DEF Passed
<1>10. /\ Len(walk) \in DOMAIN walk /\ Frame = walk[Len(walk)] /\ Len(walk) \in Nat
       /\ DOMAIN walk = 1..Len(walk) /\ walk[k].next \in Nat /\ k \in Nat
       /\ p \in DOMAIN seen /\ p \in Nat /\ j \in Nat /\ j \in DOMAIN jsval[p]
  BY <1>0, TopFacts, WalkFacts
<1> HIDE DEF p, j
<1>11. Names(p, j, r)
  BY <1>10 DEF Names, p, j
<1>12. CASE k = Len(walk)
  <2>1. q = p /\ i >= j
    BY <1>5, <1>9, <1>10, <1>12 DEF p, j
  <2>2. i # j
    <3>1. jsval[p][j] = <<"ref", r>>
      BY DEF p, j
    <3>2. <<"ref", r>>[1] = "ref" /\ <<"node", c>>[1] = "node"
      OBVIOUS
    <3> QED
      BY <1>4, <2>1, <3>1, <3>2 DEF Node
  <2>3. j < i
    BY <1>5, <1>10, <2>1, <2>2
  <2>4. r < c
    BY <1>0, <1>4, <1>11, <2>1, <2>3 DEF IdsAreInOrder
  <2> QED
    BY <1>3, <2>4
<1>13. CASE k # Len(walk)
  <2>1. k < Len(walk)
    BY <1>10, <1>13
  <2>2. walk[k].next < i
    BY <1>5, <1>9, <1>10, <2>1
  <2>3. q < p /\ p < c
    <3>1. walk[k].id < walk[Len(walk)].id
      BY <1>0, <1>10, <2>1 DEF WalkStands
    <3>2. walk[Len(walk)].id < c
      BY <1>0, <1>4, <1>9, <1>10, <2>1, <2>2 DEF PathPrecedes
    <3> QED
      BY <1>9, <1>10, <3>1, <3>2 DEF p
  <2>4. r < c
    BY <1>0, <1>4, <1>11, <2>3 DEF IdsAreInOrder
  <2> QED
    BY <1>3, <2>4
<1> QED
  BY <1>12, <1>13

-----------------------------------------------------------------------------
(* The copies' invariant *)

(* Item j of container p has been given to its copy. *)
Taken(p, j) ==
    j \in DOMAIN jsval[p] /\ \A k \in DOMAIN walk : walk[k].id = p => j < walk[k].next

(* A key and its value. *)
PairTaken(p, i) == i % 2 = 1 /\ Taken(p, i + 1)

(* An Object's keys are names. *)
KeysAreNames ==
    \A p \in DOMAIN seen : Kind(p) = "object" =>
        \A j \in DOMAIN source[p].read : j % 2 = 1 => ~IsObject(source[p].read[j])

PathReaches ==
    \A k, l \in DOMAIN walk : k <= l => Reaches(seen[walk[k].id], seen[walk[l].id])

KeyWaits ==
    \A k \in DOMAIN walk :
        walk[k].key # NoKey => walk[k].key = ValueAt(walk[k].id, walk[k].next - 1)

Kids(p) == heap[built[p]].kids

(* What a member or key is kept as. *)
KeptAs(x, y) == x = y \/ (to = "ruby" /\ IsCopy(x) /\ IsCopy(y) /\ x[2] = y[2])

(* What is named by an item that was taken has a copy. *)
Resolves(p) ==
    \A j \in DOMAIN jsval[p] : Taken(p, j) /\ jsval[p][j][1] \in {"node", "ref"} =>
        jsval[p][j][2] \in Built \/ Kind(jsval[p][j][2]) = "refusing"

Comes(p) ==
    \A j \in DOMAIN Kids(p) :
        IF Kind(p) \in Keyed
        THEN /\ \E i \in DOMAIN jsval[p] : PairTaken(p, i) /\ KeptAs(Kids(p)[j][1], ValueAt(p, i))
             /\ \E i \in DOMAIN jsval[p] : Taken(p, i) /\ Kids(p)[j][2] = ValueAt(p, i)
        ELSE \E i \in DOMAIN jsval[p] : Taken(p, i) /\ KeptAs(Kids(p)[j], ValueAt(p, i))

ArrayStands(p) ==
    Kind(p) = "array" =>
        /\ \A j \in DOMAIN jsval[p] : Taken(p, j) <=> j \in DOMAIN Kids(p)
        /\ \A j \in DOMAIN Kids(p) : j \in DOMAIN jsval[p] /\ Kids(p)[j] = ValueAt(p, j)

(* Copies that hold no other, and that no activation is filling. *)
Contained(copy, F) ==
    \A v \in ValuesIn(copy.kids, copy.kind \in Keyed) : IsCopy(v) => v[2] \in F
Complete(F) ==
    /\ F \subseteq DOMAIN heap
    /\ \A a \in F : Contained(heap[a], F)
    /\ \A k \in DOMAIN walk : walk[k].at \notin F
Settled(x) == IsCopy(x) => \E F \in SUBSET DOMAIN heap : Complete(F) /\ x[2] \in F

(* Members and keys *)
Hashed(p, j) == Kind(p) = "set" \/ (Kind(p) \in Keyed /\ j % 2 = 1)
Sure(p) == ~KeyedByItself(p)
HashedSettle(p) ==
    Sure(p) /\ to = "ruby" =>
        \A j \in DOMAIN jsval[p] : Taken(p, j) /\ Hashed(p, j) => Settled(ValueAt(p, j))

SetStands(p) ==
    Kind(p) = "set" /\ Sure(p) =>
        \A i \in DOMAIN jsval[p] : Taken(p, i) =>
            \E j \in DOMAIN Kids(p) : Same(heap, Kids(p)[j], ValueAt(p, i))

PairsStand(p) ==
    Kind(p) \in Keyed /\ Sure(p) =>
        /\ \A i \in DOMAIN jsval[p] : PairTaken(p, i) =>
              \E j \in DOMAIN Kids(p) : Same(heap, Kids(p)[j][1], ValueAt(p, i))
        /\ \A j \in DOMAIN Kids(p) : \E i \in DOMAIN jsval[p] :
              /\ PairTaken(p, i) /\ Same(heap, Kids(p)[j][1], ValueAt(p, i))
              /\ Kids(p)[j][2] = ValueAt(p, i + 1)
              /\ \A k \in DOMAIN jsval[p] : PairTaken(p, k) /\ k > i =>
                    ~Same(heap, Kids(p)[j][1], ValueAt(p, k))

Filling(p) ==
    Resolves(p) /\ Comes(p) /\ ArrayStands(p) /\ HashedSettle(p) /\ SetStands(p) /\ PairsStand(p)

CopiesStand == phase \in {"decode", "done"} => \A p \in Built : Filling(p)

KInv ==
    /\ DInv
    /\ KeysAreNames
    /\ PathReaches
    /\ KeyWaits
    /\ CopiesStand

-----------------------------------------------------------------------------
(* What is alike among complete copies stays so *)

Lies(x, F) == IsCopy(x) => x[2] \in F

LEMMA AlikeLocally ==
  ASSUME NEW R, NEW F, NEW x, NEW y, Lies(x, F), Lies(y, F), AlikeIn(R, x, y)
  PROVE  AlikeIn(R \cap (F \X F), x, y)
BY DEF AlikeIn, Lies

LEMMA LiesIn ==
  ASSUME NEW F, NEW copy, Contained(copy, F), NEW i \in DOMAIN copy.kids
  PROVE  /\ copy.kind \in Keyed => Lies(copy.kids[i][1], F) /\ Lies(copy.kids[i][2], F)
         /\ copy.kind \notin Keyed => Lies(copy.kids[i], F)
<1>1. CASE copy.kind \in Keyed
  <2>1. /\ copy.kids[i][1] \in ValuesIn(copy.kids, copy.kind \in Keyed)
        /\ copy.kids[i][2] \in ValuesIn(copy.kids, copy.kind \in Keyed)
    BY <1>1 DEF ValuesIn
  <2> QED
    BY <1>1, <2>1 DEF Contained, Lies
<1>2. CASE copy.kind \notin Keyed
  <2>1. copy.kids[i] \in ValuesIn(copy.kids, copy.kind \in Keyed)
    BY <1>2 DEF ValuesIn
  <2> QED
    BY <1>2, <2>1 DEF Contained, Lies
<1> QED
  BY <1>1, <1>2

LEMMA LyingIsContained ==
  ASSUME NEW F, NEW copy,
         \A i \in DOMAIN copy.kids :
            /\ copy.kind \in Keyed => Lies(copy.kids[i][1], F) /\ Lies(copy.kids[i][2], F)
            /\ copy.kind \notin Keyed => Lies(copy.kids[i], F)
  PROVE  Contained(copy, F)
<1>1. CASE copy.kind \in Keyed
  BY <1>1 DEF Contained, ValuesIn, Lies
<1>2. CASE copy.kind \notin Keyed
  BY <1>2 DEF Contained, ValuesIn, Lies
<1> QED
  BY <1>1, <1>2

LEMMA ContentsLocally ==
  ASSUME NEW R, NEW F, NEW c \in Copy, NEW d \in Copy, Contained(c, F), Contained(d, F),
         Contents(R, c, d)
  PROVE  Contents(R \cap (F \X F), c, d)
<1> DEFINE Q == R \cap (F \X F)
<1>1. /\ SameShape(c.kind, d.kind) /\ Len(c.kids) = Len(d.kids) /\ DOMAIN c.kids = DOMAIN d.kids
      /\ c.kind \in Keyed <=> d.kind \in Keyed
      /\ c.kind = "array" => d.kind = "array"
  BY DEF Contents, Copy, SameShape, Keyed
<1>2. \A i \in DOMAIN c.kids :
         /\ c.kind \in Keyed => Lies(c.kids[i][1], F) /\ Lies(c.kids[i][2], F)
         /\ c.kind \notin Keyed => Lies(c.kids[i], F)
  BY LiesIn
<1>3. \A i \in DOMAIN d.kids :
         /\ d.kind \in Keyed => Lies(d.kids[i][1], F) /\ Lies(d.kids[i][2], F)
         /\ d.kind \notin Keyed => Lies(d.kids[i], F)
  BY LiesIn
<1> HIDE DEF Q
<1>4. \A x, y : Lies(x, F) /\ Lies(y, F) /\ AlikeIn(R, x, y) => AlikeIn(Q, x, y)
  BY AlikeLocally DEF Q
<1>5. CASE c.kind = "array"
  <2>1. c.kind \notin Keyed /\ d.kind \notin Keyed
    BY <1>1, <1>5 DEF Keyed
  <2>2. \A i \in DOMAIN c.kids : AlikeIn(R, c.kids[i], d.kids[i])
    BY <1>5, <2>1 DEF Contents
  <2>3. \A i \in DOMAIN c.kids : AlikeIn(Q, c.kids[i], d.kids[i])
    BY <1>1, <1>2, <1>3, <1>4, <2>1, <2>2
  <2>4. Contents(Q, c, d)
    BY <1>1, <1>5, <2>1, <2>3 DEF Contents
  <2> QED
    BY <2>4 DEF Q
<1>6. CASE c.kind \in Keyed
  <2>1. c.kind # "array"
    BY <1>6 DEF Keyed
  <2>2. \A i \in DOMAIN c.kids : \E j \in DOMAIN d.kids : PairAlikeIn(R, c.kids[i], d.kids[j])
    BY <1>6, <2>1 DEF Contents
  <2>3. \A i \in DOMAIN c.kids : \E j \in DOMAIN d.kids : PairAlikeIn(Q, c.kids[i], d.kids[j])
    BY <1>1, <1>2, <1>3, <1>4, <1>6, <2>2 DEF PairAlikeIn
  <2>4. Contents(Q, c, d)
    BY <1>1, <1>6, <2>1, <2>3 DEF Contents
  <2> QED
    BY <2>4 DEF Q
<1>7. CASE c.kind # "array" /\ c.kind \notin Keyed
  <2>2. \A i \in DOMAIN c.kids : \E j \in DOMAIN d.kids : AlikeIn(R, c.kids[i], d.kids[j])
    BY <1>7 DEF Contents
  <2>3. \A i \in DOMAIN c.kids : \E j \in DOMAIN d.kids : AlikeIn(Q, c.kids[i], d.kids[j])
    BY <1>1, <1>2, <1>3, <1>4, <1>7, <2>2
  <2>4. Contents(Q, c, d)
    BY <1>1, <1>7, <2>3 DEF Contents
  <2> QED
    BY <2>4 DEF Q
<1> QED
  BY <1>5, <1>6, <1>7

(* The copies F hold no other, and are the same in both heaps. *)
Shared(h, g, F) ==
    /\ h \in Seq(Copy) /\ g \in Seq(Copy) /\ F \subseteq DOMAIN h /\ F \subseteq DOMAIN g
    /\ \A a \in F : g[a] = h[a] /\ Contained(h[a], F)

LEMMA EqlLocally ==
  ASSUME NEW h, NEW g, NEW F, Shared(h, g, F), NEW a \in F, NEW b \in F, <<a, b>> \in Eql(h)
  PROVE  <<a, b>> \in Eql(g)
<1> DEFINE Pairs(s) == {p \in (DOMAIN s) \X (DOMAIN s) : p[1] # p[2]}
<1>1. PICK R \in SUBSET Pairs(h) :
         <<a, b>> \in R /\ \A p \in R : Contents(R, h[p[1]], h[p[2]])
  BY DEF Eql
<1> DEFINE Q == R \cap (F \X F)
<1>2. Q \in SUBSET Pairs(g) /\ <<a, b>> \in Q
  BY <1>1 DEF Shared
<1>3. ASSUME NEW p \in Q
      PROVE  Contents(Q, g[p[1]], g[p[2]])
  <2>1. p[1] \in F /\ p[2] \in F /\ p \in R
    BY <1>3
  <2>2. PICK c, d : c = h[p[1]] /\ d = h[p[2]]
    OBVIOUS
  <2>3. /\ g[p[1]] = c /\ g[p[2]] = d /\ Contained(c, F) /\ Contained(d, F)
        /\ c \in Copy /\ d \in Copy
    BY <2>1, <2>2 DEF Shared
  <2>4. Contents(R, c, d)
    BY <1>1, <2>1, <2>2
  <2>5. Contents(Q, c, d)
    BY <2>3, <2>4, ContentsLocally
  <2> QED
    BY <2>3, <2>5
<1> HIDE DEF Q
<1> QED
  BY <1>2, <1>3 DEF Eql

LEMMA SameLocally ==
  ASSUME NEW h, NEW g, NEW F, Shared(h, g, F), NEW x, NEW y, Lies(x, F), Lies(y, F)
  PROVE  Same(h, x, y) <=> Same(g, x, y)
<1>1. Shared(g, h, F)
  BY DEF Shared
<1>2. \A a \in F, b \in F : <<a, b>> \in Eql(h) <=> <<a, b>> \in Eql(g)
  BY <1>1, EqlLocally
<1> QED
  BY <1>2 DEF Same, AlikeIn, Lies

LEMMA KeptIsSame ==
  ASSUME NEW h, NEW x, NEW y, KeptAs(x, y)
  PROVE  Same(h, x, y)
BY DEF KeptAs, Same, AlikeIn

LEMMA StoredIsKept ==
  ASSUME NEW h, NEW x
  PROVE  KeptAs(Stored(h, x), x)
BY DEF KeptAs, Stored, IsCopy

-----------------------------------------------------------------------------
(* What is reachable, and the copies that hold no activation's *)

LEMMA KeysStayNames ==
  ASSUME EInv, KeysAreNames, [Next]_vars
  PROVE  KeysAreNames'
<1> EncoderTyped /\ PathIsOpen
  BY DEF EInv
<1>1. ASSUME NEW v \in SourceValue, Read(v) PROVE KeysAreNames'
  <2>1. ReadDoes(v, Len(seen) + 1)
    BY <1>1, ReadWrites
  <2>2. PICK p, n : p = Last(open) /\ n = Len(seen) + 1
    OBVIOUS
  <2>3. /\ p \in DOMAIN seen /\ kindOf' = kindOf
        /\ source'[p].read \in Seq(SourceValue) /\ source[p].read \in Seq(SourceValue)
        /\ Len(source'[p].read) = Len(source[p].read) + 1
        /\ source'[p].read[Len(source[p].read) + 1] = v
        /\ \A j \in DOMAIN source[p].read : source'[p].read[j] = source[p].read[j]
        /\ \A q \in DOMAIN seen : seen'[q] = seen[q] /\ (q # p => source'[q] = source[q])
    BY <2>1, <2>2 DEF ReadDoes, Writes, EncoderTyped, Reading
  <2>4. Kind(p) = "object" /\ Len(source[p].read) % 2 = 0 => ~IsObject(v)
    BY <2>1, <2>2 DEF ReadDoes, Readable, Kind
  <2>5. \A q \in DOMAIN seen' : q \in DOMAIN seen \/ source'[q].read = <<>>
    BY <2>1, <2>2 DEF ReadDoes, Stays, Enrols
  <2>6. ASSUME NEW q \in DOMAIN seen', kindOf[seen'[q]] = "object",
               NEW j \in DOMAIN source'[q].read, j % 2 = 1
        PROVE  ~IsObject(source'[q].read[j])
    <3>1. q \in DOMAIN seen
      BY <2>5, <2>6
    <3>2. seen'[q] = seen[q] /\ Kind(q) = "object"
      BY <2>3, <2>6, <3>1 DEF Kind
    <3>3. CASE q # p
      BY <2>3, <2>6, <3>1, <3>2, <3>3 DEF KeysAreNames
    <3>4. CASE q = p
      <4>1. j \in DOMAIN source[p].read \/ j = Len(source[p].read) + 1
        BY <2>3, <2>6, <3>4
      <4>2. j = Len(source[p].read) + 1 => Len(source[p].read) % 2 = 0
        <5>1. Len(source[p].read) \in Nat
          BY <2>3
        <5>2. PICK w \in Nat : w = Len(source[p].read)
          BY <5>1
        <5>3. j = w + 1 => (w + 1) % 2 # 0
          BY <2>6
        <5>4. j = w + 1 => w % 2 = 0
          BY <5>3, ParityTurns
        <5> QED
          BY <5>2, <5>4
      <4> QED
        BY <2>3, <2>4, <2>6, <3>1, <3>2, <3>4, <4>1, <4>2 DEF KeysAreNames
    <3> QED
      BY <3>3, <3>4
  <2> QED
    BY <2>3, <2>6 DEF KeysAreNames, Kind, IsObject
<1>2. UNCHANGED <<kindOf, seen, source>> => KeysAreNames'
  BY DEF KeysAreNames, Kind, IsObject
<1> QED
  BY <1>1, <1>2
     DEF Next, vars, encoder, decoder, Close, Start, Descend, DecodeBytes, DecodeValue, Ascend,
         Raise, Ended

LEMMA ReachesOn ==
  ASSUME NEW o, NEW p, NEW q, Reaches(o, p), Reaches(p, q)
  PROVE  Reaches(o, q)
BY DEF Reaches

LEMMA ReachesSelf ==
  ASSUME NEW o
  PROVE  Reaches(o, o)
BY DEF Reaches

LEMMA ReachesItem ==
  ASSUME NEW p \in DOMAIN seen, NEW j \in DOMAIN source[p].read, IsObject(source[p].read[j])
  PROVE  Reaches(seen[p], source[p].read[j][2])
BY DEF Reaches

(* What an item is a copy of is an object that was read in its place. *)
LEMMA ItemNames ==
  ASSUME EncoderTyped, ItemsStand, NEW p \in DOMAIN seen, NEW j \in DOMAIN jsval[p],
         jsval[p][j][1] \in {"node", "ref"}
  PROVE  /\ jsval[p][j] \in Item /\ jsval[p][j][2] \in DOMAIN seen /\ jsval[p][j][2] \in Id
         /\ j \in DOMAIN source[p].read /\ IsObject(source[p].read[j])
         /\ seen[jsval[p][j][2]] = source[p].read[j][2]
         /\ Reaches(seen[p], seen[jsval[p][j][2]])
<1>1. /\ jsval[p] \in Seq(Item) /\ source[p].read \in Seq(SourceValue)
      /\ Len(jsval[p]) = Len(source[p].read)
      /\ Fits(jsval[p][j], source[p].read[j], source[p].depth)
  BY DEF EncoderTyped, Reading, ItemsStand
<1>2. j \in DOMAIN source[p].read /\ jsval[p][j] \in Item /\ source[p].read[j] \in SourceValue
  BY <1>1
<1>3. jsval[p][j] # Text /\ jsval[p][j] # source[p].read[j]
  BY <1>2 DEF SourceValue, LeafValue, Text
<1>4. /\ IsObject(source[p].read[j]) /\ jsval[p][j][2] \in DOMAIN seen
      /\ seen[jsval[p][j][2]] = source[p].read[j][2]
  BY <1>1, <1>3 DEF Fits
<1> QED
  BY <1>2, <1>4, SeenFacts, ReachesItem

LEMMA CopyAt ==
  ASSUME DInv, NEW p \in DOMAIN seen, NEW j \in DOMAIN jsval[p], IsCopy(ValueAt(p, j))
  PROVE  \E n \in Built :
           /\ ValueAt(p, j) = <<"copy", built[n]>>
           /\ j \in DOMAIN source[p].read /\ IsObject(source[p].read[j])
           /\ seen[n] = source[p].read[j][2] /\ Reaches(seen[p], seen[n])
<1> EncoderTyped /\ ItemsStand
  BY DEF DInv, EInv
<1>1. jsval[p][j] \in Item
  BY DEF EncoderTyped
<1>2. jsval[p][j][1] \in {"node", "ref"}
  <2>1. jsval[p][j][1] \notin {"node", "ref"} => ValueAt(p, j) \in LeafValue \cup {Text}
    BY <1>1, ItemFacts DEF ValueAt
  <2> QED
    BY <2>1 DEF IsCopy, LeafValue, Text
<1>3. PICK n : n = jsval[p][j][2]
  OBVIOUS
<1>4. ValueAt(p, j) = Resolved(n)
  BY <1>2, <1>3 DEF ValueAt
<1>5. built[n] # 0 /\ ValueAt(p, j) = <<"copy", built[n]>>
  BY <1>4 DEF Resolved, IsCopy, Nil
<1>6. /\ n \in Id /\ j \in DOMAIN source[p].read /\ IsObject(source[p].read[j])
      /\ seen[n] = source[p].read[j][2] /\ Reaches(seen[p], seen[n])
  BY <1>2, <1>3, ItemNames
<1> QED
  BY <1>5, <1>6 DEF Built

LEMMA ContainedIn ==
  ASSUME NEW copy, NEW F, NEW G, Contained(copy, F), F \subseteq G
  PROVE  Contained(copy, G)
BY DEF Contained

(* Two copies that are settled are so together. *)
SettleTogether ==
    \A x, y : Settled(x) /\ Settled(y) =>
        \E F \in SUBSET DOMAIN heap : Complete(F) /\ Lies(x, F) /\ Lies(y, F)

LEMMA SettledTogether == SettleTogether
<1>1. ASSUME NEW x, Settled(x)
      PROVE  \E F \in SUBSET DOMAIN heap : Complete(F) /\ Lies(x, F)
  <2>1. CASE IsCopy(x)
    BY <1>1, <2>1 DEF Settled, Lies
  <2>2. CASE ~IsCopy(x)
    <3>1. Complete({})
      BY DEF Complete
    <3> QED
      BY <2>2, <3>1 DEF Lies
  <2> QED
    BY <2>1, <2>2
<1>2. ASSUME NEW F \in SUBSET DOMAIN heap, NEW G \in SUBSET DOMAIN heap, Complete(F), Complete(G)
      PROVE  Complete(F \cup G)
  <2>1. \A a \in F \cup G : Contained(heap[a], F \cup G)
    <3>1. \A a \in F : Contained(heap[a], F \cup G)
      BY <1>2, ContainedIn DEF Complete
    <3>2. \A a \in G : Contained(heap[a], F \cup G)
      BY <1>2, ContainedIn DEF Complete
    <3> QED
      BY <3>1, <3>2
  <2> QED
    BY <1>2, <2>1 DEF Complete
<1>3. ASSUME NEW x, NEW y, Settled(x), Settled(y)
      PROVE  \E F \in SUBSET DOMAIN heap : Complete(F) /\ Lies(x, F) /\ Lies(y, F)
  <2>1. PICK F \in SUBSET DOMAIN heap : Complete(F) /\ Lies(x, F)
    BY <1>1, <1>3
  <2>2. PICK G \in SUBSET DOMAIN heap : Complete(G) /\ Lies(y, G)
    BY <1>1, <1>3
  <2>3. Complete(F \cup G) /\ Lies(x, F \cup G) /\ Lies(y, F \cup G)
    BY <1>2, <2>1, <2>2 DEF Lies
  <2> QED
    BY <2>3
<1> QED
  BY <1>3 DEF SettleTogether

(* In the container on top, members and keys that do not lead back to it    *)
(* are settled: what they lead to is not being filled.                      *)
TopSettles ==
    /\ DInv /\ KeysAreNames /\ PathReaches /\ walk # <<>> /\ to = "ruby"
    /\ \A c \in Built \ {Frame.id} : Comes(c)
    => \A j \in DOMAIN jsval[Frame.id] :
         Sure(Frame.id) /\ Hashed(Frame.id, j) => Settled(ValueAt(Frame.id, j))

LEMMA ContentsComeFrom ==
  ASSUME DInv, NEW c \in Built, Comes(c), NEW i \in DOMAIN Kids(c), NEW x,
         \/ Kind(c) \in Keyed /\ x \in {Kids(c)[i][1], Kids(c)[i][2]}
         \/ Kind(c) \notin Keyed /\ x = Kids(c)[i],
         IsCopy(x)
  PROVE  \E n \in Built : x[2] = built[n] /\ Reaches(seen[c], seen[n])
<1>1. c \in DOMAIN seen
  BY DEF DInv, TableStands
<1>2. \E j \in DOMAIN jsval[c] : KeptAs(x, ValueAt(c, j))
  <2>1. CASE Kind(c) \notin Keyed
    BY <2>1 DEF Comes
  <2>2. CASE Kind(c) \in Keyed
    <3>1. \E j \in DOMAIN jsval[c] : KeptAs(Kids(c)[i][1], ValueAt(c, j))
      BY <2>2 DEF Comes
    <3>2. \E j \in DOMAIN jsval[c] : Kids(c)[i][2] = ValueAt(c, j)
      BY <2>2 DEF Comes
    <3> QED
      BY <2>2, <3>1, <3>2 DEF KeptAs
  <2> QED
    BY <2>1, <2>2
<1>3. PICK j \in DOMAIN jsval[c] : KeptAs(x, ValueAt(c, j))
  BY <1>2
<1>4. IsCopy(ValueAt(c, j)) /\ x[2] = ValueAt(c, j)[2]
  BY <1>3 DEF KeptAs
<1>5. PICK n \in Built : ValueAt(c, j) = <<"copy", built[n]>> /\ Reaches(seen[c], seen[n])
  BY <1>1, <1>4, CopyAt
<1> QED
  BY <1>4, <1>5

LEMMA TopIsSettled == TopSettles
<1> SUFFICES ASSUME DInv, KeysAreNames, PathReaches, walk # <<>>, to = "ruby",
                    \A c \in Built \ {Frame.id} : Comes(c),
                    NEW j \in DOMAIN jsval[Frame.id], Sure(Frame.id), Hashed(Frame.id, j),
                    IsCopy(ValueAt(Frame.id, j))
             PROVE  Settled(ValueAt(Frame.id, j))
  BY DEF TopSettles, Settled
<1> EncoderTyped /\ WalkStands /\ TableStands /\ HeapStands
  BY DEF DInv, EInv
<1>1. PICK p, x : p = Frame.id /\ x = ValueAt(Frame.id, j)
  OBVIOUS
<1>2. Len(walk) \in DOMAIN walk /\ Frame = walk[Len(walk)] /\ p \in DOMAIN seen
  BY <1>1, TopFacts, WalkFacts
<1>3. PICK n \in Built : /\ x = <<"copy", built[n]>>
                         /\ j \in DOMAIN source[p].read /\ IsObject(source[p].read[j])
                         /\ seen[n] = source[p].read[j][2]
  BY <1>1, <1>2, CopyAt
<1>4. ~Reaches(seen[n], seen[p])
  <2>1. Kind(p) \in {"set", "map"} /\ (Kind(p) = "map" => j % 2 = 1)
    <3>1. Kind(p) = "object" => j % 2 # 1
      BY <1>2, <1>3 DEF KeysAreNames
    <3> QED
      BY <1>1, <3>1 DEF Hashed, Keyed
  <2>2. ~KeyedByItself(p)
    BY <1>1 DEF Sure
  <2> QED
    BY <1>3, <2>1, <2>2 DEF KeyedByItself, Kind
<1> DEFINE F == {built[c] : c \in {d \in Built : Reaches(seen[n], seen[d])}}
<1>5. F \subseteq DOMAIN heap /\ built[n] \in F
  <2>1. \A c \in Built : built[c] \in DOMAIN heap
    BY BuiltFacts DEF HeapStands
  <2> QED
    BY <2>1, ReachesSelf
<1>6. ASSUME NEW k \in DOMAIN walk PROVE walk[k].at \notin F
  <2>1. SUFFICES ASSUME walk[k].at \in F PROVE FALSE
    OBVIOUS
  <2>2. PICK c \in Built : walk[k].at = built[c] /\ Reaches(seen[n], seen[c])
    BY <2>1
  <2>3. walk[k].id \in Built /\ built[walk[k].id] = walk[k].at
    BY ActivationFacts
  <2>4. c = walk[k].id
    BY <2>2, <2>3 DEF TableStands
  <2>5. k <= Len(walk)
    BY WalkFacts
  <2>6. Reaches(seen[c], seen[p])
    BY <1>1, <1>2, <2>4, <2>5 DEF PathReaches
  <2> QED
    BY <1>4, <2>2, <2>6, ReachesOn
<1>7. ASSUME NEW a \in F PROVE Contained(heap[a], F)
  <2>1. PICK c \in Built : a = built[c] /\ Reaches(seen[n], seen[c])
    BY <1>7
  <2>2. heap[a].kind = Kind(c) /\ heap[a].kids = Kids(c) /\ Comes(c)
    BY <1>1, <1>4, <2>1 DEF TableStands, Kids
  <2>3. ASSUME NEW i \in DOMAIN Kids(c), NEW y, IsCopy(y),
               \/ Kind(c) \in Keyed /\ y \in {Kids(c)[i][1], Kids(c)[i][2]}
               \/ Kind(c) \notin Keyed /\ y = Kids(c)[i]
        PROVE  y[2] \in F
    <3>1. PICK d \in Built : y[2] = built[d] /\ Reaches(seen[c], seen[d])
      BY <2>2, <2>3, ContentsComeFrom
    <3>2. Reaches(seen[n], seen[d])
      BY <2>1, <3>1, ReachesOn
    <3> QED
      BY <3>1, <3>2
  <2> HIDE DEF F
  <2>4. \A i \in DOMAIN heap[a].kids :
          /\ heap[a].kind \in Keyed => Lies(heap[a].kids[i][1], F) /\ Lies(heap[a].kids[i][2], F)
          /\ heap[a].kind \notin Keyed => Lies(heap[a].kids[i], F)
    BY <2>2, <2>3 DEF Lies
  <2> QED
    BY <2>4, LyingIsContained
<1> HIDE DEF F
<1>8. Complete(F) /\ x[2] \in F
  BY <1>3, <1>5, <1>6, <1>7 DEF Complete
<1> QED
  BY <1>1, <1>5, <1>8 DEF Settled

-----------------------------------------------------------------------------
(* What is settled stays settled *)

(* Only containers that an activation is filling change, and what is filled *)
(* next was being filled, or is new.                                        *)
Fills ==
    /\ to' = to /\ heap \in Seq(Copy) /\ heap' \in Seq(Copy) /\ DOMAIN heap \subseteq DOMAIN heap'
    /\ \A a \in DOMAIN heap : (\A k \in DOMAIN walk : walk[k].at # a) => heap'[a] = heap[a]
    /\ \A k \in DOMAIN walk' :
         walk'[k].at \notin DOMAIN heap \/ \E l \in DOMAIN walk : walk'[k].at = walk[l].at

LEMMA CompleteStays ==
  ASSUME Fills, NEW F \in SUBSET DOMAIN heap, Complete(F)
  PROVE  Complete(F)' /\ Shared(heap, heap', F)
<1>1. \A a \in F : a \in DOMAIN heap /\ heap'[a] = heap[a]
  BY DEF Fills, Complete
<1>2. F \subseteq DOMAIN heap' /\ \A a \in F : Contained(heap'[a], F) /\ Contained(heap[a], F)
  BY <1>1 DEF Fills, Complete
<1>3. \A k \in DOMAIN walk' : walk'[k].at \notin F
  BY DEF Fills, Complete
<1>4. Complete(F)'
  BY <1>2, <1>3 DEF Complete, Contained, ValuesIn, IsCopy
<1> QED
  BY <1>1, <1>2, <1>4 DEF Shared, Fills

LEMMA SettledStays ==
  ASSUME Fills, NEW x, Settled(x)
  PROVE  Settled(x)'
<1>1. CASE IsCopy(x)
  <2>1. PICK F \in SUBSET DOMAIN heap : Complete(F) /\ x[2] \in F
    BY <1>1 DEF Settled
  <2>2. Complete(F)' /\ F \in SUBSET DOMAIN heap'
    BY <2>1, CompleteStays DEF Fills
  <2> QED
    BY <2>1, <2>2 DEF Settled
<1>2. CASE ~IsCopy(x)
  BY <1>2 DEF Settled, IsCopy
<1> QED
  BY <1>1, <1>2

(* Ruby compares by contents what is settled; V8 has only identity. *)
Comparable(x) == to = "ruby" => Settled(x)

LEMMA SameStays ==
  ASSUME Fills, NEW x, NEW y, Comparable(x), Comparable(y)
  PROVE  Same(heap, x, y)' <=> Same(heap, x, y)
<1>1. Same(heap, x, y)' <=> Same(heap', x, y)
  BY DEF Same, AlikeIn, IsCopy, Eql, Contents, PairAlikeIn, SameShape, Fills
<1>2. CASE to # "ruby"
  BY <1>1, <1>2 DEF Same
<1>3. CASE to = "ruby"
  <2>1. PICK F \in SUBSET DOMAIN heap : Complete(F) /\ Lies(x, F) /\ Lies(y, F)
    BY <1>3, SettledTogether DEF SettleTogether, Comparable
  <2>2. Shared(heap, heap', F)
    BY <2>1, CompleteStays
  <2> QED
    BY <1>1, <2>1, <2>2, SameLocally
<1> QED
  BY <1>2, <1>3

(* The same for copies that were allocated, before one of them is filled.   *)
LEMMA SameBefore ==
  ASSUME to' = to, NEW copies \in Seq(Copy), heap' \in Seq(Copy), DOMAIN heap' = DOMAIN copies,
         NEW k \in DOMAIN walk', \A a \in DOMAIN copies : a # walk'[k].at => heap'[a] = copies[a],
         NEW x, NEW y, Comparable(x)', Comparable(y)'
  PROVE  Same(heap, x, y)' <=> Same(copies, x, y)
<1>1. Same(heap, x, y)' <=> Same(heap', x, y)
  BY DEF Same, AlikeIn, IsCopy, Eql, Contents, PairAlikeIn, SameShape
<1>2. CASE to # "ruby"
  BY <1>1, <1>2 DEF Same
<1>3. CASE to = "ruby"
  <2>1. SettleTogether'
    BY SettledTogether, PTL
  <2>2. Settled(x)' /\ Settled(y)'
    BY <1>3 DEF Comparable
  <2>3. PICK F \in SUBSET DOMAIN heap' : Complete(F)' /\ Lies(x, F) /\ Lies(y, F)
    BY <2>1, <2>2 DEF SettleTogether, Lies, IsCopy
  <2>4. walk'[k].at \notin F /\ F \subseteq DOMAIN heap' /\ \A a \in F : Contained(heap'[a], F)
    BY <2>3 DEF Complete, Contained, ValuesIn, IsCopy
  <2>5. Shared(heap', copies, F)
    BY <2>4 DEF Shared
  <2> QED
    BY <1>1, <2>3, <2>5, SameLocally
<1> QED
  BY <1>2, <1>3

-----------------------------------------------------------------------------
(* What a step of the decoder leaves as it is *)

(* What was built is left alone unless it is being filled; what is new is   *)
(* empty.                                                                   *)
Proceeds ==
    /\ DInv /\ DInv' /\ Fills
    /\ UNCHANGED <<to, kindOf, seen, jsval, source>>
    /\ \A id \in Built : built'[id] = built[id]
    /\ \A id \in Built' : id \in Built \/ (Kids(id)' = <<>> /\ \A i : ~Taken(id, i)')

LEMMA Fixed ==
  ASSUME UNCHANGED <<to, kindOf, seen, jsval, source>>
  PROVE  /\ \A q : Kind(q)' = Kind(q) /\ (Sure(q)' <=> Sure(q))
         /\ \A q, i : Hashed(q, i)' <=> Hashed(q, i)
         /\ \A y, z : KeptAs(y, z)' <=> KeptAs(y, z)
         /\ \A o, p : Reaches(o, p)' <=> Reaches(o, p)
<1>1. \A q : Kind(q)' = Kind(q)
  BY DEF Kind
<1>2. \A o, p : Reaches(o, p)' <=> Reaches(o, p)
  BY DEF Reaches, IsObject
<1>3. \A q : KeyedByItself(q)' <=> KeyedByItself(q)
  <2>1. \A q, i : Reaches(source[q].read[i][2], seen[q])' <=> Reaches(source[q].read[i][2], seen[q])
    BY DEF Reaches, IsObject
  <2> QED
    BY <2>1 DEF KeyedByItself, IsObject
<1> QED
  BY <1>1, <1>2, <1>3 DEF Sure, Hashed, KeptAs, IsCopy

LEMMA BuiltStays ==
  ASSUME Proceeds
  PROVE  /\ \A id \in Built : id \in Built' /\ id \in DOMAIN seen
         /\ \A id : Kind(id) = "refusing" => id \notin Built /\ id \notin Built'
<1>1. \A id \in Built : id \in Built' /\ id \in DOMAIN seen
  BY DEF Proceeds, Built, DInv, TableStands
<1>2. \A id : Kind(id) = "refusing" => id \notin Built
  BY DEF Proceeds, DInv, TableStands
<1>3. \A id : Kind(id) = "refusing" => id \notin Built'
  BY Fixed DEF Proceeds, DInv, TableStands
<1> QED
  BY <1>1, <1>2, <1>3

LEMMA ValuesStay ==
  ASSUME Proceeds, NEW q \in Built, Resolves(q), NEW i, Taken(q, i)
  PROVE  /\ ValueAt(q, i)' = ValueAt(q, i)
         /\ jsval[q][i][1] \in {"node", "ref"} =>
              jsval[q][i][2] \in Built' \/ Kind(jsval[q][i][2]) = "refusing"
<1> EncoderTyped /\ ItemsStand
  BY DEF Proceeds, DInv, EInv
<1>1. q \in DOMAIN seen /\ i \in DOMAIN jsval[q] /\ jsval' = jsval
  BY BuiltStays DEF Taken, Proceeds
<1>2. CASE jsval[q][i][1] \notin {"node", "ref"}
  BY <1>1, <1>2 DEF ValueAt
<1>3. CASE jsval[q][i][1] \in {"node", "ref"}
  <2>1. PICK n : n = jsval[q][i][2]
    OBVIOUS
  <2>2. n \in Id
    BY <1>1, <1>3, <2>1, ItemNames
  <2>3. n \in Built \/ Kind(n) = "refusing"
    BY <1>1, <1>3, <2>1 DEF Resolves
  <2>4. built'[n] = built[n] /\ (n \in Built' \/ Kind(n) = "refusing")
    <3>1. CASE n \in Built
      BY <3>1, BuiltStays DEF Proceeds
    <3>2. CASE Kind(n) = "refusing"
      BY <2>2, <3>2, BuiltStays DEF Built
    <3> QED
      BY <2>3, <3>1, <3>2
  <2>5. ValueAt(q, i) = Resolved(n) /\ ValueAt(q, i)' = Resolved(n)'
    BY <1>1, <1>3, <2>1 DEF ValueAt
  <2> QED
    BY <2>1, <2>4, <2>5 DEF Resolved
<1> QED
  BY <1>2, <1>3

LEMMA PairIsTaken ==
  ASSUME DInv, NEW q \in DOMAIN seen, NEW i \in DOMAIN jsval[q], PairTaken(q, i)
  PROVE  Taken(q, i) /\ Taken(q, i + 1) /\ i % 2 = 1
<1> EncoderTyped /\ WalkStands
  BY DEF DInv, EInv
<1>1. Taken(q, i + 1) /\ i % 2 = 1
  BY DEF PairTaken
<1>2. i \in Nat
  BY DEF EncoderTyped
<1>3. Taken(q, i)
  BY <1>1, <1>2, WalkFacts DEF Taken
<1> QED
  BY <1>1, <1>3

(* What a set holds, and what a hash is keyed by, can be compared.          *)
LEMMA HashedCompare ==
  ASSUME DInv, NEW q \in Built, Filling(q), Sure(q)
  PROVE  /\ \A i : Taken(q, i) /\ Hashed(q, i) => Comparable(ValueAt(q, i))
         /\ Kind(q) = "set" => \A l \in DOMAIN Kids(q) : Comparable(Kids(q)[l])
         /\ Kind(q) \in Keyed => \A l \in DOMAIN Kids(q) : Comparable(Kids(q)[l][1])
<1>1. \A i : Taken(q, i) /\ Hashed(q, i) => Comparable(ValueAt(q, i))
  BY DEF Filling, HashedSettle, Taken, Comparable
<1>2. \A y, z : KeptAs(y, z) /\ Comparable(z) => Comparable(y)
  BY DEF KeptAs, Comparable, Settled
<1>3. ASSUME Kind(q) = "set", NEW l \in DOMAIN Kids(q)
      PROVE  Comparable(Kids(q)[l])
  <2>1. Kind(q) \notin Keyed
    BY <1>3 DEF Keyed
  <2>2. PICK i \in DOMAIN jsval[q] : Taken(q, i) /\ KeptAs(Kids(q)[l], ValueAt(q, i))
    BY <1>3, <2>1 DEF Filling, Comes
  <2> QED
    BY <1>1, <1>2, <1>3, <2>2 DEF Hashed
<1>4. ASSUME Kind(q) \in Keyed, NEW l \in DOMAIN Kids(q)
      PROVE  Comparable(Kids(q)[l][1])
  <2>1. PICK i \in DOMAIN jsval[q] : PairTaken(q, i) /\ KeptAs(Kids(q)[l][1], ValueAt(q, i))
    BY <1>4 DEF Filling, Comes
  <2>2. q \in DOMAIN seen
    BY DEF DInv, TableStands
  <2>3. Taken(q, i) /\ Hashed(q, i)
    BY <1>4, <2>1, <2>2, PairIsTaken DEF Hashed
  <2> QED
    BY <1>1, <1>2, <2>1, <2>3
<1> QED
  BY <1>1, <1>3, <1>4

(* Members, and keys, are like a value now if they were before.             *)
LEMMA MembersStay ==
  ASSUME Proceeds, NEW q \in Built, Filling(q), Sure(q), Kind(q) = "set",
         NEW i, Taken(q, i), NEW l \in DOMAIN Kids(q),
         NEW y, y = Kids(q)[l], NEW z, z = ValueAt(q, i)
  PROVE  /\ Same(heap, y, z)' <=> Same(heap, y, z)
         /\ Comparable(y)' /\ Comparable(z)'
<1>1. Comparable(y) /\ Comparable(z)
  BY HashedCompare DEF Hashed, Proceeds
<1> QED
  BY <1>1, SameStays, SettledStays DEF Proceeds, Comparable, Fills

LEMMA KeysStay ==
  ASSUME Proceeds, NEW q \in Built, Filling(q), Sure(q), Kind(q) \in Keyed,
         NEW i \in DOMAIN jsval[q], PairTaken(q, i), NEW l \in DOMAIN Kids(q),
         NEW y, y = Kids(q)[l][1], NEW z, z = ValueAt(q, i)
  PROVE  /\ Same(heap, y, z)' <=> Same(heap, y, z)
         /\ Comparable(y)' /\ Comparable(z)'
<1>1. Taken(q, i) /\ i % 2 = 1
  BY BuiltStays, PairIsTaken DEF Proceeds
<1>2. Comparable(y) /\ Comparable(z)
  BY <1>1, HashedCompare DEF Hashed, Proceeds
<1> QED
  BY <1>2, SameStays, SettledStays DEF Proceeds, Comparable, Fills

LEMMA NewFilling ==
  ASSUME NEW q, Kids(q)' = <<>>, \A i : ~Taken(q, i)'
  PROVE  Filling(q)'
<1>1. DOMAIN Kids(q)' = {} /\ \A i : ~PairTaken(q, i)'
  BY DEF PairTaken
<1> QED
  BY <1>1 DEF Filling, Resolves, Comes, ArrayStands, HashedSettle, SetStands, PairsStand

LEMMA PairsStay ==
  ASSUME Proceeds, NEW q \in Built, Filling(q), Kids(q)' = Kids(q),
         \A i \in DOMAIN jsval[q] : PairTaken(q, i)' <=> PairTaken(q, i)
  PROVE  PairsStand(q)'
<1>1. /\ UNCHANGED <<to, kindOf, seen, jsval, source>> /\ DInv /\ q \in DOMAIN seen
      /\ Resolves(q)
  BY BuiltStays DEF Proceeds, Filling
<1>2. Kind(q)' = Kind(q) /\ (Sure(q)' <=> Sure(q))
  BY <1>1, Fixed
<1>3. \A i \in DOMAIN jsval[q] : PairTaken(q, i) =>
         ValueAt(q, i)' = ValueAt(q, i) /\ ValueAt(q, i + 1)' = ValueAt(q, i + 1)
  BY <1>1, PairIsTaken, ValuesStay
<1>4. CASE ~(Kind(q) \in Keyed /\ Sure(q))
  BY <1>2, <1>4 DEF PairsStand
<1>5. CASE Kind(q) \in Keyed /\ Sure(q)
  <2>1. ASSUME NEW i \in DOMAIN jsval[q], PairTaken(q, i), NEW l \in DOMAIN Kids(q)
        PROVE  Same(heap, Kids(q)[l][1], ValueAt(q, i))' <=>
                 Same(heap, Kids(q)[l][1], ValueAt(q, i))
    <3>1. PICK y, z : y = Kids(q)[l][1] /\ z = ValueAt(q, i)
      OBVIOUS
    <3>2. Same(heap, y, z)' <=> Same(heap, y, z)
      BY <1>5, <2>1, <3>1, KeysStay
    <3>3. y = Kids(q)'[l][1] /\ z = ValueAt(q, i)'
      BY <1>3, <2>1, <3>1
    <3> QED
      BY <3>1, <3>2, <3>3
  <2>2. /\ \A i \in DOMAIN jsval[q] : PairTaken(q, i) =>
            \E j \in DOMAIN Kids(q) : Same(heap, Kids(q)[j][1], ValueAt(q, i))
        /\ \A j \in DOMAIN Kids(q) : \E i \in DOMAIN jsval[q] :
            /\ PairTaken(q, i) /\ Same(heap, Kids(q)[j][1], ValueAt(q, i))
            /\ Kids(q)[j][2] = ValueAt(q, i + 1)
            /\ \A k \in DOMAIN jsval[q] : PairTaken(q, k) /\ k > i =>
                  ~Same(heap, Kids(q)[j][1], ValueAt(q, k))
    BY <1>5 DEF PairsStand, Filling
  <2>3. \A i \in DOMAIN jsval[q] : PairTaken(q, i) =>
            \E j \in DOMAIN Kids(q)' : Same(heap, Kids(q)[j][1], ValueAt(q, i))'
    BY <2>1, <2>2
  <2>4. ASSUME NEW j \in DOMAIN Kids(q)
        PROVE  \E i \in DOMAIN jsval[q] :
            /\ PairTaken(q, i) /\ Same(heap, Kids(q)[j][1], ValueAt(q, i))'
            /\ Kids(q)'[j][2] = ValueAt(q, i + 1)'
            /\ \A k \in DOMAIN jsval[q] : PairTaken(q, k) /\ k > i =>
                  ~Same(heap, Kids(q)[j][1], ValueAt(q, k))'
    BY <1>3, <2>1, <2>2
  <2> QED
    BY <1>1, <2>3, <2>4 DEF PairsStand
<1> QED
  BY <1>4, <1>5

LEMMA FillingStays ==
  ASSUME Proceeds, NEW q \in Built, Filling(q), Kids(q)' = Kids(q),
         \A i : Taken(q, i)' <=> Taken(q, i)
  PROVE  Filling(q)'
<1>0. /\ UNCHANGED <<to, kindOf, seen, jsval, source>> /\ Fills /\ DInv
      /\ \A i : PairTaken(q, i)' <=> PairTaken(q, i)
      /\ q \in DOMAIN seen /\ Resolves(q)
  BY BuiltStays DEF PairTaken, Proceeds, Filling
<1>1. /\ Kind(q)' = Kind(q) /\ (Sure(q)' <=> Sure(q))
      /\ \A i : Hashed(q, i)' <=> Hashed(q, i)
      /\ \A y, z : KeptAs(y, z)' <=> KeptAs(y, z)
  BY <1>0, Fixed
<1>2. \A i : Taken(q, i) => ValueAt(q, i)' = ValueAt(q, i)
  BY <1>0, ValuesStay
<1>3. \A i \in DOMAIN jsval[q] : PairTaken(q, i) =>
         ValueAt(q, i)' = ValueAt(q, i) /\ ValueAt(q, i + 1)' = ValueAt(q, i + 1)
  BY <1>0, <1>2, PairIsTaken
<1>4. Resolves(q)'
  BY <1>0, ValuesStay, Fixed DEF Resolves
<1>5. Comes(q)'
  <2>1. CASE Kind(q) \in Keyed
    BY <1>0, <1>1, <1>2, <1>3, <2>1 DEF Comes, Filling
  <2>2. CASE Kind(q) \notin Keyed
    BY <1>0, <1>1, <1>2, <2>2 DEF Comes, Filling
  <2> QED
    BY <2>1, <2>2
<1>6. ArrayStands(q)'
  BY <1>0, <1>1, <1>2 DEF ArrayStands, Filling
<1>7. HashedSettle(q)'
  <2>1. \A x : Settled(x) => Settled(x)'
    BY <1>0, SettledStays
  <2>2. ASSUME to = "ruby", Sure(q), NEW j \in DOMAIN jsval[q], Taken(q, j), Hashed(q, j),
               NEW x, x = ValueAt(q, j)'
        PROVE  Settled(x)'
    BY <1>2, <2>1, <2>2 DEF HashedSettle, Filling
  <2> QED
    BY <1>0, <1>1, <2>2 DEF HashedSettle
<1>8. SetStands(q)'
  <2>1. ASSUME Kind(q) = "set", Sure(q), NEW i \in DOMAIN jsval[q], Taken(q, i)
        PROVE  \E j \in DOMAIN Kids(q)' : Same(heap, Kids(q)[j], ValueAt(q, i))'
    <3>1. PICK j \in DOMAIN Kids(q) : Same(heap, Kids(q)[j], ValueAt(q, i))
      BY <2>1 DEF SetStands, Filling
    <3>2. PICK y, z : y = Kids(q)[j] /\ z = ValueAt(q, i)
      OBVIOUS
    <3>3. Same(heap, y, z)'
      BY <2>1, <3>1, <3>2, MembersStay
    <3>4. y = Kids(q)'[j] /\ z = ValueAt(q, i)'
      BY <1>2, <2>1, <3>2
    <3> QED
      BY <3>3, <3>4
  <2> QED
    BY <1>0, <1>1, <2>1 DEF SetStands
<1>9. PairsStand(q)'
  BY <1>0, PairsStay
<1> QED
  BY <1>4, <1>5, <1>6, <1>7, <1>8, <1>9 DEF Filling

-----------------------------------------------------------------------------
(* What a step does to the container that is given something *)

(* Item j of container p is given to its copy, and is x there. *)
Gives(p, j, x) ==
    /\ Proceeds /\ p \in Built /\ Filling(p)
    /\ j \in DOMAIN jsval[p] /\ x \in CopyValue /\ x = ValueAt(p, j)'
    /\ jsval[p][j][1] \in {"node", "ref"} =>
         jsval[p][j][2] \in Built' \/ Kind(jsval[p][j][2]) = "refusing"
    /\ \A i : Taken(p, i) <=> i \in DOMAIN jsval[p] /\ i < j
    /\ \A i : Taken(p, i)' <=> Taken(p, i) \/ i = j
    /\ Sure(p) /\ Hashed(p, j) => Comparable(x)'

LEMMA GivenFacts ==
  ASSUME NEW p, NEW j, NEW x, Gives(p, j, x)
  PROVE  /\ DInv /\ p \in DOMAIN seen /\ j \in Nat /\ DOMAIN jsval[p] \subseteq Nat
         /\ UNCHANGED <<to, kindOf, seen, jsval, source>>
         /\ Kind(p)' = Kind(p) /\ (Sure(p)' <=> Sure(p))
         /\ \A y, z : KeptAs(y, z)' <=> KeptAs(y, z)
         /\ \A i : Taken(p, i) => ValueAt(p, i)' = ValueAt(p, i)
         /\ Resolves(p)' /\ HashedSettle(p)'
<1>1. /\ DInv /\ UNCHANGED <<to, kindOf, seen, jsval, source>> /\ Resolves(p) /\ EncoderTyped
  BY DEF Gives, Proceeds, Filling, DInv, EInv
<1>2. p \in DOMAIN seen
  BY BuiltStays DEF Gives
<1>3. j \in Nat /\ DOMAIN jsval[p] \subseteq Nat
  BY <1>1, <1>2 DEF Gives, EncoderTyped
<1>4. /\ Kind(p)' = Kind(p) /\ (Sure(p)' <=> Sure(p))
      /\ \A y, z : KeptAs(y, z)' <=> KeptAs(y, z)
      /\ \A i : Hashed(p, i)' <=> Hashed(p, i)
      /\ \A i : Kind(i)' = Kind(i)
  BY <1>1, Fixed
<1>5. \A i : Taken(p, i) =>
         /\ ValueAt(p, i)' = ValueAt(p, i)
         /\ jsval[p][i][1] \in {"node", "ref"} =>
              jsval[p][i][2] \in Built' \/ Kind(jsval[p][i][2]) = "refusing"
  BY <1>1, ValuesStay DEF Gives
<1>6. Resolves(p)'
  BY <1>1, <1>4, <1>5 DEF Gives, Resolves
<1>7. HashedSettle(p)'
  <2>1. ASSUME to = "ruby", Sure(p), NEW i \in DOMAIN jsval[p], Taken(p, i) \/ i = j, Hashed(p, i),
               NEW z, z = ValueAt(p, i)'
        PROVE  Settled(z)'
    <3>1. CASE Taken(p, i)
      <4>1. Settled(ValueAt(p, i)) /\ z = ValueAt(p, i)
        BY <1>5, <2>1, <3>1 DEF Gives, Filling, HashedSettle
      <4> QED
        BY <4>1, SettledStays DEF Gives, Proceeds
    <3>2. CASE i = j
      <4>1. Comparable(x)' /\ z = x
        BY <2>1, <3>2 DEF Gives
      <4> QED
        BY <1>1, <2>1, <4>1 DEF Comparable
    <3> QED
      BY <2>1, <3>1, <3>2
  <2> QED
    BY <1>1, <1>4, <2>1 DEF HashedSettle, Gives
<1> QED
  BY <1>1, <1>2, <1>3, <1>4, <1>5, <1>6, <1>7

LEMMA GivenToArray ==
  ASSUME NEW p, NEW j, NEW x, Gives(p, j, x), Kind(p) = "array",
         Kids(p) \in Seq(CopyValue), Kids(p)' = Append(Kids(p), x)
  PROVE  Filling(p)'
<1>1. Kind(p)' = "array" /\ Kind(p)' \notin Keyed /\ Kind(p)' # "set" /\ Kind(p) \notin Keyed
  BY GivenFacts DEF Keyed
<1>2. SetStands(p)' /\ PairsStand(p)'
  BY <1>1 DEF SetStands, PairsStand
<1>3. PICK n : n = Len(Kids(p)) + 1
  OBVIOUS
<1>4. /\ DOMAIN Kids(p)' = DOMAIN Kids(p) \cup {n} /\ n \notin DOMAIN Kids(p)
      /\ Kids(p)'[n] = x /\ \A l \in DOMAIN Kids(p) : Kids(p)'[l] = Kids(p)[l]
      /\ DOMAIN Kids(p) = 1..(n - 1) /\ n \in Nat
  <2>1. x \in CopyValue
    BY DEF Gives
  <2> QED
    BY <1>3, <2>1, Appended
<1>5. /\ \A i \in DOMAIN jsval[p] : i < j <=> i \in DOMAIN Kids(p)
      /\ \A i \in DOMAIN Kids(p) : i \in DOMAIN jsval[p] /\ Kids(p)[i] = ValueAt(p, i)
  BY <1>1 DEF Gives, Filling, ArrayStands
<1>6. n = j
  <2>1. p \in DOMAIN seen /\ EncoderTyped
    BY GivenFacts DEF DInv, EInv
  <2>2. jsval[p] \in Seq(Item) /\ j \in DOMAIN jsval[p] /\ j \in Nat
    BY <2>1, GivenFacts DEF EncoderTyped, Gives
  <2>3. CASE n < j
    <3>1. n \in DOMAIN jsval[p]
      BY <1>4, <2>2, <2>3
    <3> QED
      BY <1>4, <1>5, <2>3, <3>1
  <2>4. CASE j < n
    <3>1. j \in DOMAIN Kids(p)
      BY <1>4, <2>2, <2>4
    <3> QED
      BY <1>5, <2>2, <3>1
  <2> QED
    BY <1>4, <2>2, <2>3, <2>4
<1>7. ArrayStands(p)'
  BY <1>4, <1>5, <1>6, GivenFacts DEF ArrayStands, Gives
<1>8. Comes(p)'
  <2>1. ASSUME NEW l \in DOMAIN Kids(p)'
        PROVE  \E i \in DOMAIN jsval[p] : Taken(p, i)' /\ KeptAs(Kids(p)'[l], ValueAt(p, i)')
    <3>1. l \in DOMAIN jsval[p] /\ Taken(p, l)' /\ Kids(p)'[l] = ValueAt(p, l)'
      BY <1>4, <1>5, <1>6, <2>1, GivenFacts DEF Gives
    <3> QED
      BY <3>1 DEF KeptAs
  <2>2. jsval' = jsval /\ to' = to
    BY GivenFacts
  <2>3. ASSUME NEW l \in DOMAIN Kids(p)'
        PROVE  \E i \in DOMAIN jsval'[p] : Taken(p, i)' /\ KeptAs(Kids(p)[l], ValueAt(p, i))'
    BY <2>1, <2>2, <2>3 DEF KeptAs, IsCopy
  <2> QED
    BY <1>1, <2>3 DEF Comes
<1> QED
  BY <1>2, <1>7, <1>8, GivenFacts DEF Filling

(* A set keeps its members; x is one already, or becomes one. *)
Joins(p, x, copies) ==
    /\ \A l \in DOMAIN Kids(p) : l \in DOMAIN Kids(p)' /\ Kids(p)'[l] = Kids(p)[l]
    /\ \A l \in DOMAIN Kids(p)' : l \in DOMAIN Kids(p) \/ KeptAs(Kids(p)'[l], x)
    /\ \E l \in DOMAIN Kids(p)' : l \in DOMAIN Kids(p) => Same(copies, Kids(p)[l], x)

(* Of two pairs with one key, the first has the key and the last the value. *)
Pairs(p, y, x, copies) ==
    /\ \A l \in DOMAIN Kids(p) :
         /\ l \in DOMAIN Kids(p)' /\ Kids(p)'[l][1] = Kids(p)[l][1]
         /\ Same(copies, Kids(p)[l][1], y) => Kids(p)'[l][2] = x
         /\ ~Same(copies, Kids(p)[l][1], y) => Kids(p)'[l][2] = Kids(p)[l][2]
    /\ \A l \in DOMAIN Kids(p)' :
         l \in DOMAIN Kids(p) \/ (KeptAs(Kids(p)'[l][1], y) /\ Kids(p)'[l][2] = x)
    /\ \E l \in DOMAIN Kids(p)' : l \in DOMAIN Kids(p) => Same(copies, Kids(p)[l][1], y)

(* The comparisons of the step are those of the heap after it. *)
Compares(copies) ==
    \A y, z : Comparable(y)' /\ Comparable(z)' => (Same(heap, y, z)' <=> Same(copies, y, z))

LEMMA GivenToSet ==
  ASSUME NEW p, NEW j, NEW x, Gives(p, j, x), Kind(p) = "set",
         NEW copies, Compares(copies), Joins(p, x, copies)
  PROVE  Filling(p)'
<1>1. /\ Kind(p)' = "set" /\ Kind(p)' \notin Keyed /\ Kind(p)' # "array" /\ Kind(p) \notin Keyed
      /\ UNCHANGED <<to, kindOf, seen, jsval, source>> /\ (Sure(p)' <=> Sure(p))
      /\ \A i : Hashed(p, i)
  BY GivenFacts DEF Keyed, Hashed
<1>2. ArrayStands(p)' /\ PairsStand(p)'
  BY <1>1 DEF ArrayStands, PairsStand
<1>3. j \in DOMAIN jsval[p] /\ Taken(p, j)' /\ x = ValueAt(p, j)'
      /\ \A i : Taken(p, i) => Taken(p, i)' /\ ValueAt(p, i)' = ValueAt(p, i)
  BY GivenFacts DEF Gives
<1>4. Comes(p)'
  <2>1. ASSUME NEW l \in DOMAIN Kids(p)'
        PROVE  \E i \in DOMAIN jsval[p] : Taken(p, i)' /\ KeptAs(Kids(p)'[l], ValueAt(p, i)')
    <3>1. CASE l \in DOMAIN Kids(p)
      <4>1. PICK i \in DOMAIN jsval[p] : Taken(p, i) /\ KeptAs(Kids(p)[l], ValueAt(p, i))
        BY <1>1, <3>1 DEF Gives, Filling, Comes
      <4>2. Taken(p, i)' /\ ValueAt(p, i)' = ValueAt(p, i) /\ Kids(p)'[l] = Kids(p)[l]
        BY <1>3, <3>1, <4>1 DEF Joins
      <4> QED
        BY <4>1, <4>2
    <3>2. CASE l \notin DOMAIN Kids(p)
      BY <1>3, <2>1, <3>2 DEF Joins
    <3> QED
      BY <3>1, <3>2
  <2>2. ASSUME NEW l \in DOMAIN Kids(p)'
        PROVE  \E i \in DOMAIN jsval'[p] : Taken(p, i)' /\ KeptAs(Kids(p)[l], ValueAt(p, i))'
    BY <1>1, <2>1, <2>2 DEF KeptAs, IsCopy
  <2> QED
    BY <1>1, <2>2 DEF Comes
<1>5. SetStands(p)'
  <2>1. ASSUME Sure(p), NEW i \in DOMAIN jsval[p], Taken(p, i)'
        PROVE  \E l \in DOMAIN Kids(p)' : Same(heap, Kids(p)[l], ValueAt(p, i))'
    <3>1. CASE Taken(p, i)
      <4>1. PICK l \in DOMAIN Kids(p) : Same(heap, Kids(p)[l], ValueAt(p, i))
        BY <1>1, <2>1, <3>1 DEF Gives, Filling, SetStands
      <4>2. PICK y, z : y = Kids(p)[l] /\ z = ValueAt(p, i)
        OBVIOUS
      <4>3. Same(heap, y, z)'
        BY <2>1, <3>1, <4>1, <4>2, MembersStay DEF Gives
      <4>4. l \in DOMAIN Kids(p)' /\ y = Kids(p)'[l] /\ z = ValueAt(p, i)'
        BY <1>3, <3>1, <4>1, <4>2 DEF Joins
      <4> QED
        BY <4>3, <4>4
    <3>2. CASE i = j
      <4>1. PICK l \in DOMAIN Kids(p)' : l \in DOMAIN Kids(p) => Same(copies, Kids(p)[l], x)
        BY DEF Joins
      <4>2. PICK y : y = Kids(p)'[l]
        OBVIOUS
      <4>3. Same(heap, y, x)'
        <5>1. CASE l \in DOMAIN Kids(p)
          <6>1. y = Kids(p)[l] /\ Same(copies, y, x)
            BY <4>1, <4>2, <5>1 DEF Joins
          <6>2. Comparable(y)
            BY <1>1, <2>1, <5>1, <6>1, HashedCompare DEF Gives, Proceeds
          <6>3. Comparable(y)' /\ Comparable(x)'
            BY <1>1, <2>1, <6>2, SettledStays DEF Gives, Proceeds, Comparable
          <6> QED
            BY <6>1, <6>3 DEF Compares
        <5>2. CASE l \notin DOMAIN Kids(p)
          <6>1. KeptAs(y, x)
            BY <4>1, <4>2, <5>2 DEF Joins
          <6> QED
            BY <1>1, <6>1 DEF KeptAs, Same, AlikeIn, IsCopy
        <5> QED
          BY <5>1, <5>2
      <4>4. x = ValueAt(p, i)'
        BY <1>3, <3>2
      <4> QED
        BY <4>2, <4>3, <4>4
    <3> QED
      BY <2>1, <3>1, <3>2 DEF Gives
  <2> QED
    BY <1>1, <2>1 DEF SetStands
<1> QED
  BY <1>2, <1>4, <1>5, GivenFacts DEF Filling

(* The key waits in the activation. *)
LEMMA KeyGiven ==
  ASSUME NEW p, NEW j, NEW x, Gives(p, j, x), Kind(p) \in Keyed, j % 2 = 1, Kids(p)' = Kids(p)
  PROVE  Filling(p)'
<1>1. /\ Kind(p)' = Kind(p) /\ Kind(p)' # "set" /\ Kind(p)' # "array" /\ Kind(p)' \in Keyed
      /\ UNCHANGED <<to, kindOf, seen, jsval, source>> /\ DInv /\ p \in DOMAIN seen
      /\ \A y, z : KeptAs(y, z)' <=> KeptAs(y, z)
  BY GivenFacts DEF Keyed
<1>2. ArrayStands(p)' /\ SetStands(p)'
  BY <1>1 DEF ArrayStands, SetStands
<1>3. \A i \in DOMAIN jsval[p] : PairTaken(p, i)' <=> PairTaken(p, i)
  <2>1. ASSUME NEW i \in DOMAIN jsval[p], i % 2 = 1 PROVE i + 1 # j
    <3>1. i \in Nat
      BY GivenFacts
    <3>2. (i + 1) % 2 = 0
      BY <2>1, <3>1, ParityTurns
    <3> QED
      BY <3>2
  <2> QED
    BY <2>1 DEF PairTaken, Gives
<1>4. PairsStand(p)'
  BY <1>3, PairsStay DEF Gives
<1>5. \A i : Taken(p, i) => Taken(p, i)' /\ ValueAt(p, i)' = ValueAt(p, i)
  BY GivenFacts DEF Gives
<1>6. \A i \in DOMAIN jsval[p] : PairTaken(p, i) => ValueAt(p, i)' = ValueAt(p, i)
  BY <1>1, <1>5, PairIsTaken
<1>7. Comes(p)'
  BY <1>1, <1>3, <1>5, <1>6 DEF Comes, Gives, Filling
<1> QED
  BY <1>2, <1>4, <1>7, GivenFacts DEF Filling

(* The value of the pair, whose key is item i. *)
LEMMA ValueGiven ==
  ASSUME NEW p, NEW j, NEW x, Gives(p, j, x), Kind(p) \in Keyed,
         NEW i \in DOMAIN jsval[p], i + 1 = j, i % 2 = 1, NEW y, y = ValueAt(p, i),
         NEW copies, Compares(copies), Pairs(p, y, x, copies)
  PROVE  Filling(p)'
<1>1. /\ Kind(p)' = Kind(p) /\ Kind(p)' # "set" /\ Kind(p)' # "array" /\ Kind(p)' \in Keyed
      /\ UNCHANGED <<to, kindOf, seen, jsval, source>> /\ DInv /\ p \in DOMAIN seen
      /\ \A c, d : KeptAs(c, d)' <=> KeptAs(c, d)
      /\ (Sure(p)' <=> Sure(p))
  BY GivenFacts DEF Keyed
<1>2. ArrayStands(p)' /\ SetStands(p)'
  BY <1>1 DEF ArrayStands, SetStands
<1>3. /\ \A k : Taken(p, k) => Taken(p, k)' /\ ValueAt(p, k)' = ValueAt(p, k)
      /\ j \in DOMAIN jsval[p] /\ Taken(p, j)' /\ x = ValueAt(p, j)'
  BY GivenFacts DEF Gives
<1>4. Taken(p, i) /\ y = ValueAt(p, i)' /\ i \in Nat /\ Hashed(p, i)
  <2>1. i \in Nat /\ i < j
    BY GivenFacts
  <2> QED
    BY <1>3, <2>1 DEF Gives, Hashed
<1>5. /\ \A k \in DOMAIN jsval[p] : PairTaken(p, k)' <=> PairTaken(p, k) \/ k = i
      /\ \A k \in DOMAIN jsval[p] : PairTaken(p, k) => k < i /\ k # i
      /\ PairTaken(p, i)'
  <2>1. \A k \in DOMAIN jsval[p] : k \in Nat /\ (k + 1 = j <=> k = i)
    BY <1>4, GivenFacts
  <2>2. \A k \in DOMAIN jsval[p] : PairTaken(p, k)' <=> PairTaken(p, k) \/ k = i
    BY <2>1 DEF PairTaken, Gives
  <2>3. ASSUME NEW k \in DOMAIN jsval[p], PairTaken(p, k) PROVE k < i
    <3>1. k + 1 < j
      BY <2>3 DEF PairTaken, Gives
    <3> QED
      BY <1>4, <2>1, <3>1
  <2> QED
    BY <1>4, <2>2, <2>3
<1>6. \A k \in DOMAIN jsval[p] : PairTaken(p, k) =>
         ValueAt(p, k)' = ValueAt(p, k) /\ ValueAt(p, k + 1)' = ValueAt(p, k + 1)
  BY <1>1, <1>3, PairIsTaken
<1>7. Comes(p)'
  <2>1. ASSUME NEW l \in DOMAIN Kids(p)'
        PROVE  /\ \E k \in DOMAIN jsval[p] :
                    PairTaken(p, k)' /\ KeptAs(Kids(p)'[l][1], ValueAt(p, k)')
               /\ \E k \in DOMAIN jsval[p] : Taken(p, k)' /\ Kids(p)'[l][2] = ValueAt(p, k)'
    <3>1. CASE l \notin DOMAIN Kids(p)
      <4>1. KeptAs(Kids(p)'[l][1], y) /\ Kids(p)'[l][2] = x
        BY <2>1, <3>1 DEF Pairs
      <4> QED
        BY <1>3, <1>4, <1>5, <4>1
    <3>2. CASE l \in DOMAIN Kids(p)
      <4>1. PICK k \in DOMAIN jsval[p] : PairTaken(p, k) /\ KeptAs(Kids(p)[l][1], ValueAt(p, k))
        BY <1>1, <3>2 DEF Gives, Filling, Comes
      <4>2. PICK m \in DOMAIN jsval[p] : Taken(p, m) /\ Kids(p)[l][2] = ValueAt(p, m)
        BY <1>1, <3>2 DEF Gives, Filling, Comes
      <4>3. /\ Kids(p)'[l][1] = Kids(p)[l][1]
            /\ Kids(p)'[l][2] = x \/ Kids(p)'[l][2] = Kids(p)[l][2]
        BY <3>2 DEF Pairs
      <4>4. PairTaken(p, k)' /\ KeptAs(Kids(p)'[l][1], ValueAt(p, k)')
        BY <1>5, <1>6, <4>1, <4>3
      <4>5. \/ Taken(p, m)' /\ Kids(p)'[l][2] = ValueAt(p, m)'
            \/ Taken(p, j)' /\ Kids(p)'[l][2] = ValueAt(p, j)'
        BY <1>3, <4>2, <4>3
      <4> QED
        BY <1>3, <4>4, <4>5
    <3> QED
      BY <3>1, <3>2
  <2>2. ASSUME NEW l \in DOMAIN Kids(p)'
        PROVE  /\ \E k \in DOMAIN jsval'[p] :
                    PairTaken(p, k)' /\ KeptAs(Kids(p)[l][1], ValueAt(p, k))'
               /\ \E k \in DOMAIN jsval'[p] : Taken(p, k)' /\ (Kids(p)[l][2] = ValueAt(p, k))'
    BY <1>1, <2>1, <2>2 DEF KeptAs, IsCopy
  <2> QED
    BY <1>1, <2>2 DEF Comes
<1>8. PairsStand(p)'
  <2>1. CASE ~Sure(p)
    BY <1>1, <2>1 DEF PairsStand
  <2>2. CASE Sure(p)
    <3>1. ASSUME NEW k \in DOMAIN jsval[p], PairTaken(p, k), NEW l \in DOMAIN Kids(p)
          PROVE  Same(heap, Kids(p)[l][1], ValueAt(p, k))' <=>
                   Same(heap, Kids(p)[l][1], ValueAt(p, k))
      <4>1. PICK c, d : c = Kids(p)[l][1] /\ d = ValueAt(p, k)
        OBVIOUS
      <4>2. Same(heap, c, d)' <=> Same(heap, c, d)
        BY <2>2, <3>1, <4>1, KeysStay DEF Gives
      <4>3. c = Kids(p)'[l][1] /\ d = ValueAt(p, k)'
        BY <1>6, <3>1, <4>1 DEF Pairs
      <4> QED
        BY <4>1, <4>2, <4>3
    <3>2. ASSUME NEW l \in DOMAIN Kids(p)
          PROVE  Same(heap, Kids(p)[l][1], ValueAt(p, i))' <=> Same(copies, Kids(p)[l][1], y)
      <4>1. PICK c : c = Kids(p)[l][1]
        OBVIOUS
      <4>2. Comparable(c) /\ Comparable(y)
        BY <1>4, <2>2, <3>2, <4>1, HashedCompare DEF Gives, Proceeds
      <4>3. Comparable(c)' /\ Comparable(y)'
        BY <4>2, SettledStays DEF Gives, Proceeds, Comparable
      <4>4. Same(heap, c, y)' <=> Same(copies, c, y)
        BY <4>3 DEF Compares
      <4>5. c = Kids(p)'[l][1] /\ y = ValueAt(p, i)'
        BY <1>4, <3>2, <4>1 DEF Pairs
      <4> QED
        BY <4>1, <4>4, <4>5
    <3>3. ASSUME NEW l \in DOMAIN Kids(p)', l \notin DOMAIN Kids(p)
          PROVE  Same(heap, Kids(p)[l][1], ValueAt(p, i))' /\ Kids(p)'[l][2] = ValueAt(p, i + 1)'
      <4>1. PICK c : c = Kids(p)'[l][1]
        OBVIOUS
      <4>2. KeptAs(c, y) /\ Kids(p)'[l][2] = x
        BY <3>3, <4>1 DEF Pairs
      <4>3. Same(heap, c, y)'
        BY <1>1, <4>2 DEF KeptAs, Same, AlikeIn, IsCopy
      <4> QED
        BY <1>3, <1>4, <4>1, <4>2, <4>3
    <3>4. /\ \A k \in DOMAIN jsval[p] : PairTaken(p, k) =>
              \E l \in DOMAIN Kids(p) : Same(heap, Kids(p)[l][1], ValueAt(p, k))
          /\ \A l \in DOMAIN Kids(p) : \E k \in DOMAIN jsval[p] :
              /\ PairTaken(p, k) /\ Same(heap, Kids(p)[l][1], ValueAt(p, k))
              /\ Kids(p)[l][2] = ValueAt(p, k + 1)
              /\ \A m \in DOMAIN jsval[p] : PairTaken(p, m) /\ m > k =>
                    ~Same(heap, Kids(p)[l][1], ValueAt(p, m))
      BY <1>1, <2>2 DEF PairsStand, Gives, Filling
    <3>5. ASSUME NEW k \in DOMAIN jsval[p], PairTaken(p, k)'
          PROVE  \E l \in DOMAIN Kids(p)' : Same(heap, Kids(p)[l][1], ValueAt(p, k))'
      <4>1. CASE PairTaken(p, k)
        BY <3>1, <3>4, <4>1 DEF Pairs
      <4>2. CASE k = i
        BY <3>2, <3>3, <4>2 DEF Pairs
      <4> QED
        BY <1>5, <3>5, <4>1, <4>2
    <3>6. ASSUME NEW l \in DOMAIN Kids(p)'
          PROVE  \E k \in DOMAIN jsval[p] :
                   /\ PairTaken(p, k)' /\ Same(heap, Kids(p)[l][1], ValueAt(p, k))'
                   /\ Kids(p)'[l][2] = ValueAt(p, k + 1)'
                   /\ \A m \in DOMAIN jsval[p] : PairTaken(p, m)' /\ m > k =>
                        ~Same(heap, Kids(p)[l][1], ValueAt(p, m))'
      <4>1. \A m \in DOMAIN jsval[p] : ~(PairTaken(p, m)' /\ m > i)
        BY <1>4, <1>5, GivenFacts
      <4>2. CASE l \notin DOMAIN Kids(p)
        BY <1>5, <3>3, <3>6, <4>1, <4>2
      <4>3. CASE l \in DOMAIN Kids(p) /\ Same(copies, Kids(p)[l][1], y)
        <5>1. Kids(p)'[l][2] = ValueAt(p, i + 1)'
          BY <1>3, <4>3 DEF Pairs
        <5>2. Same(heap, Kids(p)[l][1], ValueAt(p, i))'
          BY <3>2, <4>3
        <5> QED
          BY <1>5, <4>1, <5>1, <5>2
      <4>4. CASE l \in DOMAIN Kids(p) /\ ~Same(copies, Kids(p)[l][1], y)
        <5>1. PICK k \in DOMAIN jsval[p] :
                /\ PairTaken(p, k) /\ Same(heap, Kids(p)[l][1], ValueAt(p, k))
                /\ Kids(p)[l][2] = ValueAt(p, k + 1)
                /\ \A m \in DOMAIN jsval[p] : PairTaken(p, m) /\ m > k =>
                      ~Same(heap, Kids(p)[l][1], ValueAt(p, m))
          BY <3>4, <4>4
        <5>2. PairTaken(p, k)' /\ Same(heap, Kids(p)[l][1], ValueAt(p, k))'
          BY <1>5, <3>1, <4>4, <5>1
        <5>3. Kids(p)'[l][2] = ValueAt(p, k + 1)'
          BY <1>6, <4>4, <5>1 DEF Pairs
        <5>4. ASSUME NEW m \in DOMAIN jsval[p], PairTaken(p, m)', m > k
              PROVE  ~Same(heap, Kids(p)[l][1], ValueAt(p, m))'
          <6>1. CASE PairTaken(p, m)
            BY <3>1, <4>4, <5>1, <5>4, <6>1
          <6>2. CASE m = i
            BY <3>2, <4>4, <6>2
          <6> QED
            BY <1>5, <5>4, <6>1, <6>2
        <5> QED
          BY <5>2, <5>3, <5>4
      <4> QED
        BY <4>2, <4>3, <4>4
    <3> QED
      BY <1>1, <3>5, <3>6 DEF PairsStand
  <2> QED
    BY <2>1, <2>2
<1> QED
  BY <1>2, <1>7, <1>8, GivenFacts DEF Filling

-----------------------------------------------------------------------------
(* The step in which an activation is given a value *)

LEMMA TakenIs ==
  ASSUME DInv, NEW k \in DOMAIN walk, NEW i
  PROVE  Taken(walk[k].id, i) <=> i \in DOMAIN jsval[walk[k].id] /\ i < walk[k].next
<1>1. EncoderTyped /\ WalkStands
  BY DEF DInv, EInv
<1>2. \A l \in DOMAIN walk : walk[l].id = walk[k].id => l = k
  BY <1>1, WalkFacts
<1> QED
  BY <1>2 DEF Taken

LEMMA TakenGoes ==
  ASSUME DInv, jsval' = jsval, NEW m, NEW x, GoesOn(m, x), Returns(m),
         NEW q \in DOMAIN seen, NEW i
  PROVE  Taken(q, i)' <=> Taken(q, i) \/ (q = walk[m].id /\ i = walk[m].next)
<1> EncoderTyped /\ WalkStands
  BY DEF DInv, EInv
<1>1. /\ m \in DOMAIN walk /\ m \in Nat /\ DOMAIN walk' = 1..m
      /\ Len(walk) \in Nat /\ DOMAIN walk = 1..Len(walk)
      /\ \A k \in 1..(m - 1) : walk'[k] = walk[k]
      /\ walk'[m].id = walk[m].id /\ walk'[m].next = walk[m].next + 1
      /\ walk # <<>>
  BY WalkFacts DEF GoesOn
<1>2. /\ \A k \in DOMAIN walk : walk[k].next \in Nat
      /\ \A k, l \in DOMAIN walk : walk[k].id = walk[l].id => k = l
      /\ \A l \in DOMAIN jsval[q] : l \in Nat
  BY WalkFacts DEF EncoderTyped
<1>3. walk[m].next \in DOMAIN jsval[walk[m].id]
  <2>1. walk[m].next <= Len(jsval[walk[m].id]) /\ walk[m].next \in 1..(Len(jsval[walk[m].id]) + 1)
    BY <1>1 DEF GoesOn, WalkStands, Decodes
  <2>2. jsval[walk[m].id] \in Seq(Item)
    BY <1>1, WalkFacts
  <2> QED
    BY <1>1, <1>2, <2>1, <2>2
<1>4. \A k \in DOMAIN walk' : k \in DOMAIN walk /\ (k = m \/ (k < m /\ walk'[k] = walk[k]))
  BY <1>1
<1>5. ASSUME Taken(q, i) PROVE Taken(q, i)'
  <2>1. i \in DOMAIN jsval[q] /\ \A k \in DOMAIN walk : walk[k].id = q => i < walk[k].next
    BY <1>5 DEF Taken
  <2>2. ASSUME NEW k \in DOMAIN walk', walk'[k].id = q PROVE i < walk'[k].next
    BY <1>1, <1>2, <1>4, <2>1, <2>2
  <2> QED
    BY <2>1, <2>2 DEF Taken
<1>6. ASSUME q = walk[m].id, i = walk[m].next PROVE Taken(q, i)'
  <2>1. ASSUME NEW k \in DOMAIN walk', walk'[k].id = q PROVE i < walk'[k].next
    <3>1. k = m
      BY <1>1, <1>2, <1>4, <1>6, <2>1
    <3> QED
      BY <1>1, <1>2, <1>6, <3>1
  <2> QED
    BY <1>3, <1>6, <2>1 DEF Taken
<1>7. ASSUME Taken(q, i)', ~(q = walk[m].id /\ i = walk[m].next) PROVE Taken(q, i)
  <2>1. i \in DOMAIN jsval[q] /\ \A k \in DOMAIN walk' : walk'[k].id = q => i < walk'[k].next
    BY <1>7 DEF Taken
  <2>2. ASSUME NEW k \in DOMAIN walk, walk[k].id = q PROVE i < walk[k].next
    <3>1. CASE k < m
      <4>1. k \in DOMAIN walk' /\ walk'[k] = walk[k]
        BY <1>1, <3>1
      <4> QED
        BY <2>1, <2>2, <4>1
    <3>2. CASE k = m
      <4>1. m \in DOMAIN walk'
        BY <1>1
      <4>2. i < walk[m].next + 1 /\ i # walk[m].next
        BY <1>1, <1>7, <2>1, <2>2, <3>2, <4>1
      <4> QED
        BY <1>1, <1>2, <2>1, <3>2, <4>2
    <3>3. CASE k > m
      <4>1. k = Len(walk) /\ Finished
        BY <1>1, <3>3 DEF Returns
      <4>2. walk[k].next = Len(jsval[q]) + 1
        BY <1>1, <2>2, <4>1, TopFacts
      <4>3. jsval[q] \in Seq(Item)
        BY DEF EncoderTyped
      <4> QED
        BY <1>2, <2>1, <4>2, <4>3
    <3> QED
      BY <1>1, <3>1, <3>2, <3>3
  <2> QED
    BY <2>1, <2>2 DEF Taken
<1> QED
  BY <1>5, <1>6, <1>7

LEMMA TakesFills ==
  ASSUME DInv, DInv', to' = to, NEW m, NEW x, NEW copies, Takes(m, x, copies)
  PROVE  Fills /\ Compares(copies)
<1>1. /\ m \in DOMAIN walk /\ Extends(copies) /\ GoesOn(m, x)
      /\ DOMAIN heap' = DOMAIN copies /\ DOMAIN heap \subseteq DOMAIN heap'
      /\ \A a \in DOMAIN copies : a # walk[m].at => heap'[a] = copies[a]
  BY DEF Takes, GraftDoes
<1>2. heap \in Seq(Copy) /\ heap' \in Seq(Copy) /\ copies \in Seq(Copy)
  BY <1>1 DEF DInv, HeapStands, Extends
<1>3. \A a \in DOMAIN heap : a # walk[m].at => heap'[a] = heap[a]
  BY <1>1 DEF Extends
<1>4. /\ DOMAIN walk' = 1..m /\ m \in Nat /\ m \in DOMAIN walk'
      /\ \A k \in DOMAIN walk' : k \in DOMAIN walk /\ walk'[k].at = walk[k].at
  <2>1. /\ DOMAIN walk' = 1..m /\ \A k \in 1..(m - 1) : walk'[k] = walk[k]
        /\ walk'[m].at = walk[m].at
    BY <1>1 DEF GoesOn
  <2>2. DOMAIN walk = 1..Len(walk) /\ Len(walk) \in Nat
    BY WalkFacts DEF DInv, EInv
  <2> QED
    BY <1>1, <2>1, <2>2
<1>5. Fills
  BY <1>1, <1>2, <1>3, <1>4 DEF Fills
<1>6. \A a \in DOMAIN copies : a # walk'[m].at => heap'[a] = copies[a]
  BY <1>1, <1>4
<1>7. ASSUME NEW y, NEW z, Comparable(y)', Comparable(z)'
      PROVE  Same(heap, y, z)' <=> Same(copies, y, z)
  BY <1>1, <1>2, <1>4, <1>6, <1>7, SameBefore
<1> QED
  BY <1>5, <1>7 DEF Compares

(* The new contents, by the kind of the container. *)
LEMMA ArrayIsGiven ==
  ASSUME NEW p, NEW j, NEW x, Gives(p, j, x), Kind(p) = "array",
         NEW h, NEW f, MayTake(h, f, x), h[f.at].kind = Kind(p), h[f.at].kids = Kids(p),
         Kids(p)' = Added(h, f, x)
  PROVE  Filling(p)'
<1>1. Kids(p) \in Seq(CopyValue)
  BY DEF MayTake, Keyed
<1> QED
  BY <1>1, AddedToArray, GivenToArray

LEMMA SetIsGiven ==
  ASSUME NEW p, NEW j, NEW x, Gives(p, j, x), Kind(p) = "set",
         NEW h, NEW f, MayTake(h, f, x), h[f.at].kind = Kind(p), h[f.at].kids = Kids(p),
         Kids(p)' = Added(h, f, x), Compares(h)
  PROVE  Filling(p)'
<1>1. Kids(p) \in Seq(CopyValue) /\ x \in CopyValue
  BY DEF MayTake, Keyed
<1>2. ASSUME Kids(p)' = Kids(p), \E i \in DOMAIN Kids(p) : Same(h, Kids(p)[i], x)
      PROVE  Joins(p, x, h)
  BY <1>2 DEF Joins
<1>3. ASSUME Kids(p)' = Append(Kids(p), Stored(h, x))
      PROVE  Joins(p, x, h)
  <2>1. Stored(h, x) \in CopyValue /\ KeptAs(Stored(h, x), x)
    BY <1>1, CopyFacts, StoredIsKept
  <2>2. PICK n : n = Len(Kids(p)) + 1
    OBVIOUS
  <2>3. /\ DOMAIN Kids(p)' = DOMAIN Kids(p) \cup {n} /\ n \notin DOMAIN Kids(p)
        /\ Kids(p)'[n] = Stored(h, x) /\ \A l \in DOMAIN Kids(p) : Kids(p)'[l] = Kids(p)[l]
    BY <1>1, <1>3, <2>1, <2>2, Appended
  <2> QED
    BY <2>1, <2>3 DEF Joins
<1>4. Joins(p, x, h)
  BY <1>2, <1>3, AddedToSet
<1> QED
  BY <1>4, GivenToSet

LEMMA PairIsGiven ==
  ASSUME NEW p, NEW j, NEW x, Gives(p, j, x), Kind(p) \in Keyed,
         NEW h, NEW f, MayTake(h, f, x), h[f.at].kind = Kind(p), h[f.at].kids = Kids(p),
         Kids(p)' = Added(h, f, x), Compares(h),
         f.key # NoKey <=> j % 2 = 0,
         f.key # NoKey => f.key = ValueAt(p, j - 1)
  PROVE  Filling(p)'
<1>1. /\ Kids(p) \in Seq(Pair) /\ x \in CopyValue /\ f.key \in CopyValue \cup {NoKey}
      /\ j \in Nat /\ DOMAIN jsval[p] \subseteq Nat /\ j \in DOMAIN jsval[p]
      /\ p \in DOMAIN seen /\ EncoderTyped
  BY GivenFacts DEF MayTake, Keyed, Gives, DInv, EInv
<1>2. CASE f.key = NoKey
  <2>1. j % 2 = 1
    BY <1>1, <1>2
  <2>2. Kids(p)' = Kids(p)
    BY <1>2, AddedToKeyed
  <2> QED
    BY <2>1, <2>2, KeyGiven
<1>3. CASE f.key # NoKey
  <2>1. PICK i, y : i = j - 1 /\ y = f.key
    OBVIOUS
  <2>2. i \in DOMAIN jsval[p] /\ i + 1 = j /\ i % 2 = 1 /\ y = ValueAt(p, i) /\ y \in CopyValue
    <3>1. jsval[p] \in Seq(Item)
      BY <1>1 DEF EncoderTyped
    <3>2. j % 2 = 0 /\ j \in 1..Len(jsval[p])
      BY <1>1, <1>3, <3>1
    <3>3. j # 1 /\ i \in DOMAIN jsval[p] /\ i \in Nat /\ i + 1 = j
      BY <1>1, <2>1, <3>1, <3>2
    <3>4. i % 2 # 0
      <4>1. (i + 1) % 2 = 0
        BY <3>2, <3>3
      <4> QED
        BY <3>3, <4>1, ParityTurns
    <3>5. i % 2 = 1
      BY <3>3, <3>4
    <3> QED
      BY <1>1, <1>3, <2>1, <3>3, <3>5
  <2>3. \/ /\ \E l \in DOMAIN Kids(p) : Same(h, Kids(p)[l][1], y)
           /\ DOMAIN Kids(p)' = DOMAIN Kids(p)
           /\ \A l \in DOMAIN Kids(p) :
                \/ Kids(p)'[l] = <<Kids(p)[l][1], x>> /\ Same(h, Kids(p)[l][1], y)
                \/ Kids(p)'[l] = Kids(p)[l] /\ ~Same(h, Kids(p)[l][1], y)
        \/ /\ \A l \in DOMAIN Kids(p) : ~Same(h, Kids(p)[l][1], y)
           /\ Kids(p)' = Append(Kids(p), <<Stored(h, y), x>>)
    BY <1>3, <2>1, AddedToKeyed
  <2>4. ASSUME \E l \in DOMAIN Kids(p) : Same(h, Kids(p)[l][1], y),
               DOMAIN Kids(p)' = DOMAIN Kids(p),
               \A l \in DOMAIN Kids(p) :
                 \/ Kids(p)'[l] = <<Kids(p)[l][1], x>> /\ Same(h, Kids(p)[l][1], y)
                 \/ Kids(p)'[l] = Kids(p)[l] /\ ~Same(h, Kids(p)[l][1], y)
        PROVE  Pairs(p, y, x, h)
    <3>1. \A l \in DOMAIN Kids(p) :
            /\ l \in DOMAIN Kids(p)' /\ Kids(p)'[l][1] = Kids(p)[l][1]
            /\ Same(h, Kids(p)[l][1], y) => Kids(p)'[l][2] = x
            /\ ~Same(h, Kids(p)[l][1], y) => Kids(p)'[l][2] = Kids(p)[l][2]
      BY <2>4
    <3> QED
      BY <2>4, <3>1 DEF Pairs
  <2>5. ASSUME \A l \in DOMAIN Kids(p) : ~Same(h, Kids(p)[l][1], y),
               Kids(p)' = Append(Kids(p), <<Stored(h, y), x>>)
        PROVE  Pairs(p, y, x, h)
    <3>1. PICK c : c = <<Stored(h, y), x>>
      OBVIOUS
    <3>2. c \in Pair /\ KeptAs(c[1], y) /\ c[2] = x
      BY <1>1, <2>2, <3>1, CopyFacts, StoredIsKept DEF Pair
    <3>3. PICK n : n = Len(Kids(p)) + 1
      OBVIOUS
    <3>4. /\ DOMAIN Kids(p)' = DOMAIN Kids(p) \cup {n} /\ n \notin DOMAIN Kids(p)
          /\ Kids(p)'[n] = c /\ \A l \in DOMAIN Kids(p) : Kids(p)'[l] = Kids(p)[l]
      BY <1>1, <2>5, <3>1, <3>2, <3>3, Appended
    <3> QED
      BY <2>5, <3>2, <3>4 DEF Pairs
  <2>6. Pairs(p, y, x, h)
    BY <2>3, <2>4, <2>5
  <2> QED
    BY <2>2, <2>6, ValueGiven
<1> QED
  BY <1>2, <1>3

LEMMA PathGoes ==
  ASSUME DInv, PathReaches, UNCHANGED <<to, kindOf, seen, jsval, source>>,
         NEW m, NEW x, GoesOn(m, x)
  PROVE  PathReaches'
<1>1. /\ DOMAIN walk' = 1..m /\ m \in DOMAIN walk /\ \A k \in 1..(m - 1) : walk'[k] = walk[k]
      /\ walk'[m].id = walk[m].id
  BY DEF GoesOn
<1>2. DOMAIN walk = 1..Len(walk) /\ Len(walk) \in Nat
  BY WalkFacts DEF DInv, EInv
<1>3. \A k \in DOMAIN walk' : k \in DOMAIN walk /\ walk'[k].id = walk[k].id
  BY <1>1, <1>2
<1>4. ASSUME NEW k \in DOMAIN walk', NEW l \in DOMAIN walk', k <= l,
             NEW o, o = seen[walk[k].id], NEW p, p = seen[walk[l].id]
      PROVE  Reaches(o, p)'
  <2>1. Reaches(o, p)
    BY <1>3, <1>4 DEF PathReaches
  <2> QED
    BY <2>1, Fixed
<1>5. ASSUME NEW k \in DOMAIN walk', NEW l \in DOMAIN walk', k <= l
      PROVE  Reaches(seen[walk[k].id], seen[walk[l].id])'
  <2>1. PICK o, p : o = seen[walk[k].id] /\ p = seen[walk[l].id]
    OBVIOUS
  <2>2. Reaches(o, p)'
    BY <1>4, <1>5, <2>1
  <2>3. o = seen'[walk'[k].id] /\ p = seen'[walk'[l].id]
    BY <1>3, <1>5, <2>1
  <2> QED
    BY <2>2, <2>3
<1> QED
  BY <1>5 DEF PathReaches

LEMMA KeyIsTaken ==
  ASSUME DInv, NEW k \in DOMAIN walk, walk[k].key # NoKey
  PROVE  Taken(walk[k].id, walk[k].next - 1)
<1>1. PICK id, n : id = walk[k].id /\ n = walk[k].next
  OBVIOUS
<1>2. id \in DOMAIN seen /\ n \in Nat /\ jsval[id] \in Seq(Item)
  BY <1>1, WalkFacts DEF DInv, EInv
<1>3. n \in 1..(Len(jsval[id]) + 1) /\ n % 2 = 0
  BY <1>1 DEF DInv, WalkStands, Decodes
<1>4. n # 1
  BY <1>3
<1>5. n - 1 \in DOMAIN jsval[id] /\ n - 1 < n
  BY <1>2, <1>3, <1>4
<1> QED
  BY <1>1, <1>5, TakenIs

LEMMA KeysGo ==
  ASSUME Proceeds, KeyWaits, \A q \in Built : Filling(q), NEW m, NEW x, GoesOn(m, x),
         NEW p, p = walk[m].id, NEW j, j = walk[m].next, x = ValueAt(p, j)'
  PROVE  KeyWaits'
<1>1. /\ DOMAIN walk' = 1..m /\ m \in DOMAIN walk /\ \A k \in 1..(m - 1) : walk'[k] = walk[k]
      /\ walk'[m].id = p /\ walk'[m].next = j + 1 /\ walk'[m].key \in {x, NoKey}
  BY DEF GoesOn
<1>2. DOMAIN walk = 1..Len(walk) /\ Len(walk) \in Nat /\ \A k \in DOMAIN walk : walk[k].next \in Nat
  BY WalkFacts DEF Proceeds, DInv, EInv
<1>3. ASSUME NEW k \in DOMAIN walk', walk'[k].key # NoKey, NEW q, q = walk'[k].id,
             NEW i, i = walk'[k].next - 1
      PROVE  walk'[k].key = ValueAt(q, i)'
  <2>1. CASE k = m
    <3>1. q = p /\ i = j
      BY <1>1, <1>2, <1>3, <2>1
    <3> QED
      BY <1>1, <1>3, <2>1, <3>1
  <2>2. CASE k # m
    <3>1. walk'[k] = walk[k] /\ k \in DOMAIN walk
      BY <1>1, <1>2, <1>3, <2>2
    <3>2. Taken(q, i) /\ q \in Built /\ walk[k].key = ValueAt(q, i)
      BY <1>3, <3>1, KeyIsTaken, ActivationFacts DEF KeyWaits, Proceeds
    <3>3. ValueAt(q, i)' = ValueAt(q, i)
      BY <3>2, ValuesStay DEF Filling
    <3> QED
      BY <3>1, <3>2, <3>3
  <2> QED
    BY <2>1, <2>2
<1>4. ASSUME NEW k \in DOMAIN walk', walk'[k].key # NoKey
      PROVE  (walk[k].key = ValueAt(walk[k].id, walk[k].next - 1))'
  <2>1. PICK q, i : q = walk'[k].id /\ i = walk'[k].next - 1
    OBVIOUS
  <2>2. walk'[k].key = ValueAt(q, i)'
    BY <1>3, <1>4, <2>1
  <2> QED
    BY <2>1, <2>2
<1> QED
  BY <1>4 DEF KeyWaits

LEMMA TakesKeep ==
  ASSUME KInv, DInv', KeysAreNames', phase = "decode",
         UNCHANGED <<to, kindOf, seen, jsval, source>>,
         NEW m, NEW x, NEW copies, Takes(m, x, copies),
         \A id \in Built : built'[id] = built[id],
         \A id \in Built' : id \in Built \/ (Kids(id)' = <<>> /\ jsval[id] = <<>>),
         NEW p, p = walk[m].id, NEW j, j = walk[m].next, x = ValueAt(p, j)',
         jsval[p][j][1] \in {"node", "ref"} =>
           jsval[p][j][2] \in Built' \/ Kind(jsval[p][j][2]) = "refusing"
  PROVE  PathReaches' /\ KeyWaits' /\ CopiesStand'
<1>1. DInv /\ PathReaches /\ KeyWaits /\ \A q \in Built : Filling(q)
  BY DEF KInv, CopiesStand
<1>2. PICK f : f = walk[m]
  OBVIOUS
<1>3. /\ m \in DOMAIN walk /\ GoesOn(m, x) /\ Returns(m) /\ Extends(copies) /\ x \in CopyValue
      /\ MayTake(copies, f, x) /\ copies[f.at] = heap[f.at]
      /\ heap'[f.at].kids = Added(copies, f, x)
      /\ \A a \in DOMAIN copies : a # f.at => heap'[a] = copies[a]
  BY <1>2 DEF Takes, GraftDoes, Filled
<1>4. Fills /\ Compares(copies)
  BY <1>1, TakesFills
<1>5. Proceeds
  <2>1. \A id \in Built' : id \in Built \/ (Kids(id)' = <<>> /\ \A i : ~Taken(id, i)')
    BY DEF Taken
  <2> QED
    BY <1>1, <1>4, <2>1 DEF Proceeds
<1>6. /\ p \in Built /\ p \in DOMAIN seen /\ built[p] = f.at /\ heap[f.at].kind = Kind(p)
      /\ Kind(p) \in {"array", "set"} \cup Keyed
  BY <1>1, <1>2, <1>3, ActivationFacts
<1>7. copies[f.at].kids = Kids(p) /\ Kids(p)' = Added(copies, f, x)
  BY <1>3, <1>6 DEF Kids
<1>8. /\ \A q \in DOMAIN seen : \A i : Taken(q, i)' <=> Taken(q, i) \/ (q = p /\ i = j)
      /\ \A i : Taken(p, i) <=> i \in DOMAIN jsval[p] /\ i < j
  BY <1>1, <1>3, TakenGoes, TakenIs
<1>9. PathReaches' /\ KeyWaits'
  BY <1>1, <1>3, <1>5, PathGoes, KeysGo
<1>10. ASSUME NEW q \in Built, q # p PROVE Filling(q)'
  <2>1. q \in DOMAIN seen
    BY <1>5, BuiltStays
  <2>2. built[q] # f.at /\ built[q] \in DOMAIN heap
    BY <1>1, <1>6, <1>10, BuiltFacts DEF DInv, TableStands, HeapStands
  <2>3. heap'[built[q]] = heap[built[q]]
    BY <1>3, <2>2 DEF Extends
  <2>4. Kids(q)' = Kids(q)
    BY <2>3 DEF Kids
  <2> QED
    BY <1>1, <1>5, <1>8, <1>10, <2>1, <2>4, FillingStays
<1>11. ASSUME NEW q \in Built', q \notin Built PROVE Filling(q)'
  BY <1>5, <1>11, NewFilling DEF Proceeds
<1>12. j \in DOMAIN jsval[p]
  <2>1. walk[m].next <= Len(jsval[p]) /\ walk[m].next \in 1..(Len(jsval[p]) + 1)
    BY <1>1, <1>3 DEF GoesOn, DInv, WalkStands, Decodes
  <2>2. jsval[p] \in Seq(Item)
    BY <1>1, <1>6 DEF DInv, EInv, EncoderTyped
  <2> QED
    BY <2>1, <2>2
<1>13. ASSUME Sure(p), Hashed(p, j) PROVE Comparable(x)'
  <2>1. TopSettles'
    BY TopIsSettled, PTL
  <2>2. walk' # <<>> /\ Frame' = walk'[m] /\ walk'[m].id = p
    <3>1. walk' \in Seq(Activation) /\ Len(walk') = m /\ walk'[m].id = p /\ m \in DOMAIN walk'
      <4>1. DOMAIN walk' = 1..m /\ m \in Nat /\ m \in 1..m
        BY <1>1, <1>3, WalkFacts DEF GoesOn, DInv, EInv
      <4> QED
        BY <1>3, <4>1 DEF GoesOn
    <3> QED
      BY <3>1 DEF Frame, Last
  <2>3. \A c \in Built' : c = p \/ Comes(c)'
    BY <1>10, <1>11 DEF Filling
  <2>4. to' = "ruby" =>
          \A i \in DOMAIN jsval'[p] : Sure(p)' /\ Hashed(p, i)' => Settled(ValueAt(p, i))'
    <3>1. PICK b : b = Frame'.id
      OBVIOUS
    <3>2. b = p
      BY <2>2, <3>1
    <3>3. to' = "ruby" =>
          \A i \in DOMAIN jsval'[b] : Sure(b)' /\ Hashed(b, i)' => Settled(ValueAt(b, i))'
      BY <1>9, <2>1, <2>2, <2>3, <3>1 DEF TopSettles
    <3> QED
      BY <3>2, <3>3
  <2>5. Sure(p)' /\ Hashed(p, j)'
    BY <1>13, Fixed
  <2> QED
    BY <1>12, <2>4, <2>5 DEF Comparable
<1>14. Gives(p, j, x)
  BY <1>1, <1>3, <1>5, <1>6, <1>8, <1>12, <1>13 DEF Gives
<1>15. Filling(p)'
  <2>1. CASE Kind(p) = "array"
    BY <1>3, <1>6, <1>7, <1>14, <2>1, ArrayIsGiven
  <2>2. CASE Kind(p) = "set"
    BY <1>3, <1>4, <1>6, <1>7, <1>14, <2>2, SetIsGiven
  <2>3. CASE Kind(p) \in Keyed
    <3>1. f.key # NoKey <=> j % 2 = 0
      BY <1>1, <1>2, <1>3, <2>3 DEF DInv, WalkStands, Decodes
    <3>2. f.key # NoKey => f.key = ValueAt(p, j - 1)
      BY <1>1, <1>2, <1>3 DEF KeyWaits
    <3> QED
      BY <1>3, <1>4, <1>6, <1>7, <1>14, <2>3, <3>1, <3>2, PairIsGiven
  <2> QED
    BY <1>6, <2>1, <2>2, <2>3
<1> QED
  BY <1>9, <1>10, <1>11, <1>15 DEF CopiesStand

(* Item p, j names n: the copy of n is what it is. *)
LEMMA NamedValue ==
  ASSUME jsval' = jsval, NEW p, NEW j, NEW n, jsval[p][j] \in {<<"node", n>>, <<"ref", n>>},
         built'[n] # 0
  PROVE  ValueAt(p, j)' = <<"copy", built'[n]>>
<1>1. jsval[p][j][1] \in {"node", "ref"} /\ jsval[p][j][2] = n
  OBVIOUS
<1> QED
  BY <1>1 DEF ValueAt, Resolved

LEMMA CopiesAfterValue ==
  ASSUME KInv, DInv', KeysAreNames', DecodeValue
  PROVE  KInv'
<1>1. PICK p, j, m, x :
         p = walk[m].id /\ j = walk[m].next /\ m = Len(walk) /\ x = ValueOf(jsval[p][j])
  OBVIOUS
<1>2. DInv /\ Decoding /\ ~Finished /\ EncoderTyped /\ ItemsStand /\ WalkStands /\ walk # <<>>
  BY DEF DecodeValue, KInv, DInv, EInv, Decoding
<1>3. m \in DOMAIN walk /\ Frame = walk[m] /\ p = Frame.id /\ j = Frame.next /\ p \in DOMAIN seen
  BY <1>1, <1>2, TopFacts, WalkFacts
<1>4. /\ j \in DOMAIN jsval[p] /\ jsval[p][j] \in Item /\ jsval[p][j][1] # "node"
      /\ Takes(m, x, heap)
      /\ phase' = phase /\ UNCHANGED <<to, kindOf, seen, open, jsval, source, built>>
  BY <1>1, <1>2, <1>3, ValueTakes
<1>5. x = ValueAt(p, j)'
  BY <1>1, <1>4 DEF ValueOf, ValueAt, Resolved
<1>6. jsval[p][j][1] \in {"node", "ref"} =>
        jsval[p][j][2] \in Built' \/ Kind(jsval[p][j][2]) = "refusing"
  <2>1. ASSUME jsval[p][j][1] = "ref"
        PROVE  jsval[p][j][2] \in Built \/ Kind(jsval[p][j][2]) = "refusing"
    <3>1. PICK n : n = jsval[p][j][2]
      OBVIOUS
    <3>2. jsval[p][j] = <<"ref", n>> /\ n \in DOMAIN seen
      BY <1>2, <1>3, <1>4, <2>1, <3>1, ItemNames, ItemFacts
    <3> QED
      BY <1>2, <1>3, <3>1, <3>2, ReferencesResolve
  <2> QED
    BY <1>4, <2>1 DEF Built
<1>7. Built' = Built /\ phase = "decode"
  BY <1>2, <1>4 DEF Built, Decoding
<1> HIDE DEF KInv
<1>8. PathReaches' /\ KeyWaits' /\ CopiesStand'
  BY <1>1, <1>4, <1>5, <1>6, <1>7, TakesKeep
<1> QED
  BY <1>8 DEF KInv

LEMMA CopiesAfterBytes ==
  ASSUME KInv, DInv', KeysAreNames', DecodeBytes
  PROVE  KInv'
<1>1. PICK p, j, m, x, c :
         /\ p = walk[m].id /\ j = walk[m].next /\ m = Len(walk)
         /\ x = <<"copy", Len(heap) + 1>> /\ c = jsval[Frame.id][Frame.next][2]
  OBVIOUS
<1>2. /\ DInv /\ Decoding /\ EncoderTyped /\ ItemsStand /\ WalkStands /\ TableStands
      /\ HeapStands /\ walk # <<>>
  BY DEF DecodeBytes, KInv, DInv, EInv, Decoding
<1>3. m \in DOMAIN walk /\ Frame = walk[m] /\ p = Frame.id /\ j = Frame.next
  BY <1>1, <1>2, TopFacts
<1>4. /\ Takes(m, x, WithCopy(c)) /\ Node(p, j, c) /\ c \in DOMAIN seen /\ c \notin Built
      /\ Kind(c) = "bytes" /\ Register(c)
      /\ phase' = phase /\ UNCHANGED <<to, kindOf, seen, open, jsval, source>>
  BY <1>1, <1>2, <1>3, BytesTake
<1>5. c \in Id /\ built'[c] = Len(heap) + 1 /\ built'[c] # 0 /\ c \in Built'
      /\ \A id \in Id : id # c => built'[id] = built[id]
  <2>1. c \in Id /\ Len(heap) \in Nat /\ built' = [built EXCEPT ![c] = Len(heap) + 1]
    BY <1>2, <1>4, SeenFacts, HeapIsSmall DEF Register
  <2>2. DOMAIN built = Id
    BY <1>2 DEF TableStands
  <2> QED
    BY <2>1, <2>2 DEF Built
<1>6. jsval[p][j] = <<"node", c>>
  BY <1>4 DEF Node
<1>7. x = ValueAt(p, j)'
  <2>1. jsval' = jsval /\ jsval[p][j] \in {<<"node", c>>, <<"ref", c>>} /\ built'[c] # 0
    BY <1>4, <1>5, <1>6
  <2>2. ValueAt(p, j)' = <<"copy", built'[c]>>
    BY <2>1, NamedValue
  <2> QED
    BY <1>1, <1>5, <2>2
<1>8. \A id \in Built : built'[id] = built[id]
  BY <1>4, <1>5 DEF Built
<1>9. Kids(c)' = <<>> /\ jsval[c] = <<>>
  <2>1. jsval[c] = <<>>
    BY <1>2, <1>4 DEF ItemsStand, Leaflike
  <2>2. PICK copies : copies = WithCopy(c)
    OBVIOUS
  <2>3. /\ Len(heap) + 1 \in DOMAIN copies /\ Len(heap) + 1 \notin DOMAIN heap
        /\ copies[Len(heap) + 1].kids = <<>>
    BY <1>2, <1>4, <2>2, CopyAllocated
  <2>4. walk[m].at \in DOMAIN heap
    BY <1>2, <1>3, ActivationFacts
  <2>5. heap'[Len(heap) + 1] = copies[Len(heap) + 1]
    BY <1>4, <2>2, <2>3, <2>4 DEF Takes, GraftDoes
  <2> QED
    BY <1>5, <2>1, <2>3, <2>5 DEF Kids
<1>10. \A id \in Built' : id \in Built \/ (Kids(id)' = <<>> /\ jsval[id] = <<>>)
  <2>1. ASSUME NEW id \in Built', id # c PROVE id \in Built
    BY <1>5, <2>1 DEF Built
  <2>2. ASSUME NEW id, id = c PROVE Kids(id)' = <<>> /\ jsval[id] = <<>>
    BY <1>9, <2>2
  <2> QED
    BY <2>1, <2>2
<1>11. jsval[p][j][1] \in {"node", "ref"} =>
         jsval[p][j][2] \in Built' \/ Kind(jsval[p][j][2]) = "refusing"
  BY <1>5, <1>6
<1>12. phase = "decode"
  BY <1>2 DEF Decoding
<1>13. PICK copies : copies = WithCopy(c)
  OBVIOUS
<1>14. /\ Takes(m, x, copies) /\ p = walk[m].id /\ j = walk[m].next
       /\ UNCHANGED <<to, kindOf, seen, jsval, source>>
  BY <1>1, <1>4, <1>13
<1>15. PathReaches' /\ KeyWaits' /\ CopiesStand'
  BY <1>7, <1>8, <1>10, <1>11, <1>12, <1>14, TakesKeep
<1> QED
  BY <1>15 DEF KInv

LEMMA CopiesAtTheEnd ==
  ASSUME KInv, DInv', KeysAreNames', Ascend, Len(walk) = 1
  PROVE  KInv'
<1>1. /\ DInv /\ walk # <<>> /\ Finished /\ phase = "decode" /\ walk' = <<>>
      /\ UNCHANGED <<to, kindOf, seen, jsval, source, built, heap>>
  BY DEF Ascend, Decoding, encoder, KInv
<1>2. Frame = walk[1] /\ DOMAIN walk = {1} /\ Frame.next = Len(jsval[Frame.id]) + 1
      /\ Frame.id \in DOMAIN seen /\ EncoderTyped
  <2>1. EncoderTyped /\ WalkStands /\ Len(walk) = 1
    BY <1>1 DEF DInv, EInv
  <2>2. Frame = walk[1] /\ DOMAIN walk = 1..1 /\ Frame.next = Len(jsval[Frame.id]) + 1
    BY <1>1, <2>1, TopFacts, WalkFacts
  <2>3. Frame.id \in DOMAIN seen
    BY <2>1, <2>2, WalkFacts
  <2> QED
    BY <2>1, <2>2, <2>3
<1>3. Built' = Built /\ \A q : Kids(q)' = Kids(q)
  BY <1>1 DEF Built, Kids
<1>4. ASSUME NEW q \in DOMAIN seen, NEW i PROVE Taken(q, i)' <=> Taken(q, i)
  <2>1. Taken(q, i)' <=> i \in DOMAIN jsval[q]
    BY <1>1 DEF Taken
  <2>2. i \in DOMAIN jsval[q] /\ q = Frame.id => i < Frame.next
    BY <1>2 DEF EncoderTyped
  <2>3. Taken(q, i) <=> i \in DOMAIN jsval[q]
    BY <1>2, <2>2 DEF Taken
  <2> QED
    BY <2>1, <2>3
<1>5. Fills
  BY <1>1 DEF Fills, DInv, HeapStands
<1>6. Proceeds
  BY <1>1, <1>3, <1>5 DEF Proceeds
<1>7. ASSUME NEW q \in Built PROVE Filling(q)'
  <2>1. Filling(q) /\ q \in DOMAIN seen
    BY <1>1, <1>6, BuiltStays DEF KInv, CopiesStand
  <2> QED
    BY <1>3, <1>4, <1>6, <2>1, FillingStays
<1>8. CopiesStand'
  BY <1>3, <1>7 DEF CopiesStand
<1>9. PathReaches' /\ KeyWaits'
  BY <1>1 DEF PathReaches, KeyWaits
<1> QED
  BY <1>8, <1>9 DEF KInv

LEMMA CopiesAfterAscend ==
  ASSUME KInv, DInv', KeysAreNames', Ascend
  PROVE  KInv'
<1>1. CASE Len(walk) = 1
  BY <1>1, CopiesAtTheEnd
<1>2. CASE Len(walk) # 1
  <2>1. PICK p, j, m, x :
          p = walk[m].id /\ j = walk[m].next /\ m = Len(walk) - 1 /\ x = <<"copy", Frame.at>>
    OBVIOUS
  <2>2. DInv /\ EncoderTyped /\ WalkStands /\ TableStands
    BY DEF KInv, DInv, EInv
  <2>3. /\ Takes(m, x, heap) /\ m \in DOMAIN walk /\ Decoding
        /\ phase' = phase /\ UNCHANGED <<to, kindOf, seen, open, jsval, source, built>>
    BY <1>2, <2>1, <2>2, AscendTakes
  <2>4. /\ Len(walk) \in DOMAIN walk /\ Frame = walk[Len(walk)] /\ m + 1 = Len(walk)
        /\ walk # <<>>
    <3>1. walk # <<>>
      BY <2>3 DEF Decoding
    <3>2. Len(walk) \in Nat
      BY <2>2, WalkFacts
    <3> QED
      BY <2>1, <2>2, <3>1, <3>2, TopFacts
  <2>5. PICK c : c = Frame.id
    OBVIOUS
  <2>6. jsval[p][j] = <<"node", c>>
    <3>1. Node(walk[m].id, walk[m].next, walk[m + 1].id)
      BY <2>2, <2>3, <2>4 DEF WalkStands
    <3> QED
      BY <2>1, <2>4, <2>5, <3>1 DEF Node
  <2>7. c \in Built /\ built[c] = Frame.at
    BY <2>2, <2>4, <2>5, ActivationFacts
  <2>8. Built' = Built /\ built'[c] = Frame.at /\ built'[c] # 0
    BY <2>3, <2>7 DEF Built
  <2>9. x = ValueAt(p, j)'
    <3>1. jsval' = jsval /\ jsval[p][j] \in {<<"node", c>>, <<"ref", c>>}
      BY <2>3, <2>6
    <3>2. ValueAt(p, j)' = <<"copy", built'[c]>>
      BY <2>8, <3>1, NamedValue
    <3> QED
      BY <2>1, <2>8, <3>2
  <2>10. jsval[p][j][1] \in {"node", "ref"} =>
           jsval[p][j][2] \in Built' \/ Kind(jsval[p][j][2]) = "refusing"
    BY <2>6, <2>7, <2>8
  <2>11. phase = "decode"
    BY <2>3 DEF Decoding
  <2>12. PathReaches' /\ KeyWaits' /\ CopiesStand'
    BY <2>1, <2>3, <2>8, <2>9, <2>10, <2>11, TakesKeep
  <2> QED
    BY <2>12 DEF KInv
<1> QED
  BY <1>1, <1>2

LEMMA CopiesAfterDescend ==
  ASSUME KInv, DInv', KeysAreNames', Descend
  PROVE  KInv'
<1>1. DInv /\ PathReaches /\ KeyWaits
  BY DEF KInv
<1>2. PICK c : /\ Deepens(c) /\ c \in DOMAIN seen /\ c \in Id /\ c \notin Built
               /\ Kind(c) # "refusing" /\ Register(c) /\ heap' = WithCopy(c)
               /\ phase = "decode" /\ phase' = "decode"
               /\ UNCHANGED <<to, kindOf, seen, open, jsval, source, swallowed>>
  BY <1>1, DescendDoes
<1>3. /\ EncoderTyped /\ HeapStands /\ TableStands /\ WalkStands /\ TreeIsTree /\ ItemsStand
      /\ \A q \in Built : Filling(q)
  BY <1>1, <1>2 DEF DInv, EInv, KInv, CopiesStand
<1>4. /\ built'[c] = Len(heap) + 1 /\ \A id \in Id : id # c => built'[id] = built[id]
      /\ Len(heap) \in Nat
  <2>1. built' = [built EXCEPT ![c] = Len(heap) + 1] /\ DOMAIN built = Id
    BY <1>2, <1>3 DEF Register, TableStands
  <2> QED
    BY <1>2, <1>3, <2>1, HeapIsSmall
<1>5. /\ Extends(heap') /\ DOMAIN heap \subseteq DOMAIN heap'
      /\ heap'[Len(heap) + 1].kids = <<>> /\ Len(heap) + 1 \notin DOMAIN heap
      /\ \A a \in DOMAIN heap : heap'[a] = heap[a]
  BY <1>2, <1>3, CopyAllocated DEF Extends
<1>6. Len(heap) + 1 \in Object
  <2>1. /\ Len(heap') = Len(heap) + 1 /\ heap'[Len(heap) + 1].kind = Kind(c)
        /\ \A a \in 1..Len(heap) : heap'[a].kind = heap[a].kind
    BY <1>2, <1>3, CopyAllocated DEF Extends
  <2>2. Root \in Built \cup {c} /\ phase' # "encode"
    BY <1>2, <1>3 DEF TableStands
  <2> QED
    BY <1>2, <1>3, <2>1, <2>2, TableGrows
<1>7. PICK n : n = Len(walk) + 1
  OBVIOUS
<1>8. /\ DOMAIN walk' = DOMAIN walk \cup {n} /\ n \notin DOMAIN walk
      /\ \A k \in DOMAIN walk : walk'[k] = walk[k] /\ walk[k].id # c /\ k < n
      /\ walk'[n].id = c /\ walk'[n].at = Len(heap) + 1 /\ walk'[n].next = 1
      /\ walk'[n].key = NoKey
  <2>1. /\ DOMAIN walk' = DOMAIN walk \cup {n} /\ n \notin DOMAIN walk
        /\ \A k \in DOMAIN walk : walk'[k] = walk[k]
        /\ walk'[n] = NewFrame(c)
        /\ c \in Nat /\ \A k \in DOMAIN walk : walk[k].id < c
    BY <1>2, <1>3, <1>6, <1>7, DeepWalk
  <2>2. DOMAIN walk = 1..Len(walk) /\ Len(walk) \in Nat /\ \A k \in DOMAIN walk : walk[k].id \in Nat
    BY <1>3, WalkFacts
  <2> QED
    BY <1>7, <2>1, <2>2 DEF NewFrame
<1>9. Fills
  <2>1. heap \in Seq(Copy) /\ heap' \in Seq(Copy)
    BY <1>5 DEF Extends
  <2> QED
    BY <1>2, <1>5, <1>8, <2>1 DEF Fills
<1>10. /\ \A id \in Built : built'[id] = built[id] /\ id # c /\ Kids(id)' = Kids(id)
       /\ Kids(c)' = <<>>
  <2>1. \A id \in Built : id # c /\ built'[id] = built[id] /\ built[id] \in DOMAIN heap
    BY <1>2, <1>3, <1>4, BuiltFacts DEF Built, HeapStands
  <2> QED
    BY <1>4, <1>5, <2>1 DEF Kids
<1>11. /\ \A q \in Built : \A i : Taken(q, i)' <=> Taken(q, i)
       /\ \A i : ~Taken(c, i)'
  <2>1. ASSUME NEW q \in Built, NEW i PROVE Taken(q, i)' <=> Taken(q, i)
    BY <1>2, <1>8, <1>10, <2>1 DEF Taken
  <2>2. ASSUME NEW i, Taken(c, i)' PROVE FALSE
    <3>1. i \in DOMAIN jsval[c] /\ i < 1
      BY <1>2, <1>8, <2>2 DEF Taken
    <3> QED
      BY <1>2, <1>3, <3>1 DEF EncoderTyped
  <2> QED
    BY <2>1, <2>2
<1>12. Proceeds
  <2>1. ASSUME NEW id \in Built', id # c PROVE id \in Built
    BY <1>4, <2>1 DEF Built
  <2> QED
    BY <1>1, <1>2, <1>9, <1>10, <1>11, <2>1 DEF Proceeds
<1>13. CopiesStand'
  <2>1. ASSUME NEW q \in Built PROVE Filling(q)'
    BY <1>3, <1>10, <1>11, <1>12, <2>1, FillingStays
  <2>2. ASSUME NEW q \in Built', q \notin Built PROVE Filling(q)'
    BY <1>12, <2>2, NewFilling DEF Proceeds
  <2> QED
    BY <2>1, <2>2 DEF CopiesStand
<1>14. KeyWaits'
  <2>1. ASSUME NEW k \in DOMAIN walk, walk[k].key # NoKey, NEW q, q = walk[k].id,
               NEW i, i = walk[k].next - 1
        PROVE  walk[k].key = ValueAt(q, i)'
    <3>1. Taken(q, i) /\ q \in Built /\ walk[k].key = ValueAt(q, i)
      BY <1>1, <2>1, KeyIsTaken, ActivationFacts DEF KeyWaits
    <3>2. ValueAt(q, i)' = ValueAt(q, i)
      BY <1>3, <1>12, <3>1, ValuesStay DEF Filling
    <3> QED
      BY <3>1, <3>2
  <2>2. ASSUME NEW k \in DOMAIN walk', walk'[k].key # NoKey
        PROVE  (walk[k].key = ValueAt(walk[k].id, walk[k].next - 1))'
    <3>1. k \in DOMAIN walk /\ walk'[k] = walk[k]
      BY <1>8, <2>2
    <3>2. PICK q, i : q = walk[k].id /\ i = walk[k].next - 1
      OBVIOUS
    <3>3. walk[k].key = ValueAt(q, i)'
      BY <2>1, <2>2, <3>1, <3>2
    <3> QED
      BY <3>1, <3>2, <3>3
  <2> QED
    BY <2>2 DEF KeyWaits
<1>15. PathReaches'
  <2>1. ASSUME NEW k \in DOMAIN walk', NEW l \in DOMAIN walk', k <= l,
               NEW o, o = seen[walk'[k].id], NEW p, p = seen[walk'[l].id]
        PROVE  Reaches(o, p)
    <3>1. CASE l \in DOMAIN walk
      <4>1. k # n
        <5>1. DOMAIN walk = 1..Len(walk) /\ Len(walk) \in Nat
          BY <1>3, WalkFacts
        <5> QED
          BY <1>7, <2>1, <3>1, <5>1
      <4> QED
        BY <1>1, <1>8, <2>1, <3>1, <4>1 DEF PathReaches
    <3>2. CASE l = n
      <4>1. CASE k = n
        BY <2>1, <3>2, <4>1, ReachesSelf
      <4>2. CASE k \in DOMAIN walk
        <5>1. /\ Len(walk) \in DOMAIN walk /\ Frame = walk[Len(walk)] /\ Len(walk) \in Nat
              /\ DOMAIN walk = 1..Len(walk) /\ Frame.id \in DOMAIN seen
          BY <1>2, <1>3, TopFacts, WalkFacts DEF Deepens
        <5>2. k <= Len(walk)
          BY <4>2, <5>1
        <5>3. Reaches(o, seen[Frame.id])
          BY <1>1, <1>8, <2>1, <4>2, <5>1, <5>2 DEF PathReaches
        <5>4. Reaches(seen[Frame.id], seen[c])
          <6>1. /\ Frame.next \in DOMAIN jsval[Frame.id]
                /\ jsval[Frame.id][Frame.next] = <<"node", c>>
            BY <1>2 DEF Deepens, Node
          <6>2. /\ jsval[Frame.id][Frame.next][1] \in {"node", "ref"}
                /\ jsval[Frame.id][Frame.next][2] = c
            BY <6>1
          <6> QED
            BY <1>3, <5>1, <6>1, <6>2, ItemNames
        <5> QED
          BY <1>8, <2>1, <3>2, <5>3, <5>4, ReachesOn
      <4> QED
        BY <1>8, <2>1, <4>1, <4>2
    <3> QED
      BY <1>8, <2>1, <3>1, <3>2
  <2>2. ASSUME NEW k \in DOMAIN walk', NEW l \in DOMAIN walk', k <= l
        PROVE  Reaches(seen[walk[k].id], seen[walk[l].id])'
    <3>1. PICK o, p : o = seen[walk'[k].id] /\ p = seen[walk'[l].id]
      OBVIOUS
    <3>2. Reaches(o, p)'
      BY <1>2, <2>1, <2>2, <3>1, Fixed
    <3> QED
      BY <1>2, <3>1, <3>2
  <2> QED
    BY <2>2 DEF PathReaches
<1> QED
  BY <1>13, <1>14, <1>15 DEF KInv

LEMMA CopiesAfterStart ==
  ASSUME KInv, DInv', KeysAreNames', Start
  PROVE  KInv'
<1>1. DInv /\ EncoderTyped /\ HeapStands /\ TableStands
  BY DEF KInv, DInv, EInv
<1>2. /\ phase' = "decode" /\ heap' = WithCopy(Root) /\ Register(Root)
      /\ walk' = <<NewFrame(Root)>> /\ UNCHANGED <<to, kindOf, seen, jsval, source, swallowed>>
      /\ heap = <<>> /\ Built = {} /\ Root \in DOMAIN seen /\ Root \in Id
  BY <1>1, StartDoes
<1>3. PICK f : f = NewFrame(Root)
  OBVIOUS
<1>4. f.id = Root /\ f.next = 1 /\ f.key = NoKey
  BY <1>3 DEF NewFrame
<1>5. DOMAIN walk' = {1} /\ walk'[1] = f
  BY <1>2, <1>3
<1>6. Built' \subseteq {Root} /\ built'[Root] = Len(heap) + 1
  <2>1. built' = [built EXCEPT ![Root] = Len(heap) + 1] /\ DOMAIN built = Id
    BY <1>1, <1>2 DEF Register, TableStands
  <2> QED
    BY <1>2, <2>1 DEF Built
<1>7. Kids(Root)' = <<>>
  <2>1. heap'[Len(heap) + 1].kids = <<>>
    BY <1>1, <1>2, CopyAllocated
  <2> QED
    BY <1>6, <2>1 DEF Kids
<1>8. \A i : ~Taken(Root, i)'
  <2>1. ASSUME NEW i, Taken(Root, i)' PROVE FALSE
    <3>1. i \in DOMAIN jsval[Root] /\ i < 1
      BY <1>2, <1>4, <1>5, <2>1 DEF Taken
    <3> QED
      BY <1>1, <1>2, <3>1 DEF EncoderTyped
  <2> QED
    BY <2>1
<1>9. CopiesStand'
  BY <1>6, <1>7, <1>8, NewFilling DEF CopiesStand
<1>10. KeyWaits'
  BY <1>4, <1>5 DEF KeyWaits
<1>11. PathReaches'
  <2>1. PICK o : o = seen'[walk'[1].id]
    OBVIOUS
  <2>2. Reaches(o, o)'
    BY <1>2, ReachesSelf, Fixed
  <2> QED
    BY <1>5, <2>1, <2>2 DEF PathReaches
<1> QED
  BY <1>9, <1>10, <1>11 DEF KInv

LEMMA CopiesRest ==
  ASSUME KInv, DInv', KeysAreNames',
         \/ phase = "encode" /\ phase' = "encode" /\ walk' = walk
         \/ phase' = "raised" /\ walk' = <<>>
  PROVE  KInv'
<1>1. phase' \notin {"decode", "done"} /\ walk' = <<>>
  BY DEF KInv, DInv, WalkStands
<1> QED
  BY <1>1 DEF KInv, PathReaches, KeyWaits, CopiesStand

LEMMA CopiesUntouched ==
  ASSUME KInv, DInv', KeysAreNames', UNCHANGED vars
  PROVE  KInv'
<1>1. UNCHANGED <<phase, to, kindOf, seen, open, jsval, source, built, heap, walk, swallowed>>
  BY DEF vars, encoder, decoder
<1>2. /\ Built' = Built /\ \A q : Kids(q)' = Kids(q)
      /\ \A q, i : Taken(q, i)' <=> Taken(q, i)
  BY <1>1 DEF Built, Kids, Taken
<1>3. Fills
  BY <1>1 DEF Fills, KInv, DInv, HeapStands
<1>4. Proceeds
  BY <1>1, <1>2, <1>3 DEF Proceeds, KInv
<1>5. CopiesStand'
  BY <1>1, <1>2, <1>4, FillingStays DEF CopiesStand, KInv
<1>6. PathReaches'
  <2>1. ASSUME NEW k \in DOMAIN walk, NEW l \in DOMAIN walk, k <= l
        PROVE  Reaches(seen[walk[k].id], seen[walk[l].id])'
    <3>1. PICK o, p : o = seen[walk[k].id] /\ p = seen[walk[l].id]
      OBVIOUS
    <3>2. Reaches(o, p)'
      BY <1>1, <2>1, <3>1, Fixed DEF KInv, PathReaches
    <3> QED
      BY <1>1, <3>1, <3>2
  <2> QED
    BY <1>1, <2>1 DEF PathReaches
<1>7. KeyWaits'
  BY <1>1 DEF KInv, KeyWaits, ValueAt, Resolved
<1> QED
  BY <1>5, <1>6, <1>7 DEF KInv

LEMMA InitCopies == Init => KInv
<1> SUFFICES ASSUME Init PROVE KInv
  OBVIOUS
<1>1. DInv
  BY InitStands
<1>2. phase = "encode" /\ walk = <<>> /\ seen = <<Root>>
      /\ source = <<[depth |-> 0, read |-> <<>>]>>
  BY DEF Init
<1>3. KeysAreNames
  BY <1>2 DEF KeysAreNames
<1> QED
  BY <1>1, <1>2, <1>3 DEF KInv, PathReaches, KeyWaits, CopiesStand

LEMMA StepCopies ==
  ASSUME KInv, [Next]_vars
  PROVE  KInv'
<1>1. DInv /\ EInv /\ KeysAreNames
  BY DEF KInv, DInv
<1>2. DInv' /\ KeysAreNames'
  BY <1>1, StepStands, KeysStayNames
<1>3. ASSUME NEW v \in SourceValue, Read(v) PROVE KInv'
  <2>1. phase = "encode" /\ phase' = phase /\ walk' = walk
    BY <1>3 DEF Read, decoder
  <2> QED
    BY <1>2, <2>1, CopiesRest
<1>4. CASE Close
  <2>1. phase = "encode" /\ phase' = phase /\ walk' = walk
    BY <1>4 DEF Close, decoder
  <2> QED
    BY <1>2, <2>1, CopiesRest
<1>5. CASE Raise
  BY <1>2, <1>5, CopiesRest DEF Raise
<1>6. CASE UNCHANGED vars
  BY <1>2, <1>6, CopiesUntouched
<1> QED
  BY <1>2, <1>3, <1>4, <1>5, <1>6, CopiesAfterStart, CopiesAfterDescend, CopiesAfterBytes,
     CopiesAfterValue, CopiesAfterAscend
     DEF Next, Ended

LEMMA CopiesInvariance == Spec => []KInv
BY InitCopies, StepCopies, PTL DEF Spec

(* When the decoder is done, everything has been given. *)
LEMMA FilledIsFaithful ==
  ASSUME KInv, phase = "done", NEW id \in DOMAIN seen, Sure(id), built[id] # 0
  PROVE  Faithful(id)
<1>1. /\ DInv /\ EncoderTyped /\ ItemsStand /\ HeapStands /\ TableStands /\ PathIsOpen
      /\ id \in Id /\ id \in Built
  BY SeenFacts DEF KInv, DInv, EInv, Built
<1>2. walk = <<>> /\ open = <<>> /\ Filling(id)
  BY <1>1 DEF DInv, WalkStands, PathIsOpen, KInv, CopiesStand
<1>3. \A i \in DOMAIN jsval[id] : Taken(id, i)
  BY <1>2 DEF Taken
<1>4. /\ Len(jsval[id]) = Len(source[id].read)
      /\ jsval[id] \in Seq(Item) /\ source[id].read \in Seq(SourceValue)
      /\ \A i \in DOMAIN jsval[id] : Fits(jsval[id][i], source[id].read[i], source[id].depth)
  BY <1>1 DEF ItemsStand, EncoderTyped, Reading
<1>5. ASSUME NEW i \in DOMAIN jsval[id], NEW item, item = jsval[id][i],
             NEW v, v = source[id].read[i]
      PROVE  Stands(item, v, id)
  <2>1. Fits(item, v, source[id].depth)
    BY <1>4, <1>5
  <2>2. ASSUME item[1] \in {"node", "ref"}, item[2] \in DOMAIN seen, seen[item[2]] = v[2]
        PROVE  built[item[2]] # 0 \/ kindOf[v[2]] = "refusing"
    BY <1>2, <1>3, <1>5, <2>2 DEF Filling, Resolves, Built, Kind
  <2> QED
    BY <2>1, <2>2 DEF Fits, Stands
<1>6. TreeIsFaithful(id)
  BY <1>4, <1>5 DEF TreeIsFaithful
<1>7. /\ built[id] \in DOMAIN heap /\ heap[built[id]] \in Copy
      /\ heap[built[id]].kind = Kind(id) /\ Kids(id) = heap[built[id]].kids
      /\ KidsStand(heap[built[id]], Len(heap))
  BY <1>1, BuiltFacts DEF HeapStands, TableStands, Kids
<1>8. Kids(id) \in Seq(Pair) \/ Kids(id) \in Seq(CopyValue)
  BY <1>7 DEF KidsStand
<1>9. CopyHolds(id)
  <2>1. CASE Kind(id) = "array"
    <3>1. DOMAIN Kids(id) = DOMAIN jsval[id] /\ \A i \in DOMAIN Kids(id) : Kids(id)[i] = ValueAt(id, i)
      BY <1>2, <1>3, <2>1 DEF Filling, ArrayStands
    <3>2. Kids(id) = [i \in DOMAIN jsval[id] |-> ValueAt(id, i)]
      BY <1>8, <3>1
    <3>3. HoldsItems(id, Kids(id))
      BY <3>2 DEF HoldsItems
    <3> QED
      BY <2>1, <3>3 DEF CopyHolds, Kind, Kids, Keyed, Leaflike
  <2>2. CASE Kind(id) = "set"
    <3>1. \A i \in DOMAIN jsval[id] : \E j \in DOMAIN Kids(id) :
             Same(heap, Kids(id)[j], ValueAt(id, i))
      BY <1>2, <1>3, <2>2 DEF Filling, SetStands
    <3>2. \A j \in DOMAIN Kids(id) : \E i \in DOMAIN jsval[id] :
             Same(heap, Kids(id)[j], ValueAt(id, i))
      <4>1. Kind(id) \notin Keyed
        BY <2>2 DEF Keyed
      <4> QED
        BY <1>2, <4>1, KeptIsSame DEF Filling, Comes
    <3>3. HoldsMembers(id, Kids(id))
      BY <3>1, <3>2 DEF HoldsMembers
    <3> QED
      BY <2>2, <3>3 DEF CopyHolds, Kind, Kids, Keyed, Leaflike
  <2>3. CASE Kind(id) \in Keyed
    <3>1. \A i \in DOMAIN jsval[id] : PairTaken(id, i) <=> i % 2 = 1
      <4>1. Len(jsval[id]) % 2 = 0
        <5>1. phase # "raised" /\ \A k \in DOMAIN open : open[k] # id
          BY <1>2
        <5> QED
          BY <1>1, <2>3, <5>1 DEF ItemsStand
      <4>2. ASSUME NEW i \in DOMAIN jsval[id], i % 2 = 1 PROVE i + 1 \in DOMAIN jsval[id]
        <5>1. PICK n \in Nat : n = Len(jsval[id])
          BY <1>4, LenProperties
        <5>2. n % 2 = 0 /\ i \in 1..n /\ DOMAIN jsval[id] = 1..n
          BY <1>4, <4>1, <4>2, <5>1, LenProperties
        <5>3. i # n
          BY <4>2, <5>2
        <5> QED
          BY <5>2, <5>3
      <4> QED
        BY <1>3, <4>2 DEF PairTaken
    <3>2. /\ \A i \in DOMAIN jsval[id] : i % 2 = 1 =>
               \E j \in DOMAIN Kids(id) : Same(heap, Kids(id)[j][1], ValueAt(id, i))
          /\ \A j \in DOMAIN Kids(id) : \E i \in DOMAIN jsval[id] :
               /\ i % 2 = 1 /\ Same(heap, Kids(id)[j][1], ValueAt(id, i))
               /\ Kids(id)[j][2] = ValueAt(id, i + 1)
               /\ \A k \in DOMAIN jsval[id] : k % 2 = 1 /\ k > i =>
                     ~Same(heap, Kids(id)[j][1], ValueAt(id, k))
      <4>1. PairsStand(id)
        BY <1>2 DEF Filling
      <4> QED
        BY <2>3, <3>1, <4>1 DEF PairsStand
    <3>3. HoldsPairs(id, Kids(id))
      BY <3>2 DEF HoldsPairs
    <3> QED
      BY <2>3, <3>3 DEF CopyHolds, Kind, Kids, Keyed, Leaflike
  <2>4. CASE Kind(id) \in Leaflike
    <3>1. jsval[id] = <<>> /\ Kind(id) \notin Keyed /\ Kind(id) # "array" /\ Kind(id) # "set"
      BY <1>1, <2>4 DEF ItemsStand, Leaflike, Keyed
    <3>2. DOMAIN Kids(id) = {}
      BY <1>2, <3>1 DEF Filling, Comes
    <3>3. Kids(id) = <<>>
      BY <1>8, <3>2
    <3> QED
      BY <2>4, <3>3 DEF CopyHolds, Kind, Kids, Keyed, Leaflike
  <2>5. Kind(id) \in {"array", "set"} \cup Keyed \cup Leaflike
    <3>1. Kind(id) \in KindsOf("ruby")
      BY <1>7 DEF Copy
    <3> QED
      BY <3>1 DEF KindsOf, Keyed, Leaflike
  <2> QED
    BY <2>1, <2>2, <2>3, <2>4, <2>5
<1> QED
  BY <1>6, <1>9 DEF Faithful

(***************************************************************************)
(* jsval_to_ruby and jsval_to_js copy a graph of any size faithfully: what *)
(* was shared or cyclic is so in the copy, in its place, and nothing but a *)
(* container at MAX_MARSHAL_DEPTH, or a Proxy that refuses, is text.  The  *)
(* sets and Hashes of Ruby hold what they were given up to eql?, except    *)
(* where a member or a key is hashed while it is being filled.             *)
(***************************************************************************)
THEOREM CopiesAreFaithful == Spec => []CopyIsFaithful
<1>1. KInv => CopyIsFaithful
  BY FilledIsFaithful DEF CopyIsFaithful, Sure, Faithful
<1> QED
  BY <1>1, CopiesInvariance, PTL

(***************************************************************************)
(* The JsVal::Ref arm of either decoder finds in `built` what it looks for *)
(* and never falls back on nil, unless the reference is to a Proxy that    *)
(* refused to be read and was never emitted.                               *)
(***************************************************************************)
ReferenceIsBuilt ==
    Decoding /\ ~Finished /\ jsval[Frame.id][Frame.next][1] = "ref" =>
        LET r == jsval[Frame.id][Frame.next][2]
        IN  r \in DOMAIN seen /\ (built[r] # 0 \/ Kind(r) = "refusing")

THEOREM ReferencesFindTheirCopies == Spec => []ReferenceIsBuilt
<1>1. DInv => ReferenceIsBuilt
  <2> SUFFICES ASSUME DInv, Decoding, ~Finished, jsval[Frame.id][Frame.next][1] = "ref"
               PROVE  /\ jsval[Frame.id][Frame.next][2] \in DOMAIN seen
                      /\ \/ built[jsval[Frame.id][Frame.next][2]] # 0
                         \/ Kind(jsval[Frame.id][Frame.next][2]) = "refusing"
    BY DEF ReferenceIsBuilt
  <2>1. EncoderTyped /\ ItemsStand /\ WalkStands /\ walk # <<>>
    BY DEF DInv, EInv, Decoding
  <2>2. PICK p, j, r : p = Frame.id /\ j = Frame.next /\ r = jsval[p][j][2]
    OBVIOUS
  <2>3. p \in DOMAIN seen /\ j \in DOMAIN jsval[p]
    BY <2>1, <2>2, TopFacts, WalkFacts
  <2>4. jsval[p][j] = <<"ref", r>> /\ r \in DOMAIN seen
    BY <2>1, <2>2, <2>3, ItemNames, ItemFacts
  <2> QED
    BY <2>2, <2>4, ReferencesResolve DEF Built
<1> QED
  BY <1>1, DecoderInvariance, PTL
=============================================================================
