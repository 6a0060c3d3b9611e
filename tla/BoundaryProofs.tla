--------------------------- MODULE BoundaryProofs ---------------------------
(***************************************************************************)
(* Proofs about Boundary, for any strings, tables, texts and headers.      *)
(*                                                                         *)
(* Query and client options: every pointer collected so far leads to a     *)
(* copy of its own string.  That holds because an address given out is not *)
(* in use, and because nothing of the copies is freed before the call is   *)
(* over; only the raw structure moves, and no pointer leads to it.         *)
(*                                                                         *)
(* Error text: the buffer holds what was reported last, followed by a      *)
(* terminator where there is room, whatever it held before.                *)
(*                                                                         *)
(* Header enums: build.rs counts in step with the C compiler, from every   *)
(* literal it reads as C does to the next initializer that it does not.    *)
(***************************************************************************)
EXTENDS Boundary, SeqLemmas, FiniteSetTheorems

\* The heap is a function on finitely many addresses.
Heap(h) ==
    /\ h = [a \in DOMAIN h |-> h[a]]
    /\ IsFiniteSet(DOMAIN h) /\ DOMAIN h \subseteq Nat \ {0}

\* There is always an address that is not in use, and it is no null pointer.
LEMMA FreshFact ==
    ASSUME NEW h, Heap(h)
    PROVE  Fresh(h) \in Nat \ {0} /\ Fresh(h) \notin DOMAIN h
<1> DEFINE D == DOMAIN h
           n == Cardinality(D)
           T == {a \in 1..(n + 1) : a \notin D}
<1>1. IsFiniteSet(D) /\ n \in Nat
  BY FS_CardinalityType DEF Heap
<1>2. T # {}
  <2>1. SUFFICES ASSUME T = {} PROVE FALSE
    OBVIOUS
  <2>2. 1..(n + 1) \in SUBSET D
    BY <2>1
  <2>3. Cardinality(1..(n + 1)) <= n
    BY <1>1, <2>2, FS_Subset
  <2>4. Cardinality(1..(n + 1)) = n + 1
    <3>1. 1 \in Int /\ n + 1 \in Int /\ ~(1 > n + 1) /\ (n + 1) - 1 + 1 = n + 1
      BY <1>1
    <3> HIDE DEF n
    <3> QED BY <3>1, FS_Interval
  <2> HIDE DEF n
  <2> QED BY <1>1, <2>3, <2>4
<1>3. T \in SUBSET Nat
  BY <1>1
<1>4. PICK m \in T : \A k \in T : m <= k
  <2> HIDE DEF T
  <2> QED BY <1>2, <1>3, NatMin
<1>5. m \in 1..(n + 1) /\ m \notin D
  BY <1>4
<1>6. ASSUME NEW b \in 1..m - 1 PROVE b \in D
  <2>1. b \in 1..(n + 1) /\ ~(m <= b)
    BY <1>1, <1>5
  <2> QED BY <1>4, <2>1
<1>7. m = 1 \/ m - 1 \in D
  BY <1>1, <1>5, <1>6
<1>8. Fresh(h) \notin D /\ (Fresh(h) = 1 \/ \E b \in D : Fresh(h) = b + 1) /\ \A b \in 1..Fresh(h) - 1 : b \in D
  <2>1. m \in {1} \cup {b + 1 : b \in DOMAIN h}
    <3>1. (m - 1) + 1 = m
      BY <1>1, <1>5
    <3> QED BY <1>7, <3>1
  <2>2. m \notin DOMAIN h /\ \A b \in 1..m - 1 : b \in DOMAIN h
    BY <1>5, <1>6
  <2> DEFINE A == {1} \cup {b + 1 : b \in DOMAIN h}
             P(a) == a \notin DOMAIN h /\ \A b \in 1..a - 1 : b \in DOMAIN h
  <2>3. Fresh(h) = CHOOSE a \in A : P(a)
    BY Zenon DEF Fresh
  <2>4. m \in A /\ P(m)
    BY <2>1, <2>2
  <2>5. Fresh(h) \in A /\ P(Fresh(h))
    <3> HIDE DEF A, P
    <3> QED BY <2>3, <2>4, Zenon
  <2> QED BY <2>5
<1> QED BY <1>1, <1>8 DEF Heap

\* Storing adds one address and leaves the others alone.
LEMMA StoreFact ==
    ASSUME NEW h, Heap(h), NEW d
    PROVE  /\ Heap(Store(h, d))
           /\ DOMAIN Store(h, d) = DOMAIN h \cup {Fresh(h)}
           /\ Store(h, d)[Fresh(h)] = d
           /\ \A a \in DOMAIN h : Store(h, d)[a] = h[a]
<1>1. Fresh(h) \notin DOMAIN h
  BY FreshFact
<1>2. IsFiniteSet(DOMAIN h \cup {Fresh(h)})
  BY FS_AddElement DEF Heap
<1>3. DOMAIN h \cup {Fresh(h)} \subseteq Nat \ {0}
  BY FreshFact DEF Heap
<1> DEFINE n == Store(h, d)
<1>4. n = [a \in DOMAIN h \cup {Fresh(h)} |-> IF a \in DOMAIN h THEN h[a] ELSE d]
  BY DEF Store
<1> HIDE DEF n
<1>5. /\ DOMAIN n = DOMAIN h \cup {Fresh(h)} /\ n = [a \in DOMAIN n |-> n[a]]
      /\ n[Fresh(h)] = d /\ \A a \in DOMAIN h : n[a] = h[a]
  BY <1>1, <1>4
<1> QED BY <1>2, <1>3, <1>5 DEF n, Heap

\* Freeing takes addresses away and leaves the others alone.
LEMMA FreeFact ==
    ASSUME NEW h, Heap(h), NEW A
    PROVE  /\ Heap(Free(h, A))
           /\ DOMAIN Free(h, A) = DOMAIN h \ A
           /\ \A a \in DOMAIN h \ A : Free(h, A)[a] = h[a]
<1>1. IsFiniteSet(DOMAIN h \ A)
  <2>1. DOMAIN h \ A \in SUBSET DOMAIN h
    OBVIOUS
  <2> QED BY <2>1, FS_Subset DEF Heap
<1> QED BY <1>1 DEF Free, Heap

\* The heap of a query and that of a client work this way.
LEMMA SameHeap ==
    ASSUME NEW h, NEW d
    PROVE  /\ Client!Fresh(h) = Fresh(h) /\ Client!Store(h, d) = Store(h, d)
           /\ Client!Free(h, d) = Free(h, d) /\ Client!Load(h, d) = Load(h, d)
           /\ Query!Fresh(h) = Fresh(h) /\ Query!Store(h, d) = Store(h, d)
           /\ Query!Free(h, d) = Free(h, d) /\ Query!Load(h, d) = Load(h, d)
BY DEF Fresh, Client!Fresh, Query!Fresh, Store, Client!Store, Query!Store,
       Free, Client!Free, Query!Free, Load, Client!Load, Query!Load,
       Garbage, Client!Garbage, Query!Garbage

-----------------------------------------------------------------------------
(* The codec's table *)

\* The callbacks C calls for a client's compression are in its table, from the time
\* init has looked at it; there are no calls before the client is open.
Supported ==
    \/ compression = "None"
    \/ compression = "Lz4" /\ Client!Lz4 \subseteq codec.has
    \/ compression = "Zstd" /\ Client!Zstd \subseteq codec.has

CodecInv ==
    /\ codec \in [who : {"none", "app", "client"}, has : SUBSET Client!Callbacks]
    /\ stage # "open" => called = {}
    /\ stage # "idle" => Supported
    /\ called \subseteq codec.has

\* A step that replaces the table is one of an idle client.
LEMMA TableCodec ==
    ASSUME CodecInv, NEW has \in SUBSET Client!Callbacks, Client!Table(has)
    PROVE  CodecInv'
BY DEF CodecInv, Supported, Client!Table

\* An error leaves no table behind.
LEMMA RefuseCodec ==
    ASSUME CodecInv, stage # "open", NEW kind, Client!Refuse(kind)
    PROVE  CodecInv'
BY DEF CodecInv, Supported, Client!Refuse, Client!NoCodec

\* A frame goes through callbacks that the table has.
LEMMA FrameCodec ==
    ASSUME CodecInv, NEW callbacks, callbacks \subseteq codec.has, Client!Frame(callbacks)
    PROVE  CodecInv'
BY DEF CodecInv, Supported, Client!Frame

\* Every step of a client keeps the invariant.
LEMMA NextCodec == ASSUME CodecInv, Client!Next PROVE CodecInv'
<1>1. CASE Client!empty \/ Client!lz4 \/ Client!zstd
  BY <1>1, TableCodec DEF Client!empty, Client!lz4, Client!zstd, Client!Callbacks
<1>2. CASE Client!from_raw
  BY <1>2, TableCodec DEF Client!from_raw
<1>3. CASE Client!raw_mut
  <2>1. PICK c \in Client!Callbacks :
           Client!Table(codec.has \cup {c}) \/ Client!Table(codec.has \ {c})
    BY <1>3 DEF Client!raw_mut
  <2>2. codec.has \cup {c} \in SUBSET Client!Callbacks /\ codec.has \ {c} \in SUBSET Client!Callbacks
    BY DEF CodecInv
  <2> QED BY <2>1, <2>2, TableCodec
<1>4. CASE Client!init
  <2>1. PICK comp \in Client!Compression :
           \/ /\ Client!validate_codec(comp) /\ compression' = comp /\ stage' = "fields"
              /\ codec' = IF codec.who = "app" THEN [codec EXCEPT !.who = "client"] ELSE codec
              /\ UNCHANGED called
           \/ Client!Refuse("Usage")
    BY <1>4 DEF Client!init
  <2>2. CASE Client!Refuse("Usage")
    BY <1>4, <2>2, RefuseCodec DEF Client!init
  <2>3. CASE /\ Client!validate_codec(comp) /\ compression' = comp /\ stage' = "fields"
             /\ codec' = IF codec.who = "app" THEN [codec EXCEPT !.who = "client"] ELSE codec
             /\ UNCHANGED called
    <3>1. codec'.has = codec.has
          /\ codec' \in [who : {"none", "app", "client"}, has : SUBSET Client!Callbacks]
      BY <2>3 DEF CodecInv
    <3>2. called = {}
      BY <1>4 DEF CodecInv, Client!init
    <3>3. Supported'
      BY <2>3, <3>1 DEF Supported, Client!validate_codec, Client!supports, Client!Compression,
             Client!Lz4, Client!Zstd
    <3> QED BY <2>3, <3>1, <3>2, <3>3 DEF CodecInv
  <2> QED BY <2>1, <2>2, <2>3
<1>5. CASE Client!to_raw
  BY <1>5 DEF CodecInv, Supported, Client!to_raw
<1>6. CASE Client!to_raw_fails
  BY <1>6, RefuseCodec DEF Client!to_raw_fails
<1>7. CASE Client!chc_client_init
  BY <1>7 DEF CodecInv, Supported, Client!chc_client_init
<1>8. CASE Client!Opened
  BY <1>8 DEF CodecInv, Supported, Client!Opened
<1>9. CASE Client!HandshakeFails
  BY <1>9, RefuseCodec DEF Client!HandshakeFails
<1>10. CASE Client!PlainFrame
  BY <1>10, FrameCodec DEF Client!PlainFrame
<1>11. CASE Client!CompressFrame \/ Client!DecompressFrame
  <2>1. stage = "open"
    BY <1>11 DEF Client!CompressFrame, Client!DecompressFrame, Client!Frame
  <2> QED BY <1>11, <2>1, FrameCodec DEF CodecInv, Supported, Client!CompressFrame,
             Client!DecompressFrame, Client!Lz4, Client!Zstd
<1>12. CASE Client!Drop
  BY <1>12 DEF CodecInv, Supported, Client!Drop, Client!NoCodec
<1> QED BY <1>1, <1>2, <1>3, <1>4, <1>5, <1>6, <1>7, <1>8, <1>9, <1>10, <1>11, <1>12
        DEF Client!Next

\* C calls no codec callback that is not installed, for any table the application
\* gives to Client::init or IolessClient::new.
THEOREM CallbacksInstalled == Spec => []CalledAreInstalled
<1> DEFINE I == part = "client" => CodecInv
<1>1. Init => I
  BY DEF Init, Client!Init, Client!NoCodec, CodecInv, Supported
<1>2. I /\ [Next]_vars => I'
  <2> SUFFICES ASSUME I, [Next]_vars PROVE I'
    OBVIOUS
  <2>1. CASE Next
    BY <2>1, NextCodec DEF Next
  <2>2. CASE UNCHANGED vars
    BY <2>2 DEF vars, callVars, clientVars, CodecInv, Supported
  <2> QED BY <2>1, <2>2
<1>3. I => CalledAreInstalled
  BY DEF CalledAreInstalled, Client!CalledAreInstalled, CodecInv
<1> QED BY <1>1, <1>2, <1>3, PTL DEF Spec

-----------------------------------------------------------------------------
(* The Hello strings *)

\* The four fields, by their place.
LEMMA FieldsFact ==
    /\ Len(Client!Fields) = 4
    /\ \A f \in Client!FieldSet : \E i \in 1..4 : f = Client!Fields[i]
    /\ \A i \in 1..4 : Client!Fields[i] \in Client!FieldSet
    /\ \A i, j \in 1..4 : Client!Fields[i] = Client!Fields[j] => i = j
BY DEF Client!Fields, Client!FieldSet

\* The pointer of a field leads to a copy of it, or is null if it was not given.
Carried(f) ==
    IF opts[f] = Absent THEN raw[f] = 0
    ELSE raw[f] # 0 /\ raw[f] \in DOMAIN heap /\ heap[raw[f]] = opts[f]

\* to_raw has dealt with the fields before `at`, and with no other.
Collected ==
    \A i \in 1..4 : IF i < at THEN Carried(Client!Fields[i]) ELSE raw[Client!Fields[i]] = 0

HelloInv ==
    /\ Heap(heap)
    /\ opts \in [Client!FieldSet -> Given \cup {Absent}]
    /\ raw \in [Client!FieldSet -> Nat]
    /\ at \in 1..5
    /\ stage \in {"idle", "fields", "calling", "open"}
    /\ stage \in {"idle", "open"} => raw = Client!NoPointers /\ at = 1
    /\ stage = "fields" => Collected
    /\ stage \in {"calling", "open"} => hello = opts

\* The options before a client has any.
LEMMA NoFieldsFact ==
    /\ Client!NoFields \in [Client!FieldSet -> Given \cup {Absent}]
    /\ Client!NoPointers \in [Client!FieldSet -> Nat]
    /\ \A f \in Client!FieldSet : Client!NoPointers[f] = 0
BY DEF Client!NoFields, Client!NoPointers, Client!Absent, Absent, Client!None

\* An error starts over, with what was copied freed.
LEMMA RefuseHello ==
    ASSUME HelloInv, NEW kind, Client!Refuse(kind)
    PROVE  HelloInv'
<1>1. heap' = Free(heap, Client!Buffers(owned)) /\ stage' = "idle" /\ at' = 1
      /\ raw' = Client!NoPointers /\ opts' = Client!NoFields
  BY SameHeap DEF Client!Refuse
<1>2. Heap(heap')
  BY <1>1, FreeFact DEF HelloInv
<1> QED BY <1>1, <1>2, NoFieldsFact DEF HelloInv

\* Copying the field at hand leaves the copies of the others where they are.
LEMMA CopyHello == ASSUME HelloInv, Client!to_raw PROVE HelloInv'
<1> DEFINE f == Client!Fields[at]
           n == Fresh(heap)
<1>1. /\ stage = "fields" /\ at \in 1..4 /\ at' = at + 1 /\ UNCHANGED <<opts, stage, hello>>
      /\ \/ opts[f] = Absent /\ UNCHANGED <<heap, raw>>
         \/ /\ opts[f] # Absent
            /\ heap' = Store(heap, opts[f]) /\ raw' = [raw EXCEPT ![f] = n]
  BY FieldsFact, SameHeap DEF Client!to_raw, Client!Field, HelloInv, Absent, Client!Absent
<1>2. Collected /\ Heap(heap) /\ raw \in [Client!FieldSet -> Nat] /\ f \in Client!FieldSet
  BY <1>1, FieldsFact DEF HelloInv
<1>3. /\ n \in Nat /\ n # 0 /\ n \notin DOMAIN heap
      /\ Heap(Store(heap, opts[f]))
      /\ DOMAIN Store(heap, opts[f]) = DOMAIN heap \cup {n}
      /\ Store(heap, opts[f])[n] = opts[f]
      /\ \A a \in DOMAIN heap : Store(heap, opts[f])[a] = heap[a]
  BY <1>2, FreshFact, StoreFact
<1> HIDE DEF n
<1>4. Heap(heap') /\ raw' \in [Client!FieldSet -> Nat] /\ at' \in 1..5
  BY <1>1, <1>2, <1>3
<1>5. Collected'
  <2> SUFFICES ASSUME NEW i \in 1..4
               PROVE  IF i < at' THEN Carried(Client!Fields[i])' ELSE raw'[Client!Fields[i]] = 0
    BY DEF Collected
  <2> DEFINE g == Client!Fields[i]
  <2>1. g \in Client!FieldSet /\ (g = f => i = at)
    BY <1>1, FieldsFact
  <2>2. IF i < at THEN Carried(g) ELSE raw[g] = 0
    BY <1>2 DEF Collected
  <2>3. opts'[g] = opts[g]
    BY <1>1
  <2>4. CASE opts[f] = Absent /\ UNCHANGED <<heap, raw>>
    <3>1. raw'[g] = raw[g] /\ heap' = heap
      BY <2>4
    <3>2. CASE i < at
      BY <1>1, <2>2, <2>3, <3>1, <3>2 DEF Carried
    <3>3. CASE i = at
      BY <1>1, <2>2, <2>3, <2>4, <3>1, <3>3 DEF Carried
    <3>4. CASE i > at
      BY <1>1, <2>2, <3>1, <3>4
    <3> QED BY <1>1, <3>2, <3>3, <3>4
  <2>5. CASE opts[f] # Absent /\ heap' = Store(heap, opts[f]) /\ raw' = [raw EXCEPT ![f] = n]
    <3>1. CASE i = at
      <4>1. raw'[g] = n /\ i < at'
        BY <1>1, <1>2, <2>5, <3>1
      <4> QED BY <1>3, <2>3, <2>5, <3>1, <4>1 DEF Carried
    <3>2. CASE i # at
      <4>1. raw'[g] = raw[g]
        BY <1>2, <2>1, <2>5, <3>2
      <4>2. CASE i < at
        BY <1>1, <1>3, <2>2, <2>3, <2>5, <4>1, <4>2 DEF Carried
      <4>3. CASE ~(i < at)
        BY <1>1, <2>2, <3>2, <4>1, <4>3
      <4> QED BY <4>2, <4>3
    <3> QED BY <3>1, <3>2
  <2> QED BY <1>1, <2>4, <2>5
<1> QED BY <1>1, <1>4, <1>5 DEF HelloInv

\* With every field dealt with, C reads what the application gave.
LEMMA ReadHello == ASSUME HelloInv, Client!chc_client_init PROVE HelloInv'
<1>1. /\ stage = "fields" /\ at = 5 /\ stage' = "calling"
      /\ UNCHANGED <<opts, at, heap, raw>>
      /\ hello' = [f \in Client!FieldSet |-> IF raw[f] = 0 THEN Absent ELSE Load(heap, raw[f])]
  BY FieldsFact, SameHeap DEF Client!chc_client_init, HelloInv, Absent, Client!Absent, Client!None
<1>2. ASSUME NEW f \in Client!FieldSet
      PROVE  (IF raw[f] = 0 THEN Absent ELSE Load(heap, raw[f])) = opts[f]
  <2>1. PICK i \in 1..4 : f = Client!Fields[i]
    BY FieldsFact
  <2>2. Carried(f)
    BY <1>1, <2>1 DEF HelloInv, Collected
  <2> QED BY <2>2 DEF Carried, Load
<1>3. hello' = opts
  BY <1>1, <1>2 DEF HelloInv
<1> QED BY <1>1, <1>3 DEF HelloInv

\* Every step of a client keeps the invariant.
LEMMA NextHello == ASSUME HelloInv, Client!Next PROVE HelloInv'
<1>1. ASSUME NEW has, Client!Table(has) PROVE HelloInv'
  BY <1>1 DEF HelloInv, Collected, Carried, Client!Table
<1>2. CASE Client!empty \/ Client!lz4 \/ Client!zstd \/ Client!from_raw \/ Client!raw_mut
  BY <1>1, <1>2 DEF Client!empty, Client!lz4, Client!zstd, Client!from_raw, Client!raw_mut
<1>3. CASE Client!init
  <2>1. \/ /\ opts' \in [Client!FieldSet -> Given \cup {Absent}] /\ stage' = "fields"
           /\ UNCHANGED <<at, heap, raw>>
        \/ Client!Refuse("Usage")
    BY <1>3 DEF Client!init, Given, Client!Given, Absent, Client!Absent
  <2>2. CASE Client!Refuse("Usage")
    BY <2>2, RefuseHello
  <2>3. CASE /\ opts' \in [Client!FieldSet -> Given \cup {Absent}] /\ stage' = "fields"
             /\ UNCHANGED <<at, heap, raw>>
    <3>1. at' = 1 /\ raw' = Client!NoPointers
      BY <1>3, <2>3 DEF HelloInv, Client!init
    <3>2. Collected'
      BY <3>1, FieldsFact, NoFieldsFact DEF Collected
    <3> QED BY <2>3, <3>2 DEF HelloInv
  <2> QED BY <2>1, <2>2, <2>3
<1>4. CASE Client!to_raw
  BY <1>4, CopyHello
<1>5. CASE Client!to_raw_fails \/ Client!HandshakeFails
  BY <1>5, RefuseHello DEF Client!to_raw_fails, Client!HandshakeFails
<1>6. CASE Client!chc_client_init
  BY <1>6, ReadHello
<1>7. CASE Client!Opened
  <2>1. heap' = Free(heap, Client!Buffers(owned)) /\ Heap(heap)
    BY <1>7, SameHeap DEF HelloInv, Client!Opened
  <2>2. Heap(heap')
    BY <2>1, FreeFact
  <2> QED BY <1>7, <2>2, NoFieldsFact DEF HelloInv, Client!Opened
<1>8. ASSUME NEW callbacks, Client!Frame(callbacks) PROVE HelloInv'
  BY <1>8 DEF HelloInv, Collected, Carried, Client!Frame
<1>9. CASE Client!PlainFrame \/ Client!CompressFrame \/ Client!DecompressFrame
  BY <1>8, <1>9 DEF Client!PlainFrame, Client!CompressFrame, Client!DecompressFrame
<1>10. CASE Client!Drop
  BY <1>10, NoFieldsFact DEF HelloInv, Client!Drop
<1> QED BY <1>2, <1>3, <1>4, <1>5, <1>6, <1>7, <1>9, <1>10 DEF Client!Next

\* The Hello carries each of the four strings of ClientOpts in its own place, though
\* C reads them through pointers taken while their owner was still growing.
THEOREM HelloIsAsAsked == Spec => []HelloAsAsked
<1> DEFINE I == part = "client" => HelloInv
<1>1. Init => I
  <2>1. Heap(<<>>)
    BY FS_EmptySet DEF Heap
  <2> QED BY <2>1, NoFieldsFact DEF Init, Client!Init, HelloInv
<1>2. I /\ [Next]_vars => I'
  <2> SUFFICES ASSUME I, [Next]_vars PROVE I'
    OBVIOUS
  <2>1. CASE Next
    BY <2>1, NextHello DEF Next
  <2>2. CASE UNCHANGED vars
    BY <2>2 DEF vars, callVars, copyVars, clientVars, HelloInv, Collected, Carried
  <2> QED BY <2>1, <2>2
<1>3. I => HelloAsAsked
  BY DEF HelloAsAsked, Client!HelloAsAsked, HelloInv
<1> QED BY <1>1, <1>2, <1>3, PTL DEF Spec

-----------------------------------------------------------------------------
(* The text of an error *)

\* A text is a sequence of bytes, none of them the terminator.
LEMMA TextFact ==
    ASSUME NEW text \in Errors!RawTexts
    PROVE  text \in Seq(Bytes) /\ Len(text) \in Nat /\ DOMAIN text = 1..Len(text)
           /\ text = [i \in 1..Len(text) |-> text[i]]
           /\ \A i \in 1..Len(text) : text[i] \in Nat \ {0} /\ text[i] \in Bytes
<1>1. PICK n \in 0..MaxText : text \in [1..n -> Bytes]
  BY DEF Errors!RawTexts
<1>2. MaxText \in Nat /\ Bytes \subseteq Nat \ {0}
  BY BoundaryAssumption DEF BoundaryAssumption
<1>3. text \in Seq(Bytes) /\ Len(text) = n /\ n \in Nat
  BY <1>1, <1>2
<1>4. DOMAIN text = 1..n /\ text = [i \in 1..n |-> text[i]] /\ \A i \in 1..n : text[i] \in Bytes
  BY <1>1
<1> QED BY <1>2, <1>3, <1>4

\* Decoding leaves UTF-8 alone.
LEMMA LossyFact ==
    ASSUME NEW text \in Seq(Bytes), Errors!Utf8(text)
    PROVE  Errors!from_utf8_lossy(text) = text
<1>1. text = [i \in DOMAIN text |-> text[i]]
  OBVIOUS
<1>2. \A i \in DOMAIN text : ~Errors!Torn(text, i)
  BY DEF Errors!Utf8
<1> QED BY <1>1, <1>2 DEF Errors!from_utf8_lossy

\* The exception of a rejected handshake: any of its texts may be missing.
ExceptionTexts == {Errors!Null} \cup [null : {FALSE}, text : Seq(Bytes)]

ExceptionOK ==
    \/ exc = Errors!NoException
    \/ \E name, text \in ExceptionTexts :
          exc = [name |-> name, display_text |-> text, code |-> 1]

LongInv ==
    /\ stage \in {"idle", "running", "returned"}
    /\ stage # "returned" => result = Errors!NoError
    /\ ExceptionOK
    /\ Errors!LongTextIsWhole

\* The error and its message of a rejected handshake.
LEMMA ExceptionWhole ==
    ASSUME ExceptionOK, exc # Errors!NoException, result' = Errors!From_Exception(exc)
    PROVE  /\ result'.kind = "Server" /\ result'.server_code = exc.code
           /\ ~exc.display_text.null /\ Errors!Utf8(exc.display_text.text)
                => result'.message = exc.display_text.text
           /\ ~exc.name.null /\ Errors!Utf8(exc.name.text) => result'.server_name = exc.name.text
<1>1. PICK name, text \in ExceptionTexts :
        exc = [name |-> name, display_text |-> text, code |-> 1]
  BY DEF ExceptionOK
<1>2. /\ result'.kind = "Server" /\ result'.server_code = exc.code
      /\ result'.message = Errors!from_utf8_lossy(Errors!cstr_bytes(text))
      /\ result'.server_name = Errors!from_utf8_lossy(Errors!cstr_bytes(name))
  BY <1>1 DEF Errors!From_Exception
<1>3. ASSUME NEW f \in ExceptionTexts, ~f.null, Errors!Utf8(f.text)
      PROVE  Errors!from_utf8_lossy(Errors!cstr_bytes(f)) = f.text
  <2>1. Errors!cstr_bytes(f) = f.text
    BY <1>3 DEF Errors!cstr_bytes
  <2>2. f.text \in Seq(Bytes)
    <3>1. Errors!Null.null
      BY DEF Errors!Null
    <3>2. f \in [null : {FALSE}, text : Seq(Bytes)]
      BY <1>3, <3>1 DEF ExceptionTexts
    <3> QED BY <3>2
  <2> QED BY <1>3, <2>1, <2>2, LossyFact
<1>4. exc.display_text = text /\ exc.name = name
  BY <1>1
<1> QED BY <1>2, <1>3, <1>4, Zenon

\* format's two calls: the room it asks for holds the name and its terminator.
LEMMA FormatWhole ==
    ASSUME NEW text \in Errors!Texts
    PROVE  Errors!from_utf8_lossy(SubSeq(Errors!Filled(text, Errors!Room(Len(text))), 1, Len(text))) = text
<1>1. text \in Errors!RawTexts /\ Errors!Utf8(text)
  BY DEF Errors!Texts
<1>2. text \in Seq(Bytes) /\ Len(text) \in Nat /\ text = [i \in 1..Len(text) |-> text[i]]
  BY <1>1, TextFact
<1> DEFINE n == Len(text)
           b == Errors!Filled(text, Errors!Room(n))
<1>3. b = [i \in 1..(n + 1) |-> IF i <= n THEN text[i] ELSE 0]
  BY <1>2 DEF Errors!Filled, Errors!Room, Errors!Least
<1> HIDE DEF b
<1>4. SubSeq(b, 1, n) = [i \in 1..n |-> b[i]]
  BY <1>2, <1>3
<1>5. [i \in 1..n |-> b[i]] = [i \in 1..n |-> text[i]]
  BY <1>2, <1>3
<1>6. SubSeq(b, 1, n) = text
  BY <1>2, <1>4, <1>5
<1> QED BY <1>1, <1>2, <1>6, LossyFact DEF b

\* Every step of a call keeps the invariant.
LEMMA NextLong == ASSUME LongInv, Errors!Next PROVE LongInv'
<1>1. CASE Errors!format
  <2>1. PICK text \in Errors!Texts :
          /\ result' = [Errors!NoError EXCEPT !.kind = "Name",
               !.message = Errors!from_utf8_lossy(SubSeq(Errors!Filled(text, Errors!Room(Len(text))), 1, Len(text)))]
          /\ told' = text
    BY <1>1 DEF Errors!format
  <2>2. result'.message = told'
    BY <2>1, FormatWhole DEF Errors!NoError
  <2>3. stage' = "returned" /\ exc' = Errors!NoException
    BY <1>1 DEF Errors!format
  <2>4. (Errors!NoException)' = Errors!NoException /\ (Errors!NoError)' = Errors!NoError
    BY DEF Errors!NoException, Errors!NoError, Errors!Null, Errors!NoText
  <2> QED BY <2>2, <2>3, <2>4 DEF LongInv, ExceptionOK, Errors!LongTextIsWhole
<1>2. CASE Errors!Call
  BY <1>2 DEF LongInv, ExceptionOK, Errors!Call, Errors!LongTextIsWhole, Errors!NoError
<1>3. CASE Errors!set_err \/ Errors!CSetsErr
  BY <1>3 DEF LongInv, ExceptionOK, Errors!set_err, Errors!CSetsErr, Errors!LongTextIsWhole, Errors!NoError
<1>4. CASE Errors!Rejected
  <2>1. PICK text \in Errors!Fields,
             name \in {Errors!Null} \cup [null : {FALSE}, text : {<<b>> : b \in Bytes}] :
           exc' = [name |-> name, display_text |-> text, code |-> 1]
    BY <1>4 DEF Errors!Rejected
  <2>2. text \in ExceptionTexts
    BY TextFact DEF Errors!Fields, ExceptionTexts
  <2>3. name \in ExceptionTexts
    <3>1. \A b \in Bytes : <<b>> \in Seq(Bytes)
      OBVIOUS
    <3> QED BY <3>1 DEF ExceptionTexts
  <2>4. ExceptionOK'
    BY <2>1, <2>2, <2>3 DEF ExceptionOK, ExceptionTexts, Errors!Null, Errors!NoText
  <2>5. stage' = "running" /\ result' = Errors!NoError
    BY <1>4 DEF LongInv, Errors!Rejected
  <2> QED BY <2>4, <2>5 DEF LongInv, Errors!LongTextIsWhole, Errors!NoError
<1>5. CASE Errors!Return
  <2>1. stage = "running" /\ stage' = "returned" /\ UNCHANGED <<exc, told>>
        /\ (exc = Errors!NoException => result'.kind \in {"Ok", "Io"})
    BY <1>5 DEF Errors!Return, Errors!check, Errors!NoError
  <2>2. CASE exc # Errors!NoException
    <3>1. result' = Errors!From_Exception(exc)
      BY <1>5, <2>2 DEF Errors!Return
    <3> QED BY <2>1, <2>2, <3>1, ExceptionWhole DEF LongInv, ExceptionOK, Errors!LongTextIsWhole
  <2>3. CASE exc = Errors!NoException
    BY <2>1, <2>3 DEF LongInv, ExceptionOK, Errors!LongTextIsWhole
  <2> QED BY <2>2, <2>3
<1> QED BY <1>1, <1>2, <1>3, <1>4, <1>5 DEF Errors!Next

\* Text that does not pass through the error buffer is whole: the exception of a
\* rejected handshake in Client::init, and a type name from TypeRef::format.
THEOREM LongTexts == Spec => []LongTextIsWhole
<1> DEFINE I == part = "error" => LongInv
<1>1. Init => I
  BY DEF Init, Errors!Init, LongInv, ExceptionOK, Errors!LongTextIsWhole, Errors!NoError
<1>2. I /\ [Next]_vars => I'
  <2> SUFFICES ASSUME I, [Next]_vars PROVE I'
    OBVIOUS
  <2>1. CASE Next
    BY <2>1, NextLong DEF Next
  <2>2. CASE UNCHANGED vars
    BY <2>2 DEF vars, callVars, errorVars, LongInv, ExceptionOK, Errors!LongTextIsWhole
  <2> QED BY <2>1, <2>2
<1>3. I => LongTextIsWhole
  BY DEF LongTextIsWhole, LongInv
<1> QED BY <1>1, <1>2, <1>3, PTL DEF Spec

-----------------------------------------------------------------------------
(* The error buffer *)

\* Only the last character of a text can be torn, and only its first byte be left.
TornAtEnd(t) == \A i \in 1..Len(t) : Errors!Torn(t, i) => i = Len(t) /\ t[i] = Lead

\* The buffer holds t, and a terminator behind it where there is room.
Holds(buf, t) ==
    /\ t \in Seq(Bytes) /\ Len(t) <= Cap /\ TornAtEnd(t)
    /\ \A i \in 1..Len(t) : buf[i] = t[i]
    /\ Len(t) < Cap => buf[Len(t) + 1] = 0

MessageInv ==
    /\ msg \in [1..Cap -> Nat]
    /\ stage \in {"idle", "running", "returned"}
    /\ stage = "running" => Holds(msg, told)
    /\ Errors!MessageIsThisCalls

\* As much of a text as fits.
LEMMA CutText ==
    ASSUME NEW text \in Errors!Texts, NEW n \in Nat
    PROVE  LET c == Errors!Cut(text, n)
           IN  /\ c \in Seq(Bytes) /\ Len(c) = Errors!Least(n, Len(text))
               /\ \A i \in 1..Len(c) : c[i] = text[i]
               /\ TornAtEnd(c)
<1> DEFINE c == Errors!Cut(text, n)
           k == Errors!Least(n, Len(text))
<1>1. /\ text \in Seq(Bytes) /\ Len(text) \in Nat /\ DOMAIN text = 1..Len(text)
      /\ \A i \in DOMAIN text : ~Errors!Torn(text, i)
  BY TextFact DEF Errors!Texts, Errors!Utf8
<1>2. k \in 0..Len(text)
  BY <1>1 DEF Errors!Least
<1>3. c = SubSeq(text, 1, k)
  BY DEF Errors!Cut
<1> HIDE DEF k, c
<1>4. c \in Seq(Bytes) /\ Len(c) = k /\ \A i \in 1..k : c[i] = text[i]
  BY <1>1, <1>2, <1>3
<1>5. ASSUME NEW i \in 1..Len(c), Errors!Torn(c, i) PROVE i = Len(c) /\ c[i] = Lead
  <2>1. i \in DOMAIN text /\ c[i] = text[i]
    BY <1>1, <1>2, <1>4
  <2>2. ~Errors!Torn(text, i)
    BY <1>1, <2>1
  <2>3. CASE c[i] = Lead /\ (i = Len(c) \/ c[i + 1] # Trail)
    <3>1. SUFFICES ASSUME i # Len(c) PROVE FALSE
      BY <2>3
    <3>2. i + 1 \in 1..k
      BY <1>2, <1>4, <3>1
    <3>3. text[i + 1] # Trail
      BY <1>4, <2>3, <3>1, <3>2
    <3> QED BY <2>1, <2>2, <2>3, <3>3 DEF Errors!Torn
  <2>4. CASE c[i] = Trail /\ (i = 1 \/ c[i - 1] # Lead)
    <3>1. i # 1 => i - 1 \in 1..k
      BY <1>2, <1>4
    <3> QED BY <1>4, <2>1, <2>2, <2>4, <3>1 DEF Errors!Torn
  <2> QED BY <1>5, <2>3, <2>4 DEF Errors!Torn
<1> QED BY <1>4, <1>5 DEF c, k, TornAtEnd

\* What check reads is what the buffer holds, but for a character its end tears.
LEMMA ReadBack ==
    ASSUME msg \in [1..Cap -> Nat], NEW t, Holds(msg, t)
    PROVE  Errors!cstr_array_to_string(msg) = Errors!from_utf8_lossy(t)
<1> DEFINE ends == {i \in DOMAIN msg : msg[i] = 0}
           end == IF ends = {} THEN Cap ELSE (CHOOSE i \in ends : \A j \in ends : i <= j) - 1
<1>1. Cap \in Nat /\ Bytes \subseteq Nat \ {0} /\ t \in Seq(Bytes) /\ Len(t) \in Nat /\ Len(t) <= Cap
  BY BoundaryAssumption DEF BoundaryAssumption, Holds
<1>2. \A i \in 1..Len(t) : msg[i] = t[i] /\ msg[i] # 0
  BY <1>1 DEF Holds
<1>3. DOMAIN msg = 1..Cap
  OBVIOUS
<1>4. end = Len(t)
  <2>1. CASE Len(t) = Cap
    <3>1. ends = {}
      BY <1>2, <1>3, <2>1
    <3> QED BY <2>1, <3>1
  <2>2. CASE Len(t) < Cap
    <3>1. Len(t) + 1 \in ends
      BY <1>1, <1>3, <2>2 DEF Holds
    <3>2. \A j \in ends : j \in Nat /\ Len(t) + 1 <= j
      BY <1>1, <1>2, <1>3
    <3> DEFINE P(i) == \A j \in ends : i <= j
               c == CHOOSE i \in ends : P(i)
    <3>3. P(Len(t) + 1)
      BY <3>2
    <3>4. c \in ends /\ P(c)
      <4> HIDE DEF P, ends
      <4> QED BY <3>1, <3>3, Zenon
    <3>5. c = Len(t) + 1
      <4>1. c <= Len(t) + 1 /\ c \in Nat /\ Len(t) + 1 <= c
        BY <3>1, <3>2, <3>4
      <4> HIDE DEF c
      <4> QED BY <1>1, <4>1
    <3>6. end = c - 1
      BY <3>1
    <3> HIDE DEF c, end, ends
    <3> QED BY <1>1, <3>5, <3>6
  <2> QED BY <1>1, <2>1, <2>2
<1>5. Errors!cstr_array_to_string(msg) = Errors!from_utf8_lossy(SubSeq(msg, 1, end))
  BY DEF Errors!cstr_array_to_string
<1> HIDE DEF end, ends
<1>6. SubSeq(msg, 1, Len(t)) = t
  <2>1. SubSeq(msg, 1, Len(t)) = [i \in 1..Len(t) |-> msg[i]]
    BY <1>1
  <2>2. t = [i \in 1..Len(t) |-> t[i]]
    BY <1>1
  <2> QED BY <1>2, <2>1, <2>2
<1> QED BY <1>4, <1>5, <1>6

\* Every step of a call keeps the invariant.
LEMMA NextMessage == ASSUME MessageInv, Errors!Next PROVE MessageInv'
<1>1. Cap \in Nat \ {0} /\ Bytes \subseteq Nat \ {0}
  BY BoundaryAssumption DEF BoundaryAssumption
<1>2. CASE Errors!format
  <2>1. result'.kind = "Name"
    BY <1>2 DEF Errors!format, Errors!NoError
  <2>2. stage' = "returned" /\ msg' = msg
    BY <1>2 DEF Errors!format
  <2> QED BY <2>1, <2>2 DEF MessageInv, Errors!MessageIsThisCalls
<1>3. CASE Errors!Call
  <2>1. msg' = [i \in 1..Cap |-> 0] /\ told' = <<>> /\ stage' = "running"
    BY <1>3 DEF Errors!Call, Errors!zeroed, Errors!Slots, Errors!NoText
  <2>2. Holds(msg', told')
    BY <1>1, <2>1 DEF Holds, TornAtEnd
  <2> QED BY <2>1, <2>2 DEF MessageInv, Errors!MessageIsThisCalls
<1>4. CASE Errors!set_err
  <2>1. CASE UNCHANGED <<msg, told>>
    <3>1. stage = "running" /\ stage' = "running"
      BY <1>4 DEF Errors!set_err
    <3>2. Holds(msg, told) => Holds(msg', told')
      BY <2>1
    <3> QED BY <2>1, <3>1, <3>2 DEF MessageInv, Errors!MessageIsThisCalls
  <2>2. CASE \E text \in Errors!Texts : msg' = Errors!Copy(text) /\ told' = Errors!Cut(text, Cap - 1)
    <3>1. PICK text \in Errors!Texts : msg' = Errors!Copy(text) /\ told' = Errors!Cut(text, Cap - 1)
      BY <2>2
    <3>2. text \in Seq(Bytes) /\ Len(text) \in Nat /\ \A i \in 1..Len(text) : text[i] \in Nat
      BY TextFact DEF Errors!Texts
    <3> DEFINE n == Errors!Least(Len(text), Cap - 1)
    <3>3. n \in 0..Cap - 1 /\ n <= Len(text) /\ Errors!Least(Cap - 1, Len(text)) = n
      BY <1>1, <3>2 DEF Errors!Least
    <3>4. msg' = [i \in 1..Cap |-> IF i <= n THEN text[i] ELSE IF i = n + 1 THEN 0 ELSE msg[i]]
      BY <3>1 DEF Errors!Copy, Errors!Slots
    <3>5. /\ told' \in Seq(Bytes) /\ Len(told') = n /\ TornAtEnd(told')
          /\ \A i \in 1..n : told'[i] = text[i]
      BY <1>1, <3>1, <3>3, CutText
    <3> HIDE DEF n
    <3>6. msg' \in [1..Cap -> Nat]
      BY <1>1, <3>2, <3>3, <3>4 DEF MessageInv
    <3>7. Holds(msg', told')
      BY <1>1, <3>3, <3>4, <3>5 DEF Holds
    <3>8. stage' = "running"
      BY <1>4 DEF Errors!set_err
    <3> QED BY <3>6, <3>7, <3>8 DEF MessageInv, Errors!MessageIsThisCalls
  <2> QED BY <1>4, <2>1, <2>2 DEF Errors!set_err
<1>5. CASE Errors!CSetsErr
  <2>1. PICK text \in Errors!Texts :
          /\ msg' = [i \in 1..Cap |-> IF i <= Len(text) THEN text[i]
                                      ELSE IF i = Len(text) + 1 THEN 0 ELSE msg[i]]
          /\ told' = Errors!Cut(text, Cap)
    BY <1>5 DEF Errors!CSetsErr, Errors!Slots
  <2>2. text \in Seq(Bytes) /\ Len(text) \in Nat /\ \A i \in 1..Len(text) : text[i] \in Nat
    BY TextFact DEF Errors!Texts
  <2> DEFINE n == Errors!Least(Cap, Len(text))
  <2>3. n \in 0..Cap /\ n <= Len(text) /\ (n < Cap => n = Len(text))
    BY <1>1, <2>2 DEF Errors!Least
  <2>4. /\ told' \in Seq(Bytes) /\ Len(told') = n /\ TornAtEnd(told')
        /\ \A i \in 1..n : told'[i] = text[i]
    BY <1>1, <2>1, <2>3, CutText
  <2> HIDE DEF n
  <2>5. msg' \in [1..Cap -> Nat]
    BY <1>1, <2>1, <2>2 DEF MessageInv
  <2>6. Holds(msg', told')
    BY <1>1, <2>1, <2>2, <2>3, <2>4 DEF Holds
  <2>7. stage' = "running"
    BY <1>5 DEF Errors!CSetsErr
  <2> QED BY <2>5, <2>6, <2>7 DEF MessageInv, Errors!MessageIsThisCalls
<1>6. CASE Errors!Rejected
  BY <1>6 DEF MessageInv, Errors!Rejected, Errors!MessageIsThisCalls
<1>7. CASE Errors!Return
  <2>1. stage = "running" /\ stage' = "returned" /\ UNCHANGED <<msg, told>> /\ Holds(msg, told)
    BY <1>7 DEF Errors!Return, MessageInv
  <2>2. ASSUME result'.kind = "Io"
        PROVE  result'.message = Errors!cstr_array_to_string(msg)
    <3>1. result' # Errors!From_Exception(exc) /\ result' # Errors!check("Ok")
      BY <2>2 DEF Errors!From_Exception, Errors!check, Errors!NoError
    <3>2. result' = Errors!check("Io")
      BY <1>7, <3>1 DEF Errors!Return
    <3> QED BY <3>2 DEF Errors!check
  <2>3. Errors!cstr_array_to_string(msg) = Errors!from_utf8_lossy(told)
    BY <2>1, ReadBack DEF MessageInv
  <2> DEFINE m == Errors!from_utf8_lossy(told)
  <2>4. told \in Seq(Bytes) /\ DOMAIN told = 1..Len(told) /\ Len(told) \in Nat /\ TornAtEnd(told)
    BY <2>1 DEF Holds
  <2>5. /\ m = [i \in 1..Len(told) |-> IF Errors!Torn(told, i) THEN -1 ELSE told[i]]
        /\ Len(m) = Len(told)
    BY <2>4 DEF Errors!from_utf8_lossy, Errors!Replacement
  <2> HIDE DEF m
  <2>6. ASSUME NEW i \in DOMAIN told
        PROVE  m[i] = told[i] \/ (m[i] = Errors!Replacement /\ i = Len(told) /\ told[i] = Lead)
    BY <2>4, <2>5 DEF TornAtEnd, Errors!Replacement
  <2>7. Errors!MessageIsThisCalls'
    BY <2>1, <2>2, <2>3, <2>5, <2>6 DEF Errors!MessageIsThisCalls, Errors!Replacement, m
  <2> QED BY <2>1, <2>7 DEF MessageInv
<1> QED BY <1>2, <1>3, <1>4, <1>5, <1>6, <1>7 DEF Errors!Next

\* The message of an error that passes through the fixed buffer is what its own call
\* reported last, whatever was in the buffer before.
THEOREM MessagesCurrent == Spec => []MessageIsThisCalls
<1> DEFINE I == part = "error" => MessageInv
<1>1. Init => I
  <2>1. Cap \in Nat
    BY BoundaryAssumption DEF BoundaryAssumption
  <2> QED BY <2>1 DEF Init, Errors!Init, MessageInv, Errors!MessageIsThisCalls, Errors!Slots
<1>2. I /\ [Next]_vars => I'
  <2> SUFFICES ASSUME I, [Next]_vars PROVE I'
    OBVIOUS
  <2>1. CASE Next
    BY <2>1, NextMessage DEF Next
  <2>2. CASE UNCHANGED vars
    BY <2>2 DEF vars, callVars, errorVars, MessageInv, Errors!MessageIsThisCalls
  <2> QED BY <2>1, <2>2
<1>3. I => MessageIsThisCalls
  BY DEF MessageIsThisCalls, MessageInv
<1> QED BY <1>1, <1>2, <1>3, PTL DEF Spec

-----------------------------------------------------------------------------
(* The values of a header's enum *)

\* What counting up to n gives: the entries in X have the value v, the others count on.
Counted(g, n, X, v) ==
    g = [k \in 1..n |-> IF k \in X THEN v[k] ELSE IF k = 1 THEN 0 ELSE g[k - 1] + 1]

\* There is such a counting, by the least number of entries that has none.
LEMMA CountedExists ==
    ASSUME NEW n \in Nat, NEW X, NEW v
    PROVE  \E g : Counted(g, n, X, v)
<1> DEFINE Can(m) == \E g : Counted(g, m, X, v)
           Bad == {m \in 0..n : ~Can(m)}
<1>1. Bad = {}
  <2>1. SUFFICES ASSUME Bad # {} PROVE FALSE
    OBVIOUS
  <2>2. PICK m \in Bad : \A k \in Bad : m <= k
    <3>1. Bad \in SUBSET Nat
      OBVIOUS
    <3> HIDE DEF Bad
    <3> QED BY <2>1, <3>1, NatMin
  <2>3. m \in 0..n /\ ~Can(m)
    BY <2>2
  <2>4. CASE m = 0
    <3>1. Counted(<<>>, 0, X, v)
      BY DEF Counted
    <3> QED BY <2>3, <2>4, <3>1
  <2>5. CASE m # 0
    <3>1. m - 1 \in 0..n /\ ~(m <= m - 1) /\ m \in Nat
      BY <2>3, <2>5
    <3>2. Can(m - 1)
      BY <2>2, <3>1
    <3>3. PICK g : Counted(g, m - 1, X, v)
      BY <3>2
    <3> DEFINE last == IF m \in X THEN v[m] ELSE IF m = 1 THEN 0 ELSE g[m - 1] + 1
               h == [k \in 1..m |-> IF k < m THEN g[k] ELSE last]
    <3>4. ASSUME NEW k \in 1..m
          PROVE  h[k] = IF k \in X THEN v[k] ELSE IF k = 1 THEN 0 ELSE h[k - 1] + 1
      <4>1. k \in Nat /\ k >= 1 /\ (k # 1 => k - 1 \in 1..m /\ h[k - 1] = g[k - 1])
        BY <3>1
      <4>2. CASE k < m
        <5>1. k \in 1..(m - 1) /\ h[k] = g[k]
          BY <3>1, <4>1, <4>2
        <5>2. g[k] = IF k \in X THEN v[k] ELSE IF k = 1 THEN 0 ELSE g[k - 1] + 1
          <6>1. g = [i \in 1..(m - 1) |-> IF i \in X THEN v[i] ELSE IF i = 1 THEN 0 ELSE g[i - 1] + 1]
            BY <3>3 DEF Counted
          <6> QED BY <5>1, <6>1, Zenon
        <5> HIDE DEF h
        <5> QED BY <4>1, <5>1, <5>2
      <4>3. CASE k = m
        <5>1. h[k] = last
          BY <3>1, <4>3
        <5> HIDE DEF h
        <5> QED BY <4>1, <4>3, <5>1
      <4> QED BY <3>1, <4>2, <4>3
    <3>5. Counted(h, m, X, v)
      <4>1. h = [k \in 1..m |-> h[k]]
        OBVIOUS
      <4> HIDE DEF h
      <4> QED BY <3>4, <4>1, Zenon DEF Counted
    <3> QED BY <2>3, <3>5
  <2> QED BY <2>4, <2>5
<1>2. n \in 0..n
  OBVIOUS
<1> QED BY <1>1, <1>2

\* What the C compiler does, one entry at a time.
LEMMA CValueFact ==
    ASSUME Len(header) \in Nat
    PROVE  \A k \in 1..Len(header) :
              Enums!CValue[k] = IF header[k].init # Enums!NoInit THEN Enums!CInteger(header[k].init)
                                ELSE IF k = 1 THEN 0 ELSE Enums!CValue[k - 1] + 1
<1> DEFINE X == {k \in 1..Len(header) : header[k].init # Enums!NoInit}
           v == [k \in 1..Len(header) |-> Enums!CInteger(header[k].init)]
           Rec(f) == [k \in 1..Len(header) |-> IF header[k].init # Enums!NoInit THEN Enums!CInteger(header[k].init)
                                               ELSE IF k = 1 THEN 0 ELSE f[k - 1] + 1]
           c == Enums!CValue
<1>1. c = CHOOSE f : f = Rec(f)
  BY DEF Enums!CValue
<1>2. PICK g : Counted(g, Len(header), X, v)
  BY CountedExists
<1>3. g = Rec(g)
  <2>1. \A k \in 1..Len(header) :
           (IF k \in X THEN v[k] ELSE IF k = 1 THEN 0 ELSE g[k - 1] + 1)
              = IF header[k].init # Enums!NoInit THEN Enums!CInteger(header[k].init)
                ELSE IF k = 1 THEN 0 ELSE g[k - 1] + 1
    OBVIOUS
  <2> QED BY <1>2, <2>1 DEF Counted
<1>4. c = Rec(c)
  <2> HIDE DEF Rec, c
  <2> QED BY <1>1, <1>3
<1> HIDE DEF c
<1>5. \A k \in 1..Len(header) :
         c[k] = IF header[k].init # Enums!NoInit THEN Enums!CInteger(header[k].init)
                ELSE IF k = 1 THEN 0 ELSE c[k - 1] + 1
  BY <1>4, Zenon
<1> QED BY <1>5 DEF c

\* A numeral of at most one digit is that digit, whatever its base.
LEMMA ShortNumeral ==
    ASSUME NEW d \in Seq(0..15), Len(d) <= 1
    PROVE  Enums!Numeral(d, 8) = Enums!Numeral(d, 10)
<1> DEFINE Rec(f, b) == [i \in 0..Len(d) |-> IF i = 0 THEN 0 ELSE b * f[i - 1] + d[i]]
           n == IF Len(d) = 0 THEN 0 ELSE d[1]
<1>1. Len(d) \in {0, 1} /\ (Len(d) = 1 => d[1] \in Int)
  <2>1. Len(d) \in Nat /\ Len(d) <= 1
    OBVIOUS
  <2>2. ASSUME Len(d) = 1 PROVE d[1] \in 0..15
    <3>1. 1 \in 1..Len(d)
      BY <2>2
    <3> QED BY ONLY <3>1, d \in Seq(0..15)
  <2>3. Len(d) = 1 => d[1] \in Int
    BY <2>2
  <2>4. \A m \in Nat : m <= 1 => m \in {0, 1}
    OBVIOUS
  <2> QED BY ONLY <2>1, <2>3, <2>4
<1>2. ASSUME NEW b \in {8, 10} PROVE Enums!Numeral(d, b) = n
  <2> DEFINE g == [i \in 0..Len(d) |-> IF i = 0 THEN 0 ELSE d[i]]
             c == CHOOSE f : f = Rec(f, b)
  <2>1. g = Rec(g, b)
    <3>1. ASSUME NEW i \in 0..Len(d), i # 0 PROVE d[i] = b * g[i - 1] + d[i]
      <4>1. i = 1 /\ g[i - 1] = 0 /\ d[i] \in Int
        BY <1>1, <3>1
      <4> HIDE DEF g
      <4> QED BY <1>2, <4>1
    <3>2. \A i \in 0..Len(d) : (IF i = 0 THEN 0 ELSE d[i]) = IF i = 0 THEN 0 ELSE b * g[i - 1] + d[i]
      BY <3>1
    <3> QED BY <3>2
  <2>2. c = Rec(c, b)
    <3> HIDE DEF Rec, g
    <3> QED BY <2>1
  <2>3. Enums!Numeral(d, b) = c[Len(d)]
    BY DEF Enums!Numeral
  <2> HIDE DEF c
  <2>4. \A i \in 0..Len(d) : c[i] = IF i = 0 THEN 0 ELSE b * c[i - 1] + d[i]
    BY <2>2, Zenon
  <2>5. CASE Len(d) = 0
    <3>1. c[0] = 0
      BY <2>4, <2>5
    <3> QED BY <2>3, <2>5, <3>1
  <2>6. CASE Len(d) = 1
    <3>1. c[0] = 0 /\ c[1] = b * c[1 - 1] + d[1]
      BY <2>4, <2>6
    <3>2. c[1] = d[1]
      BY <1>1, <1>2, <2>6, <3>1
    <3> QED BY <2>3, <2>6, <3>2
  <2> QED BY <1>1, <2>5, <2>6
<1> QED BY <1>2

\* What build.rs makes of an initializer: nothing of an expression or of a negative
\* hexadecimal literal, C's number of every other but an octal one beyond 7.
LEMMA ReadAlike ==
    ASSUME NEW k, header[k].init \in Inits, header[k].init # Enums!NoInit
    PROVE  LET parsed == Enums!parse_c_integer(header[k].init)
           IN  /\ parsed = {} => Enums!Misread(k)
               /\ \A w \in parsed : ~Enums!Misread(k) => w = Enums!CInteger(header[k].init)
<1> DEFINE t == header[k].init
<1>1. /\ t \in [form : {"none", "decimal", "octal", "hex", "expression"}, minus : BOOLEAN, digits : Seq(0..15)]
      /\ t.form = "none" => t.digits = <<>> /\ ~t.minus
  BY EnumAssumption DEF EnumAssumption
<1>2. /\ t.form \in {"none", "decimal", "octal", "hex", "expression"}
      /\ t.digits \in Seq(0..15) /\ Len(t.digits) \in Nat
  BY <1>1
<1>3. CASE t.form = "expression" \/ (t.form = "hex" /\ t.minus)
  BY <1>3 DEF Enums!parse_c_integer, Enums!Misread, Enums!None
<1>4. CASE t.form = "hex" /\ ~t.minus
  BY <1>4 DEF Enums!parse_c_integer, Enums!CInteger
<1>5. CASE t.form = "octal"
  <2>1. Enums!parse_c_integer(t) = {Enums!Signed(t.minus, Enums!Numeral(t.digits, 10))}
    BY <1>5 DEF Enums!parse_c_integer
  <2>2. Enums!CInteger(t) = Enums!Signed(t.minus, Enums!Numeral(t.digits, 8))
    BY <1>5 DEF Enums!CInteger
  <2>3. ~Enums!Misread(k) => Enums!Numeral(t.digits, 8) = Enums!Numeral(t.digits, 10)
    BY <1>2, <1>5, ShortNumeral DEF Enums!Misread
  <2> QED BY <2>1, <2>2, <2>3
<1>6. CASE t.form \in {"none", "decimal"}
  BY <1>6 DEF Enums!parse_c_integer, Enums!CInteger
<1> QED BY <1>2, <1>3, <1>4, <1>5, <1>6

\* A header's enum, as C accepts one.
HeaderOK ==
    /\ Len(header) \in Nat
    /\ \A k \in 1..Len(header) : header[k].init \in Inits
    /\ \A j, k \in 1..Len(header) : header[j].name = header[k].name => j = k
    /\ \A k \in 1..Len(header) : header[k].name = "" => k = Len(header) /\ header[k].init = Enums!NoInit

\* build.rs counts as C does, unless it counts on from an initializer it misreads.
InStep ==
    /\ pos = 0 => next_value = 0
    /\ pos > 0 /\ header[pos].name # "" /\ ~Enums!Follows(pos) => next_value = Enums!CValue[pos] + 1

\* Every value found is that of an entry read, and C's value unless it is counted on
\* from a misread initializer.
FoundAt(c, k) ==
    /\ c[1] = header[k].name /\ header[k].name # ""
    /\ ~Enums!Follows(k) => c = <<header[k].name, Enums!CValue[k]>>
Sound == \A c \in scanned : \E k \in 1..pos : FoundAt(c, k)

\* Every entry read has been found with C's value, unless its initializer is misread
\* or it is counted on from one that is.
Complete ==
    \A k \in 1..pos : header[k].name # "" /\ ~Enums!Follows(k) =>
        <<header[k].name, Enums!CValue[k]>> \in scanned

EnumInv ==
    /\ HeaderOK /\ pos \in 0..Len(header) /\ tag \in Tags
    /\ InStep /\ Sound /\ Complete
    /\ phase # "scan" => pos = Len(header)
    /\ phase = "passed" => \A c \in Enums!enumerators : Enums!Mapped(c)

\* An entry without a value counts on from a misread one if the one before does.
LEMMA FollowsOn ==
    ASSUME HeaderOK, NEW q \in 2..Len(header), header[q].init = Enums!NoInit, Enums!Follows(q - 1)
    PROVE  Enums!Follows(q)
<1>1. PICK j \in 1..(q - 1) :
        Enums!Misread(j) /\ \A h \in (j + 1)..(q - 1) : header[h].init = Enums!NoInit
  BY DEF Enums!Follows
<1>2. j \in 1..q /\ \A h \in (j + 1)..q : h = q \/ h \in (j + 1)..(q - 1)
  <2>1. Len(header) \in Nat
    BY DEF HeaderOK
  <2>2. q \in Nat /\ j \in Nat /\ j >= 1 /\ j <= q - 1
    BY <2>1
  <2> QED BY <2>2
<1>3. \A h \in (j + 1)..q : header[h].init = Enums!NoInit
  BY <1>1, <1>2
<1> QED BY <1>1, <1>2, <1>3 DEF Enums!Follows

\* A misread entry counts as counted on from itself.
LEMMA FollowsItself ==
    ASSUME NEW q \in Nat \ {0}, Enums!Misread(q)
    PROVE  Enums!Follows(q)
<1>1. q \in 1..q /\ (q + 1)..q = {}
  OBVIOUS
<1> QED BY <1>1 DEF Enums!Follows

\* What does not change while an enum is read.
LEMMA SameHeader ==
    ASSUME header' = header
    PROVE  /\ HeaderOK' <=> HeaderOK
           /\ Enums!CValue' = Enums!CValue
           /\ \A k : Enums!Follows(k)' <=> Enums!Follows(k)
           /\ \A c, k : FoundAt(c, k)' <=> FoundAt(c, k)
<1>1. HeaderOK' <=> HeaderOK
  BY DEF HeaderOK, Enums!NoInit
<1>2. Enums!CValue' = Enums!CValue
  BY DEF Enums!CValue, Enums!NoInit, Enums!CInteger
<1>3. \A k : Enums!Follows(k)' <=> Enums!Follows(k)
  BY DEF Enums!Follows, Enums!Misread, Enums!NoInit
<1>4. \A c, k : FoundAt(c, k)' <=> FoundAt(c, k)
  BY <1>2, <1>3 DEF FoundAt
<1> QED BY <1>1, <1>2, <1>3, <1>4

\* One entry is read.
LEMMA ReadEntry == ASSUME EnumInv, Enums!parse_enum_body PROVE EnumInv'
<1> DEFINE q == pos + 1
           e == header[q]
           cv == Enums!CValue
<1>1. /\ phase = "scan" /\ pos \in Nat /\ q \in 1..Len(header) /\ Len(header) \in Nat
      /\ pos' = q /\ UNCHANGED <<tag, header, phase>> /\ Enums!Entry = e
  <2>1. Len(header) \in Nat /\ pos \in 0..Len(header)
    BY DEF EnumInv, HeaderOK
  <2>2. pos \in Nat /\ q \in 1..Len(header)
    BY <2>1 DEF Enums!parse_enum_body
  <2> QED BY <2>1, <2>2 DEF Enums!parse_enum_body, Enums!Entry
<1>2. /\ \A k \in 1..Len(header) : header[k].name = "" => k = Len(header) /\ header[k].init = Enums!NoInit
      /\ HeaderOK
  BY DEF EnumInv, HeaderOK
<1>3. \/ e.name = "" /\ UNCHANGED <<next_value, scanned>>
      \/ /\ e.name # "" /\ e.init = Enums!NoInit
         /\ scanned' = scanned \cup {<<e.name, next_value>>} /\ next_value' = next_value + 1
      \/ /\ e.init # Enums!NoInit
         /\ \E w \in Enums!parse_c_integer(e.init) :
               scanned' = scanned \cup {<<e.name, w>>} /\ next_value' = w + 1
      \/ /\ e.init # Enums!NoInit /\ Enums!parse_c_integer(e.init) = {}
         /\ UNCHANGED <<next_value, scanned>>
  BY <1>1 DEF Enums!parse_enum_body, Enums!EmptyEntry, Enums!ImplicitEntry, Enums!ExplicitEntry,
      Enums!SkippedEntry, Enums!None
<1>4. cv[q] = IF e.init # Enums!NoInit THEN Enums!CInteger(e.init) ELSE IF q = 1 THEN 0 ELSE cv[q - 1] + 1
  BY <1>1, CValueFact
<1>5. \A k \in 1..q : k = q \/ k \in 1..pos
  BY <1>1
<1>6. ASSUME e.name # "", e.init = Enums!NoInit, ~Enums!Follows(q) PROVE next_value = cv[q]
  <2>1. CASE q = 1
    <3>1. pos = 0
      BY <1>1, <2>1
    <3>2. cv[q] = 0
      <4> HIDE DEF cv, q, e
      <4> QED BY <1>4, <1>6, <2>1
    <3> HIDE DEF cv
    <3> QED BY <3>1, <3>2 DEF EnumInv, InStep
  <2>2. CASE q # 1
    <3>1. q \in 2..Len(header) /\ q - 1 = pos /\ pos > 0 /\ pos \in 1..Len(header) /\ pos # Len(header)
      BY <1>1, <2>2
    <3>2. header[pos].name # ""
      BY <1>2, <3>1
    <3>3. ~Enums!Follows(pos)
      <4>1. SUFFICES ASSUME Enums!Follows(q - 1) PROVE FALSE
        BY <3>1
      <4> QED BY <1>2, <1>6, <3>1, <4>1, FollowsOn
    <3>4. next_value = cv[pos] + 1
      BY <3>1, <3>2, <3>3 DEF EnumInv, InStep
    <3>5. cv[q] = cv[pos] + 1
      BY <1>4, <1>6, <2>2, <3>1
    <3> QED BY <3>4, <3>5
  <2> QED BY <2>1, <2>2
<1>7. ASSUME NEW w, e.name # "", ~Enums!Follows(q) => w = cv[q],
             scanned' = scanned \cup {<<e.name, w>>}, next_value' = w + 1
      PROVE  InStep' /\ Sound' /\ Complete'
  <2>1. InStep'
    <3>1. pos' # 0
      BY <1>1
    <3>2. ~Enums!Follows(q) => next_value' = cv[q] + 1
      BY <1>7
    <3> QED BY <1>1, <3>1, <3>2, SameHeader DEF InStep
  <2>2. FoundAt(<<e.name, w>>, q)
    BY <1>7 DEF FoundAt
  <2>3. Sound'
    <3>1. ASSUME NEW c \in scanned' PROVE \E k \in 1..q : FoundAt(c, k)
      <4>1. CASE c \in scanned
        <5>1. PICK k \in 1..pos : FoundAt(c, k)
          BY <4>1 DEF EnumInv, Sound
        <5>2. k \in 1..q
          BY <1>1
        <5> QED BY <5>1, <5>2
      <4>2. CASE c = <<e.name, w>>
        <5>1. q \in 1..q
          BY <1>1
        <5> QED BY <2>2, <4>2, <5>1
      <4> QED BY <1>7, <4>1, <4>2
    <3> QED BY <1>1, <3>1, SameHeader DEF Sound
  <2>4. Complete'
    <3>1. ASSUME NEW k \in 1..q, header[k].name # "", ~Enums!Follows(k)
          PROVE  <<header[k].name, cv[k]>> \in scanned'
      BY <1>5, <1>7, <3>1 DEF EnumInv, Complete
    <3> QED BY <1>1, <3>1, SameHeader DEF Complete
  <2> QED BY <2>1, <2>3, <2>4
<1>8. ASSUME e.name = "" \/ Enums!Misread(q), UNCHANGED <<next_value, scanned>>
      PROVE  InStep' /\ Sound' /\ Complete'
  <2>1. e.name = "" \/ Enums!Follows(q)
    <3>1. q \in Nat \ {0}
      BY <1>1
    <3> HIDE DEF q
    <3> QED BY <1>8, <3>1, FollowsItself
  <2>2. InStep'
    <3>1. pos' # 0 /\ header' = header
      BY <1>1
    <3>2. \A k : Enums!Follows(k)' <=> Enums!Follows(k)
      BY <3>1, SameHeader
    <3>3. pos' = q
      BY <1>1
    <3> QED BY <2>1, <3>1, <3>2, <3>3 DEF InStep
  <2>3. Sound'
    <3>1. ASSUME NEW c \in scanned PROVE \E k \in 1..q : FoundAt(c, k)
      <4>1. PICK k \in 1..pos : FoundAt(c, k)
        BY DEF EnumInv, Sound
      <4>2. k \in 1..q
        BY <1>1
      <4> QED BY <4>1, <4>2
    <3> QED BY <1>1, <1>8, <3>1, SameHeader DEF Sound
  <2>4. Complete'
    <3>1. ASSUME NEW k \in 1..q, header[k].name # "", ~Enums!Follows(k)
          PROVE  <<header[k].name, cv[k]>> \in scanned'
      BY <1>5, <1>8, <2>1, <3>1 DEF EnumInv, Complete
    <3> QED BY <1>1, <3>1, SameHeader DEF Complete
  <2> QED BY <2>2, <2>3, <2>4
<1>9. InStep' /\ Sound' /\ Complete'
  <2>1. CASE /\ e.name # "" /\ e.init = Enums!NoInit
             /\ scanned' = scanned \cup {<<e.name, next_value>>} /\ next_value' = next_value + 1
    BY <1>6, <1>7, <2>1
  <2>2. CASE e.init # Enums!NoInit
    <3>1. e.name # "" /\ cv[q] = Enums!CInteger(e.init) /\ e.init \in Inits
      BY <1>1, <1>2, <1>4, <2>2 DEF HeaderOK
    <3>2. CASE \E w \in Enums!parse_c_integer(e.init) :
                  scanned' = scanned \cup {<<e.name, w>>} /\ next_value' = w + 1
      <4>1. PICK w \in Enums!parse_c_integer(e.init) :
                  scanned' = scanned \cup {<<e.name, w>>} /\ next_value' = w + 1
        BY <3>2
      <4>2. ~Enums!Misread(q) => w = cv[q]
        BY <2>2, <3>1, ReadAlike
      <4>3. ~Enums!Follows(q) => w = cv[q]
        <5>1. q \in Nat \ {0}
          BY <1>1
        <5> HIDE DEF q, cv
        <5> QED BY <4>2, <5>1, FollowsItself
      <4> QED BY <1>7, <3>1, <4>1, <4>3
    <3>3. CASE Enums!parse_c_integer(e.init) = {} /\ UNCHANGED <<next_value, scanned>>
      <4>1. Enums!Misread(q)
        BY <2>2, <3>1, <3>3, ReadAlike
      <4> QED BY <1>8, <3>3, <4>1
    <3> QED BY <1>3, <2>2, <3>1, <3>2, <3>3
  <2>3. CASE e.name = "" /\ UNCHANGED <<next_value, scanned>>
    BY <1>8, <2>3
  <2> QED BY <1>3, <2>1, <2>2, <2>3
<1>10. HeaderOK' /\ pos' \in 0..Len(header') /\ tag' \in Tags
  <2>1. header' = header /\ tag' = tag /\ pos' = q
    BY <1>1
  <2>2. HeaderOK'
    BY <1>2, <2>1, SameHeader
  <2>3. pos' \in 0..Len(header')
    BY <1>1, <2>1
  <2> QED BY <2>1, <2>2, <2>3 DEF EnumInv
<1> QED BY <1>1, <1>9, <1>10 DEF EnumInv

\* What has been read stays as it is.
LEMMA SameEnum ==
    ASSUME EnumInv, UNCHANGED <<tag, header, pos, next_value, scanned>>
    PROVE  /\ HeaderOK' /\ pos' \in 0..Len(header') /\ tag' \in Tags /\ InStep' /\ Sound' /\ Complete'
           /\ (\A c \in Enums!enumerators : Enums!Mapped(c)) => \A c \in Enums!enumerators' : Enums!Mapped(c)'
<1>1. HeaderOK' /\ pos' \in 0..Len(header') /\ tag' \in Tags
  BY SameHeader DEF EnumInv
<1>2. InStep' /\ Sound' /\ Complete'
  BY SameHeader DEF EnumInv, InStep, Sound, Complete
<1>3. Enums!enumerators' = Enums!enumerators /\ \A c : Enums!Mapped(c)' <=> Enums!Mapped(c)
  BY DEF Enums!enumerators, Enums!Mapped, Enums!Exempt, Enums!Convert, Enums!Kind_from_raw,
      Enums!IntervalUnit_from_raw, Enums!ColumnLayout_from_raw, Enums!PacketKind_from_raw,
      Enums!from_code, Enums!Match, Enums!Constants, Enums!is_sentinel, Enums!None
<1> QED BY <1>1, <1>2, <1>3

\* Every step of the build and of the tests keeps the invariant.
LEMMA NextEnum == ASSUME EnumInv, Enums!EnumNext PROVE EnumInv'
<1>1. CASE Enums!parse_enum_body
  BY <1>1, ReadEntry
<1>3. CASE Enums!compile
  <2>1. phase' \in {"built", "refused"} /\ pos = Len(header)
        /\ UNCHANGED <<tag, header, pos, next_value, scanned>>
    BY <1>3 DEF Enums!compile
  <2> QED BY <2>1, SameEnum DEF EnumInv
<1>4. CASE Enums!parity
  <2>1. /\ phase = "built" /\ UNCHANGED <<tag, header, pos, next_value, scanned>>
        /\ phase' = "passed" => \A c \in Enums!enumerators : Enums!Mapped(c)
    BY <1>4 DEF Enums!parity
  <2> QED BY <2>1, SameEnum DEF EnumInv
<1>5. CASE Enums!Stop
  BY <1>5, SameEnum DEF EnumInv, Enums!Stop, Enums!enumVars
<1> QED BY <1>1, <1>3, <1>4, <1>5 DEF Enums!EnumNext

EnumPart == part = "enum" => EnumInv

\* The invariant holds for every header.
LEMMA EnumInvariance == Spec => []EnumPart
<1>1. Init => EnumPart
  <2> SUFFICES ASSUME part = "enum", Enums!EnumInit PROVE EnumInv
    BY DEF Init, EnumPart
  <2>1. MaxEntries \in Nat
    BY BoundaryAssumption DEF BoundaryAssumption
  <2> DEFINE E == [name : Enums!EntryName, init : Inits]
  <2>2. \E n \in 0..MaxEntries : header \in [1..n -> E]
    BY DEF Enums!EnumInit
  <2>3. Len(header) \in Nat /\ \A k \in 1..Len(header) : header[k].init \in Inits
    <3>1. header \in Seq(E)
      <4> HIDE DEF E
      <4>1. PICK n \in 0..MaxEntries : header \in [1..n -> E]
        BY <2>2
      <4> QED BY <2>1, <4>1
    <3>2. \A k \in 1..Len(header) : header[k] \in E
      <4> HIDE DEF E
      <4> QED BY <3>1
    <3>3. \A k \in 1..Len(header) : header[k].init \in Inits
      BY <3>2
    <3>4. Len(header) \in Nat
      BY <3>1
    <3> QED BY <3>3, <3>4
  <2>4. HeaderOK
    BY <2>3 DEF HeaderOK, Enums!EnumInit
  <2>5. pos = 0 /\ next_value = 0 /\ scanned = {} /\ phase = "scan" /\ tag \in Tags
    BY DEF Enums!EnumInit
  <2>6. InStep /\ Sound /\ Complete
    BY <2>5 DEF InStep, Sound, Complete
  <2> QED BY <2>3, <2>4, <2>5, <2>6 DEF EnumInv
<1>2. EnumPart /\ [Next]_vars => EnumPart'
  <2> SUFFICES ASSUME EnumPart, [Next]_vars PROVE EnumPart'
    OBVIOUS
  <2>1. CASE Next
    BY <2>1, NextEnum DEF Next, EnumPart
  <2>2. CASE UNCHANGED vars
    <3>1. UNCHANGED <<part, tag, header, pos, next_value, scanned, phase>>
      BY <2>2 DEF vars, enumVars
    <3> QED BY <3>1, SameEnum DEF EnumPart, EnumInv
  <2> QED BY <2>1, <2>2
<1> QED BY <1>1, <1>2, PTL DEF Spec

\* For enums of any length, with any names and initializers: every value build.rs
\* gives an enumerator is the C compiler's, unless it is an octal literal beyond 7 or
\* counted on from one, from an expression or from a negative hexadecimal literal.
THEOREM ValuesMatchC == Spec => []LiteralValuesMatchC
<1>1. EnumPart => LiteralValuesMatchC
  <2> SUFFICES ASSUME EnumInv, NEW k \in 1..Len(header), ~Enums!Follows(k),
                      NEW c \in scanned, c[1] = header[k].name
               PROVE  c[2] = Enums!CValue[k]
    BY DEF EnumPart, LiteralValuesMatchC, Enums!LiteralValuesMatchC
  <2>1. PICK j \in 1..pos : FoundAt(c, j)
    BY DEF EnumInv, Sound
  <2>2. j \in 1..Len(header)
    <3>1. Len(header) \in Nat /\ pos \in 0..Len(header)
      BY DEF EnumInv, HeaderOK
    <3> QED BY <3>1
  <2>3. j = k
    BY <2>1, <2>2 DEF EnumInv, HeaderOK, FoundAt
  <2>4. c = <<header[k].name, Enums!CValue[k]>>
    BY <2>1, <2>3 DEF FoundAt
  <2> QED BY <2>4
<1> QED BY <1>1, EnumInvariance, PTL

\* If every initializer is read as C reads it, a header that has been read has given
\* every entry C has, and no other.
LEMMA EveryEntryFound ==
    ASSUME EnumInv, phase # "scan", Enums!AllRead
    PROVE  scanned = Enums!CEntries
<1>1. pos = Len(header) /\ Len(header) \in Nat
  BY DEF EnumInv, HeaderOK
<1>2. \A k \in 1..pos : ~Enums!Follows(k)
  <2>1. ASSUME NEW k \in 1..pos, Enums!Follows(k) PROVE FALSE
    <3>1. PICK j \in 1..k : Enums!Misread(j)
      BY <2>1 DEF Enums!Follows
    <3>2. j \in 1..Len(header)
      BY <1>1
    <3> QED BY <3>1, <3>2 DEF Enums!AllRead
  <2> QED BY <2>1
<1> DEFINE named == {j \in 1..Len(header) : header[j].name # ""}
<1>3. Enums!CEntries = {<<header[k].name, Enums!CValue[k]>> : k \in named}
  BY DEF Enums!CEntries
<1>4. ASSUME NEW c \in scanned PROVE \E k \in named : c = <<header[k].name, Enums!CValue[k]>>
  <2>1. PICK k \in 1..pos : FoundAt(c, k)
    BY DEF EnumInv, Sound
  <2> QED BY <1>1, <1>2, <2>1 DEF FoundAt
<1>5. ASSUME NEW k \in named PROVE <<header[k].name, Enums!CValue[k]>> \in scanned
  BY <1>1, <1>2 DEF EnumInv, Complete
<1> HIDE DEF named
<1> QED BY <1>3, <1>4, <1>5

\* A conversion yields no variant but one the crate has a constant for.
LEMMA ConvertFact ==
    ASSUME tag \in Tags, NEW code, NEW v \in Enums!Convert(code) \cap Enums!Known
    PROVE  <<v, code>> \in Enums!Constants
<1>1. tag \in {"chc_kind", "chc_interval_unit", "chc_col_kind", "chc_packet_kind", "errors"}
  BY BoundaryAssumption DEF BoundaryAssumption
<1>2. Enums!Convert(code) \in {Enums!Match(code), Enums!from_code(code)}
  BY <1>1 DEF Enums!Convert, Enums!Kind_from_raw, Enums!IntervalUnit_from_raw,
      Enums!ColumnLayout_from_raw, Enums!PacketKind_from_raw
<1>3. v # "Other"
  <2>1. "Other" \notin Names /\ Arms \in Seq(Names)
    BY EnumAssumption DEF EnumAssumption
  <2>2. PICK i \in DOMAIN Arms : v = Arms[i]
    BY DEF Enums!Known
  <2> QED BY <2>1, <2>2
<1>4. v \in Enums!Match(code)
  BY <1>2, <1>3 DEF Enums!from_code
<1> QED BY <1>4 DEF Enums!Match

\* For any enum whose initializers build.rs reads as C does, with whatever entries the
\* header's version has: a code of C is never converted to the variant of another code.
THEOREM NoOtherVariant == Spec => []NeverAnotherVariant
<1>1. EnumPart => NeverAnotherVariant
  <2> SUFFICES ASSUME EnumInv, phase # "scan", Enums!AllRead, NEW c \in Enums!CEntries,
                      NEW v \in Enums!Convert(c[2]) \cap Enums!Known
               PROVE  <<v, c[2]>> \in Enums!CEntries
    BY DEF EnumPart, NeverAnotherVariant, Enums!NeverAnotherVariant
  <2>1. tag \in Tags /\ scanned = Enums!CEntries
    BY EveryEntryFound DEF EnumInv
  <2>2. <<v, c[2]>> \in Enums!Constants
    BY <2>1, ConvertFact
  <2> QED BY <2>1, <2>2 DEF Enums!Constants
<1> QED BY <1>1, EnumInvariance, PTL

\* For any such enum: with the parity tests passed, every enumerator of C that is no
\* sentinel and not exempt has its variant.
THEOREM PassedCovers == Spec => []PassedMeansCovered
<1>1. EnumPart => PassedMeansCovered
  <2> SUFFICES ASSUME EnumInv, phase = "passed", Enums!AllRead, NEW c \in Enums!CEntries,
                      ~Enums!is_sentinel(c[1])
               PROVE  Enums!Exempt(c) \/ Enums!Convert(c[2]) # Enums!None
    BY DEF EnumPart, PassedMeansCovered, Enums!PassedMeansCovered
  <2>1. c \in scanned
    BY EveryEntryFound
  <2>2. c \in Enums!enumerators
    BY <2>1 DEF Enums!enumerators
  <2>3. Enums!Mapped(c)
    BY <2>2 DEF EnumInv
  <2> QED BY <2>3 DEF Enums!Mapped
<1> QED BY <1>1, EnumInvariance, PTL

-----------------------------------------------------------------------------
(* The options of a query *)

OptsOK(o) ==
    /\ o = [query_id |-> o.query_id, settings |-> o.settings, params |-> o.params]
    /\ o.settings \in Seq(Query!Settings) /\ o.params \in Seq(Query!Params)

\* Every string pushed so far is behind its pointer.
Copied(h) ==
    \A k \in 1..Len(owned) : owned[k] \in DOMAIN h /\ h[owned[k]] = Query!Pushed(opts)[k]

\* An array is behind its pointer, which is null for an array of nothing.
Behind(h, p, array) == IF array = <<>> THEN p = 0 ELSE p \in DOMAIN h /\ h[p] = array

SettingArray == [i \in DOMAIN opts.settings |-> Query!SettingAt(i)]
ParamArray == [i \in DOMAIN opts.params |-> Query!ParamAt(i)]

RawRecord ==
    [query_id |-> opts.query_id,
     settings |-> settings, n_settings |-> Len(opts.settings),
     params |-> params, n_params |-> Len(opts.params)]

QueryInv ==
    /\ Heap(heap) /\ OptsOK(opts)
    /\ owned \in Seq(Nat)
    /\ stage \in {"idle", "owning", "params", "built", "sealed", "calling", "returned"}
    /\ stage = "idle" => owned = <<>>
    /\ stage \in {"owning", "params", "built", "sealed", "calling"} => Copied(heap)
    /\ stage = "owning" => Len(owned) <= Len(Query!Pushed(opts))
    /\ stage \in {"params", "built", "sealed", "calling"} =>
          Len(owned) = Len(Query!Pushed(opts)) /\ Behind(heap, settings, SettingArray)
    /\ stage \in {"built", "sealed", "calling"} => Behind(heap, params, ParamArray)
    /\ stage \in {"sealed", "calling"} =>
          /\ raw \in DOMAIN heap /\ heap[raw] = RawRecord
          /\ raw \notin {settings, params} /\ \A k \in 1..Len(owned) : owned[k] # raw
    /\ stage = "returned" /\ result = "Ok" => seen = opts

\* The strings of a query by their place: a name and its value, settings first.
LEMMA PushedFact ==
    ASSUME NEW o, OptsOK(o)
    PROVE  /\ Len(o.settings) \in Nat /\ Len(o.params) \in Nat
           /\ Len(Query!Pushed(o)) = 2 * (Len(o.settings) + Len(o.params))
           /\ \A i \in 1..Len(o.settings) :
                 /\ Query!Pushed(o)[2 * i - 1] = o.settings[i].name
                 /\ Query!Pushed(o)[2 * i] = o.settings[i].value
           /\ \A i \in 1..Len(o.params) :
                 /\ Query!Pushed(o)[2 * (Len(o.settings) + i) - 1] = o.params[i].name
                 /\ Query!Pushed(o)[2 * (Len(o.settings) + i)] = o.params[i].value
<1> DEFINE m == Len(o.settings)
           n == Len(o.params)
           both == [i \in 1..m + n |-> IF i <= m THEN o.settings[i] ELSE o.params[i - m]]
           all == [k \in 1..2 * (m + n) |->
                     IF k % 2 = 1 THEN both[(k + 1) \div 2].name ELSE both[k \div 2].value]
<1>1. m \in Nat /\ n \in Nat
  BY DEF OptsOK
<1> HIDE DEF m, n
<1>2. Len(both) = m + n
  BY <1>1
<1>3. Query!Pushed(o) = [k \in 1..2 * Len(both) |->
                           IF k % 2 = 1 THEN both[(k + 1) \div 2].name ELSE both[k \div 2].value]
  BY Zenon DEF Query!Pushed, m, n
<1>4. Query!Pushed(o) = all
  BY <1>2, <1>3
<1>5. Len(all) = 2 * (m + n)
  <2>1. 2 * (m + n) \in Nat
    BY <1>1
  <2> QED BY <2>1
<1>6. ASSUME NEW j \in 1..m + n
      PROVE  all[2 * j - 1] = both[j].name /\ all[2 * j] = both[j].value
  <2>1. /\ 2 * j - 1 \in 1..2 * (m + n) /\ 2 * j \in 1..2 * (m + n)
        /\ (2 * j - 1) % 2 = 1 /\ (2 * j) % 2 = 0
        /\ ((2 * j - 1) + 1) \div 2 = j /\ (2 * j) \div 2 = j
    BY <1>1
  <2> HIDE DEF both
  <2>2. all[2 * j - 1] = both[j].name
    BY <2>1
  <2>3. all[2 * j] = both[j].value
    BY <2>1
  <2> QED BY <2>2, <2>3
<1> HIDE DEF all
<1>7. ASSUME NEW i \in 1..m
      PROVE  all[2 * i - 1] = o.settings[i].name /\ all[2 * i] = o.settings[i].value
  <2>1. i \in 1..m + n /\ both[i] = o.settings[i]
    BY <1>1
  <2> HIDE DEF both
  <2> QED BY <1>6, <2>1
<1>8. ASSUME NEW i \in 1..n
      PROVE  all[2 * (m + i) - 1] = o.params[i].name /\ all[2 * (m + i)] = o.params[i].value
  <2>1. m + i \in 1..m + n /\ both[m + i] = o.params[i]
    <3>1. m + i \in 1..m + n /\ ~(m + i <= m) /\ (m + i) - m = i
      BY <1>1
    <3> QED BY <3>1
  <2> HIDE DEF both
  <2> QED BY <1>6, <2>1
<1> QED BY <1>1, <1>4, <1>5, <1>7, <1>8 DEF m, n

\* All but the address p is as it was.
Survives(h, g, p) == \A a \in DOMAIN h \ {p} : a \in DOMAIN g /\ g[a] = h[a]

\* Strings and arrays survive what is stored, moved and freed beside them.
LEMMA SurviveFact ==
    ASSUME NEW h, NEW g, NEW p, Survives(h, g, p)
    PROVE  /\ Copied(h) /\ (\A k \in 1..Len(owned) : owned[k] # p) => Copied(g)
           /\ \A q, array : Behind(h, q, array) /\ q # p => Behind(g, q, array)
BY DEF Survives, Copied, Behind

\* What storing does to strings and arrays that are there.
LEMMA StoreSurvives ==
    ASSUME Heap(heap), NEW d
    PROVE  /\ Heap(Store(heap, d)) /\ Fresh(heap) \in Nat \ {0} /\ Fresh(heap) \notin DOMAIN heap
           /\ Fresh(heap) \in DOMAIN Store(heap, d) /\ Store(heap, d)[Fresh(heap)] = d
           /\ Copied(heap) => Copied(Store(heap, d))
           /\ \A q, array : Behind(heap, q, array) => Behind(Store(heap, d), q, array)
<1>1. /\ Heap(Store(heap, d)) /\ Fresh(heap) \in Nat \ {0} /\ Fresh(heap) \notin DOMAIN heap
      /\ DOMAIN Store(heap, d) = DOMAIN heap \cup {Fresh(heap)}
      /\ Store(heap, d)[Fresh(heap)] = d
      /\ \A a \in DOMAIN heap : Store(heap, d)[a] = heap[a]
  BY FreshFact, StoreFact
<1>2. Copied(heap) => Copied(Store(heap, d))
  BY <1>1 DEF Copied
<1>3. \A q, array : Behind(heap, q, array) => Behind(Store(heap, d), q, array)
  BY <1>1 DEF Behind
<1> QED BY <1>1, <1>2, <1>3

\* A query without options.
LEMMA NoOptsFact == OptsOK(Query!NoOpts)
BY DEF OptsOK, Query!NoOpts, Query!QueryOpts

\* The application asks.
LEMMA AskQuery == ASSUME QueryInv, Query!send_query_with PROVE QueryInv'
<1>1. MaxSettings \in Nat /\ MaxParams \in Nat
  BY BoundaryAssumption DEF BoundaryAssumption
<1>2. PICK m \in 0..MaxSettings, n \in 0..MaxParams, id \in Query!Given \cup {Query!Absent} :
         \E s \in [1..m -> Query!Settings], p \in [1..n -> Query!Params] :
            opts' = Query!QueryOpts(id, s, p)
  BY DEF Query!send_query_with
<1>3. PICK s \in [1..m -> Query!Settings], p \in [1..n -> Query!Params] :
         opts' = Query!QueryOpts(id, s, p)
  BY <1>2
<1>4. s \in Seq(Query!Settings) /\ p \in Seq(Query!Params)
  BY <1>1
<1>5. OptsOK(opts')
  BY <1>3, <1>4 DEF OptsOK, Query!QueryOpts
<1>6. owned' = <<>> /\ stage' = "owning" /\ heap' = heap
  BY DEF QueryInv, Query!send_query_with
<1>7. Len(Query!Pushed(opts)') \in Nat
  <2>1. Len(Query!Pushed(opts')) \in Nat
    BY <1>5, PushedFact
  <2> QED BY <2>1 DEF Query!Pushed
<1>8. Heap(heap') /\ OptsOK(opts)' /\ Copied(heap)' /\ Len(owned') = 0 /\ owned' \in Seq(Nat)
  BY <1>5, <1>6 DEF QueryInv, Copied, OptsOK, Query!Settings, Query!Params, Query!Given
<1> QED BY <1>6, <1>7, <1>8 DEF QueryInv, Heap

\* One more string is copied.
LEMMA PushQuery == ASSUME QueryInv, Query!Push PROVE QueryInv'
<1> DEFINE n == Len(owned)
           d == Query!Pushed(opts)[n + 1]
           a == Fresh(heap)
<1>1. /\ stage = "owning" /\ Heap(heap) /\ OptsOK(opts) /\ owned \in Seq(Nat) /\ n \in Nat
      /\ Copied(heap) /\ n < Len(Query!Pushed(opts))
      /\ heap' = Store(heap, d) /\ owned' = Append(owned, a) /\ UNCHANGED <<opts, stage>>
  BY SameHeap DEF QueryInv, Query!Push, Query!NextString
<1>2. Len(Query!Pushed(opts)) \in Nat
  BY <1>1, PushedFact
<1>3. /\ Heap(heap') /\ a \in Nat /\ a \in DOMAIN heap' /\ heap'[a] = d /\ Copied(heap')
  BY <1>1, StoreSurvives
<1> HIDE DEF a
<1>4. /\ owned' \in Seq(Nat) /\ Len(owned') = n + 1 /\ owned'[n + 1] = a
      /\ \A k \in 1..n : owned'[k] = owned[k]
  BY <1>1, <1>3
<1>5. Query!Pushed(opts)' = Query!Pushed(opts) /\ OptsOK(opts)'
  BY <1>1 DEF Query!Pushed, OptsOK, Query!Settings, Query!Params, Query!Given
<1>6. Copied(heap)'
  <2>1. ASSUME NEW k \in 1..Len(owned')
        PROVE  owned'[k] \in DOMAIN heap' /\ heap'[owned'[k]] = Query!Pushed(opts)[k]
    <3>1. k = n + 1 \/ k \in 1..n
      BY <1>1, <1>4
    <3> QED BY <1>3, <1>4, <3>1 DEF Copied
  <2> QED BY <1>5, <2>1 DEF Copied
<1>7. Len(owned') <= Len(Query!Pushed(opts)') /\ stage' = "owning"
  BY <1>1, <1>2, <1>4, <1>5
<1> QED BY <1>3, <1>4, <1>5, <1>6, <1>7 DEF QueryInv, Heap

\* What depends on the options and their copies alone.
LEMMA SameQuery ==
    ASSUME UNCHANGED <<opts, owned>>
    PROVE  /\ Query!Pushed(opts)' = Query!Pushed(opts) /\ (OptsOK(opts)' <=> OptsOK(opts))
           /\ SettingArray' = SettingArray /\ ParamArray' = ParamArray
           /\ Copied(heap)' <=> Copied(heap')
           /\ (UNCHANGED <<settings, params>> => RawRecord' = RawRecord)
<1>1. Query!Pushed(opts)' = Query!Pushed(opts) /\ (OptsOK(opts)' <=> OptsOK(opts))
  BY DEF Query!Pushed, OptsOK, Query!Settings, Query!Params, Query!Given
<1>2. SettingArray' = SettingArray /\ ParamArray' = ParamArray
  BY DEF SettingArray, ParamArray, Query!SettingAt, Query!ParamAt, Query!Drawn
<1>3. Copied(heap)' <=> Copied(heap')
  BY <1>1 DEF Copied
<1>4. UNCHANGED <<settings, params>> => RawRecord' = RawRecord
  BY DEF RawRecord
<1> QED BY <1>1, <1>2, <1>3, <1>4

\* The vector of what was collected is behind its pointer, and the rest as it was.
LEMMA CollectFact ==
    ASSUME QueryInv, NEW array
    PROVE  LET c == Query!Collect(array)
           IN  /\ Heap(c.heap) /\ Behind(c.heap, c.at, array)
               /\ Copied(heap) => Copied(c.heap)
               /\ \A q, other : Behind(heap, q, other) => Behind(c.heap, q, other)
<1> DEFINE c == Query!Collect(array)
<1>1. Heap(heap)
  BY DEF QueryInv
<1>2. CASE array = <<>>
  <2>1. c.at = 0 /\ c.heap = heap
    BY <1>2 DEF Query!Collect, Query!None
  <2> QED BY <1>1, <1>2, <2>1 DEF Behind
<1>3. CASE array # <<>>
  <2>1. c.at = Fresh(heap) /\ c.heap = Store(heap, array)
    BY <1>3, SameHeap DEF Query!Collect
  <2> HIDE DEF c
  <2>2. /\ Heap(c.heap) /\ Copied(heap) => Copied(c.heap)
        /\ \A q, other : Behind(heap, q, other) => Behind(c.heap, q, other)
        /\ c.at \in DOMAIN c.heap /\ c.heap[c.at] = array
    BY <1>1, <2>1, StoreSurvives
  <2> QED BY <1>3, <2>1, <2>2, StoreSurvives, <1>1 DEF Behind, c
<1> QED BY <1>2, <1>3

\* The settings are collected.
LEMMA CollectSettingsQuery == ASSUME QueryInv, Query!CollectSettings PROVE QueryInv'
<1> DEFINE c == Query!Collect(SettingArray)
<1>1. /\ stage = "owning" /\ Copied(heap) /\ Len(owned) = Len(Query!Pushed(opts))
      /\ settings' = c.at /\ heap' = c.heap /\ stage' = "params" /\ UNCHANGED <<opts, owned>>
  BY DEF QueryInv, Query!CollectSettings, SettingArray
<1>2. Heap(heap') /\ Behind(heap', settings', SettingArray) /\ Copied(heap')
  BY <1>1, CollectFact
<1> QED BY <1>1, <1>2, SameQuery DEF QueryInv

\* The parameters are collected.
LEMMA CollectParamsQuery == ASSUME QueryInv, Query!CollectParams PROVE QueryInv'
<1> DEFINE c == Query!Collect(ParamArray)
<1>1. /\ stage = "params" /\ Copied(heap) /\ Len(owned) = Len(Query!Pushed(opts))
      /\ Behind(heap, settings, SettingArray)
      /\ params' = c.at /\ heap' = c.heap /\ stage' = "built" /\ UNCHANGED <<opts, owned, settings>>
  BY DEF QueryInv, Query!CollectParams, ParamArray
<1>2. /\ Heap(heap') /\ Behind(heap', params', ParamArray) /\ Copied(heap')
      /\ Behind(heap', settings', SettingArray)
  BY <1>1, CollectFact
<1> QED BY <1>1, <1>2, SameQuery DEF QueryInv

\* A pointer to an array is null or in use.
LEMMA BehindUsed ==
    ASSUME NEW h, NEW p, NEW array, Behind(h, p, array), NEW a \in Nat \ {0}, a \notin DOMAIN h
    PROVE  p # a
BY DEF Behind

\* The raw structure is filled in.
LEMMA SealQuery == ASSUME QueryInv, Query!Seal PROVE QueryInv'
<1>1. /\ stage = "built" /\ Copied(heap) /\ Len(owned) = Len(Query!Pushed(opts)) /\ Heap(heap)
      /\ Behind(heap, settings, SettingArray) /\ Behind(heap, params, ParamArray)
      /\ heap' = Store(heap, RawRecord) /\ raw' = Fresh(heap) /\ stage' = "sealed"
      /\ UNCHANGED <<opts, owned, settings, params>>
  BY SameHeap DEF QueryInv, Query!Seal, RawRecord
<1>2. /\ Heap(heap') /\ Copied(heap') /\ raw' \in Nat \ {0} /\ raw' \notin DOMAIN heap
      /\ raw' \in DOMAIN heap' /\ heap'[raw'] = RawRecord
      /\ Behind(heap', settings, SettingArray) /\ Behind(heap', params, ParamArray)
  BY <1>1, StoreSurvives
<1>3. raw' \notin {settings, params}
  BY <1>1, <1>2, BehindUsed
<1>4. \A k \in 1..Len(owned) : owned[k] # raw'
  BY <1>1, <1>2 DEF Copied
<1> QED BY <1>1, <1>2, <1>3, <1>4, SameQuery DEF QueryInv

\* The raw structure is moved; strings and arrays stay.
LEMMA ReturnQuery == ASSUME QueryInv, Query!Return PROVE QueryInv'
<1> DEFINE g == Store(heap, heap[raw])
           n == Fresh(heap)
<1>1. /\ stage = "sealed" /\ Copied(heap) /\ Len(owned) = Len(Query!Pushed(opts)) /\ Heap(heap)
      /\ Behind(heap, settings, SettingArray) /\ Behind(heap, params, ParamArray)
      /\ raw \in DOMAIN heap /\ heap[raw] = RawRecord /\ raw \notin {settings, params}
      /\ \A k \in 1..Len(owned) : owned[k] # raw
      /\ heap' = Free(g, {raw}) /\ raw' = n /\ stage' = "calling"
      /\ UNCHANGED <<opts, owned, settings, params>>
  BY SameHeap DEF QueryInv, Query!Return
<1>2. /\ Heap(g) /\ n \in Nat \ {0} /\ n \notin DOMAIN heap /\ DOMAIN g = DOMAIN heap \cup {n}
      /\ g[n] = RawRecord /\ \A a \in DOMAIN heap : g[a] = heap[a]
  BY <1>1, FreshFact, StoreFact
<1> HIDE DEF g, n
<1>3. /\ Heap(heap') /\ DOMAIN heap' = DOMAIN g \ {raw}
      /\ \A a \in DOMAIN g \ {raw} : heap'[a] = g[a]
  <2>1. heap' = Free(g, {raw}) /\ Heap(g)
    BY <1>1, <1>2
  <2>2. /\ Heap(Free(g, {raw})) /\ DOMAIN Free(g, {raw}) = DOMAIN g \ {raw}
        /\ \A a \in DOMAIN g \ {raw} : Free(g, {raw})[a] = g[a]
    BY <2>1, FreeFact
  <2> QED BY <2>1, <2>2
<1>4. Survives(heap, heap', raw)
  BY <1>2, <1>3 DEF Survives
<1>5. Copied(heap') /\ Behind(heap', settings, SettingArray) /\ Behind(heap', params, ParamArray)
  BY <1>1, <1>4, SurviveFact
<1>6. raw' \in DOMAIN heap' /\ heap'[raw'] = RawRecord
  BY <1>1, <1>2, <1>3
<1>7. raw' \notin {settings, params}
  BY <1>1, <1>2, BehindUsed
<1>8. \A k \in 1..Len(owned) : owned[k] # raw'
  BY <1>1, <1>2 DEF Copied
<1> QED BY <1>1, <1>3, <1>5, <1>6, <1>7, <1>8, SameQuery DEF QueryInv

\* C follows the pointers, and finds what the application asked.
LEMMA ReadQuery == ASSUME QueryInv, Query!chc_client_send_query_ex PROVE QueryInv'
<1> DEFINE m == Len(opts.settings)
           n == Len(opts.params)
<1>1. /\ stage = "calling" /\ Copied(heap) /\ Len(owned) = Len(Query!Pushed(opts)) /\ Heap(heap)
      /\ Behind(heap, settings, SettingArray) /\ Behind(heap, params, ParamArray)
      /\ heap[raw] = RawRecord /\ OptsOK(opts)
      /\ stage' = "returned" /\ UNCHANGED <<opts, heap, owned>>
      /\ result' = "Ok" =>
            seen' = [query_id |-> heap[raw].query_id,
                     settings |-> [i \in 1..heap[raw].n_settings |-> Query!ReadSetting(i)],
                     params |-> [i \in 1..heap[raw].n_params |-> Query!ReadParam(i)]]
  BY DEF QueryInv, Query!chc_client_send_query_ex
<1>2. /\ heap[raw].query_id = opts.query_id
      /\ heap[raw].settings = settings /\ heap[raw].n_settings = m
      /\ heap[raw].params = params /\ heap[raw].n_params = n
  BY <1>1 DEF RawRecord
<1>3. /\ m \in Nat /\ n \in Nat /\ Len(owned) = 2 * (m + n)
      /\ DOMAIN opts.settings = 1..m /\ DOMAIN opts.params = 1..n
  <2>1. m \in Nat /\ n \in Nat /\ Len(owned) = 2 * (m + n)
    BY <1>1, PushedFact
  <2>2. DOMAIN opts.settings = 1..m /\ DOMAIN opts.params = 1..n
    BY <1>1 DEF OptsOK
  <2> QED BY <2>1, <2>2
<1>4. \A k \in 1..Len(owned) : Load(heap, owned[k]) = Query!Pushed(opts)[k]
  BY <1>1 DEF Copied, Load
<1>5. ASSUME NEW i \in 1..m PROVE Query!ReadSetting(i) = opts.settings[i]
  <2>1. opts.settings[i] \in Query!Settings
    BY <1>1, <1>3, <1>5 DEF OptsOK
  <2>2. opts.settings[i] = [name |-> opts.settings[i].name, value |-> opts.settings[i].value,
           important |-> opts.settings[i].important, custom |-> opts.settings[i].custom]
    BY <2>1 DEF Query!Settings
  <2>3. i \in DOMAIN SettingArray /\ SettingArray[i] = Query!SettingAt(i) /\ SettingArray # <<>>
    BY <1>3 DEF SettingArray
  <2>4. Query!Load(heap, settings) = SettingArray
    BY <1>1, <2>3, SameHeap DEF Behind, Load
  <2>5. Query!Element(heap[raw].settings, i) = Query!SettingAt(i)
    BY <1>2, <2>3, <2>4 DEF Query!Element
  <2>6. /\ 2 * i - 1 \in 1..Len(owned) /\ 2 * i \in 1..Len(owned)
        /\ Query!Pushed(opts)[2 * i - 1] = opts.settings[i].name
        /\ Query!Pushed(opts)[2 * i] = opts.settings[i].value
    <3>1. 2 * i - 1 \in 1..Len(owned) /\ 2 * i \in 1..Len(owned)
      <4> HIDE DEF m, n
      <4> QED BY <1>3
    <3> QED BY <1>1, <3>1, PushedFact
  <2>7. /\ Query!Load(heap, owned[2 * i - 1]) = opts.settings[i].name
        /\ Query!Load(heap, owned[2 * i]) = opts.settings[i].value
    BY <1>4, <2>6, SameHeap
  <2>8. Query!SettingAt(i) = [name |-> owned[2 * i - 1], value |-> owned[2 * i],
           important |-> opts.settings[i].important, custom |-> opts.settings[i].custom]
    BY DEF Query!SettingAt, Query!Drawn
  <2>9. Query!ReadSetting(i) = [name |-> Query!Load(heap, owned[2 * i - 1]),
           value |-> Query!Load(heap, owned[2 * i]),
           important |-> opts.settings[i].important, custom |-> opts.settings[i].custom]
    <3> DEFINE e == Query!Element(heap[raw].settings, i)
    <3>1. Query!ReadSetting(i) = [e EXCEPT !.name = Query!Load(heap, e.name),
                                           !.value = Query!Load(heap, e.value)]
      BY Zenon DEF Query!ReadSetting
    <3>2. e = [name |-> owned[2 * i - 1], value |-> owned[2 * i],
               important |-> opts.settings[i].important, custom |-> opts.settings[i].custom]
      BY <2>5, <2>8
    <3> HIDE DEF e
    <3> QED BY ONLY <3>1, <3>2
  <2> QED BY <2>2, <2>7, <2>9
<1>6. ASSUME NEW i \in 1..n PROVE Query!ReadParam(i) = opts.params[i]
  <2>1. opts.params[i] \in Query!Params
    BY <1>1, <1>3, <1>6 DEF OptsOK
  <2>2. opts.params[i] = [name |-> opts.params[i].name, value |-> opts.params[i].value]
    BY <2>1 DEF Query!Params
  <2>3. i \in DOMAIN ParamArray /\ ParamArray[i] = Query!ParamAt(i) /\ ParamArray # <<>>
    BY <1>3 DEF ParamArray
  <2>4. Query!Load(heap, params) = ParamArray
    BY <1>1, <2>3, SameHeap DEF Behind, Load
  <2>5. Query!Element(heap[raw].params, i) = Query!ParamAt(i)
    BY <1>2, <2>3, <2>4 DEF Query!Element
  <2>6. /\ 2 * (m + i) - 1 \in 1..Len(owned) /\ 2 * (m + i) \in 1..Len(owned)
        /\ Query!Pushed(opts)[2 * (m + i) - 1] = opts.params[i].name
        /\ Query!Pushed(opts)[2 * (m + i)] = opts.params[i].value
    <3>1. 2 * (m + i) - 1 \in 1..Len(owned) /\ 2 * (m + i) \in 1..Len(owned)
      <4> HIDE DEF m, n
      <4> QED BY <1>3
    <3> QED BY <1>1, <3>1, PushedFact
  <2>7. /\ Query!Load(heap, owned[2 * (m + i) - 1]) = opts.params[i].name
        /\ Query!Load(heap, owned[2 * (m + i)]) = opts.params[i].value
    BY <1>4, <2>6, SameHeap
  <2>8. Query!ParamAt(i) = [name |-> owned[2 * (m + i) - 1], value |-> owned[2 * (m + i)]]
    BY DEF Query!ParamAt, Query!Drawn
  <2>9. Query!ReadParam(i) = [name |-> Query!Load(heap, owned[2 * (m + i) - 1]),
                              value |-> Query!Load(heap, owned[2 * (m + i)])]
    <3> DEFINE e == Query!Element(heap[raw].params, i)
    <3>1. Query!ReadParam(i) = [e EXCEPT !.name = Query!Load(heap, e.name),
                                         !.value = Query!Load(heap, e.value)]
      BY Zenon DEF Query!ReadParam
    <3>2. e = [name |-> owned[2 * (m + i) - 1], value |-> owned[2 * (m + i)]]
      BY <2>5, <2>8
    <3> HIDE DEF e
    <3> QED BY ONLY <3>1, <3>2
  <2> QED BY <2>2, <2>7, <2>9
<1>7. [i \in 1..m |-> Query!ReadSetting(i)] = opts.settings
  <2>1. opts.settings = [i \in 1..m |-> opts.settings[i]]
    BY <1>1, <1>3 DEF OptsOK
  <2> QED BY <1>5, <2>1, Zenon
<1>8. [i \in 1..n |-> Query!ReadParam(i)] = opts.params
  <2>1. opts.params = [i \in 1..n |-> opts.params[i]]
    BY <1>1, <1>3 DEF OptsOK
  <2> QED BY <1>6, <2>1, Zenon
<1>9. ASSUME result' = "Ok" PROVE seen' = opts
  <2>1. seen' = [query_id |-> opts.query_id, settings |-> opts.settings, params |-> opts.params]
    BY <1>1, <1>2, <1>7, <1>8, <1>9
  <2> QED BY <1>1, <2>1 DEF OptsOK
<1> QED BY <1>1, <1>9, SameQuery DEF QueryInv

\* A call that is over leaves nothing behind but the heap.
LEMMA EndQuery ==
    ASSUME QueryInv, NEW A, heap' = Free(heap, A), owned' = <<>>, stage' = "idle", opts' = Query!NoOpts
    PROVE  QueryInv'
<1>1. Heap(heap') /\ Heap(heap)'
  BY FreeFact DEF QueryInv
<1>2. OptsOK(opts')
  BY NoOptsFact
<1>3. OptsOK(opts)'
  BY <1>2 DEF OptsOK, Query!Settings, Query!Params, Query!Given
<1>4. owned' \in Seq(Nat)
  OBVIOUS
<1> QED BY <1>1, <1>3, <1>4 DEF QueryInv

\* Every step of send_query_with keeps the invariant.
LEMMA NextQuery == ASSUME QueryInv, Query!Next PROVE QueryInv'
<1>1. CASE Query!PushFails
  BY <1>1, EndQuery, SameHeap DEF Query!PushFails
<1>2. CASE Query!Drop
  BY <1>2, EndQuery, SameHeap DEF Query!Drop
<1> QED BY <1>1, <1>2, AskQuery, PushQuery, CollectSettingsQuery, CollectParamsQuery, SealQuery,
           ReturnQuery, ReadQuery DEF Query!Next

\* Whatever is allocated, moved and freed in send_query_with, when it returns Ok C has
\* read every option of the query as it was asked.
THEOREM OptionsAsAsked == Spec => []SeenAsAsked
<1> DEFINE I == part = "query" => QueryInv
<1>1. Init => I
  <2>1. Heap(<<>>)
    BY FS_EmptySet DEF Heap
  <2>2. OptsOK(Query!NoOpts) /\ <<>> \in Seq(Nat)
    BY NoOptsFact
  <2> QED BY <2>1, <2>2 DEF Init, Query!Init, QueryInv
<1>2. I /\ [Next]_vars => I'
  <2> SUFFICES ASSUME I, [Next]_vars PROVE I'
    OBVIOUS
  <2>1. CASE Next
    BY <2>1, NextQuery DEF Next
  <2>2. CASE UNCHANGED vars
    <3>1. UNCHANGED <<part, stage, result, opts, heap, owned, raw, settings, params, seen>>
      BY <2>2 DEF vars, callVars, copyVars, queryVars
    <3> QED BY <3>1, SameQuery DEF QueryInv
  <2> QED BY <2>1, <2>2
<1>3. I => SeenAsAsked
  BY DEF SeenAsAsked, Query!SeenAsAsked, QueryInv
<1> QED BY <1>1, <1>2, <1>3, PTL DEF Spec
=============================================================================
