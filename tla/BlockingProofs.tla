--------------------------- MODULE BlockingProofs ---------------------------
(***************************************************************************)
(* Proofs about BlockingClient, for every size of a block and of the       *)
(* connection's two directions and every number of queries: what the       *)
(* server reads, it can make sense of, an event belongs to the query the   *)
(* application is waiting for, and both see the channels of Connection.    *)
(*                                                                         *)
(* The argument looks at each direction as one sequence of units, whoever  *)
(* holds them: a callback that moves part of a message changes neither.    *)
(***************************************************************************)
EXTENDS BlockingClient, SeqLemmas

-----------------------------------------------------------------------------
(* The two directions *)

Up == got \o up \o sealed \o left
Dn == inb \o down \o sout

ClientUnit == ClientKind \X Nat \X Nat
ServerUnit == ServerKind \X Nat \X Nat

\* Unit i of a sequence: its kind, its tag and its place in the message.
Kind(s, i) == s[i][1]
Tag(s, i) == s[i][2]
Place(s, i) == s[i][3]

\* A sequence of whole messages: every unit has the rest of its message around it.
Aligned(s) ==
    \A i \in 1..Len(s) :
        /\ Place(s, i) \in 1..Size(Kind(s, i)) /\ Place(s, i) <= i
        /\ i - Place(s, i) + Size(Kind(s, i)) <= Len(s)
        /\ \A j \in 1..Size(Kind(s, i)) :
              /\ Kind(s, i - Place(s, i) + j) = Kind(s, i)
              /\ Tag(s, i - Place(s, i) + j) = Tag(s, i)
              /\ Place(s, i - Place(s, i) + j) = j

\* What may be on its way behind a message that the server has not taken yet.
Asks == {"Select", "Insert", "Ping"}
Follows(k, next) ==
    \/ k \in {"Addendum", "DataEnd", "Cancel"} /\ next \in Asks
    \/ k = "Select" /\ next = "Cancel"
    \/ k = "Data" /\ next \in {"Data", "DataEnd"}

Ordered(s) ==
    \A i \in 1..(Len(s) - 1) :
        Place(s, i) = Size(Kind(s, i)) => Follows(Kind(s, i), Kind(s, i + 1))

\* The server, in state v, has a meaning for the first message.
StartsWell(s, v) == s # <<>> => Expects(v, Kind(s, 1))

\* Packets that end a query; at most the last one does.
Terminal == {"EndOfStream", "Exception", "Pong"}
NoEnd(d) == \A i \in 1..Len(d) : Kind(d, i) \notin Terminal
HasEnd(d) == d # <<>> /\ Kind(d, Len(d)) \in Terminal

MayArrive(st, k) ==
    \/ st = "hello" /\ k \in {"ServerHello", "Exception"}
    \/ st \in {"reading", "stopping"}
       /\ k \in {"Data", "Progress", "Unknown", "EndOfStream", "Exception"}
    \/ st = "header" /\ k \in {"Header", "Exception"}
    \/ st \in {"inserting", "finishing"} /\ k \in {"Progress", "EndOfStream", "Exception"}
    \/ st = "pinged" /\ k = "Pong"

\* What is on its way to the client belongs to the query it is at, in stage st.
DownOK(st, d, t) ==
    /\ Aligned(d)
    /\ \A i \in 1..Len(d) : Tag(d, i) = t /\ MayArrive(st, Kind(d, i))
    /\ \A i \in 1..(Len(d) - 1) : Kind(d, i) \notin Terminal
    /\ st \in {"hello", "header"} => Len(d) <= 1

-----------------------------------------------------------------------------
(* Where the application, the server and the two directions stand to each    *)
(* other.  s is on its way up, d down; v and g are the server's state and    *)
(* the tag it serves; t is the application's.                                *)

\* Messages the server answers with nothing, or not any more.
Late == {"Addendum", "Cancel", "Data", "DataEnd"}
Behind == {"addendum", "idle", "skip"}
LateUpTo(s, n) == \A i \in 1..n : Kind(s, i) \in Late

\* Unit n is of message <<k, t>>.
Is(s, n, k, t) == Kind(s, n) = k /\ Tag(s, n) = t

\* The question <<k, t>> is unit n, and unanswered.
Asked(s, d, v, k, t, n) ==
    n >= 1 /\ Is(s, n, k, t) /\ LateUpTo(s, n - 1) /\ d = <<>> /\ v \in Behind

Answered(s, d, v) == s = <<>> /\ v = "idle" /\ HasEnd(d)

HelloOK(s, d, v) ==
    \/ s = <<>> /\ v = "greet" /\ d = <<>>
    \/ Len(s) = 1 /\ Is(s, 1, "Hello", 0) /\ v = "greet" /\ d = <<>>
    \/ s = <<>> /\ v = "addendum" /\ Len(d) = 1 /\ Kind(d, 1) = "ServerHello"

AddendumOK(s, d, v) ==
    /\ d = <<>>
    /\ \/ Len(s) = 1 /\ Is(s, 1, "Addendum", 0) /\ v = "addendum"
       \/ s = <<>> /\ v = "idle"

FreeOK(s, d, v) ==
    /\ d = <<>> /\ v \in Behind /\ LateUpTo(s, Len(s))
    /\ s = <<>> => v = "idle"
    /\ s # <<>> => Kind(s, Len(s)) \in {"Addendum", "Cancel", "DataEnd"}

ReadingOK(s, d, v, t, g) ==
    \/ Asked(s, d, v, "Select", t, Len(s))
    \/ s = <<>> /\ v = "select" /\ g = t /\ NoEnd(d)
    \/ Answered(s, d, v)

StoppingOK(s, d, v, t, g) ==
    \/ Answered(s, d, v)
    \/ /\ s # <<>> /\ Is(s, Len(s), "Cancel", t)
       /\ \/ Asked(s, d, v, "Select", t, Len(s) - 1)
          \/ Len(s) = 1 /\ v = "select" /\ g = t /\ NoEnd(d)
          \/ Len(s) = 1 /\ v = "idle" /\ HasEnd(d)

HeaderOK(s, d, v, t) ==
    \/ Asked(s, d, v, "Insert", t, Len(s))
    \/ s = <<>> /\ v = "insert" /\ NoEnd(d)
    \/ Answered(s, d, v)

BlocksUpTo(s, t, n) == \A i \in 1..n : Kind(s, i) = "Data" /\ Tag(s, i) = t
Inserting(d, v) == (v = "insert" /\ NoEnd(d)) \/ (v = "skip" /\ HasEnd(d))

InsertingOK(s, d, v, t) == BlocksUpTo(s, t, Len(s)) /\ Inserting(d, v)

FinishingOK(s, d, v, t) ==
    \/ /\ s # <<>> /\ Is(s, Len(s), "DataEnd", t) /\ BlocksUpTo(s, t, Len(s) - 1)
       /\ Inserting(d, v)
    \/ Answered(s, d, v)

PingedOK(s, d, v, t) == Asked(s, d, v, "Ping", t, Len(s)) \/ Answered(s, d, v)

PhaseOK(st, s, d, v, t, g) ==
    /\ st = "hello" => HelloOK(s, d, v)
    /\ st = "addendum" => AddendumOK(s, d, v)
    /\ st = "free" => FreeOK(s, d, v)
    /\ st = "reading" => ReadingOK(s, d, v, t, g)
    /\ st = "stopping" => StoppingOK(s, d, v, t, g)
    /\ st = "header" => HeaderOK(s, d, v, t)
    /\ st = "inserting" => InsertingOK(s, d, v, t)
    /\ st = "finishing" => FinishingOK(s, d, v, t)
    /\ st = "pinged" => PingedOK(s, d, v, t)

\* A server that is there stands where the application expects it to.
UpOK(st, s, d, v, t, g) ==
    v # "gone" => Ordered(s) /\ StartsWell(s, v) /\ PhaseOK(st, s, d, v, t, g)

-----------------------------------------------------------------------------
(* The inductive invariant *)

Stages == {"hello", "addendum", "free", "reading", "stopping", "header", "inserting",
           "finishing", "pinged"}

TypeOK ==
    /\ {left, sealed, up, got} \subseteq Seq(ClientUnit)
    /\ {inb, down, sout} \subseteq Seq(ServerUnit)
    /\ stage \in Stages /\ tag \in Nat /\ serving \in Nat
    /\ tls \in BOOLEAN /\ (~tls => sealed = <<>>)

CallOK ==
    /\ pc \notin {"write", "failed", "dropped"} => left = <<>>
    /\ pc = "read" => stage \in {"hello", "reading", "stopping", "header", "finishing", "pinged"}
    /\ pc = "start" => stage = "hello" /\ srv = "greet" /\ Up = <<>>
    /\ stage \in {"hello", "addendum"} => tag = 0

ServerOK ==
    /\ Whole => sout = <<>>
    /\ got # <<>> => Len(got) <= Size(got[1][1])

\* What is on its way, in both directions.
Directions ==
    /\ Aligned(Up)
    /\ DownOK(stage, Dn, tag)
    /\ UpOK(stage, Up, Dn, srv, tag, serving)

Inv == TypeOK /\ CallOK /\ ServerOK /\ Directions

-----------------------------------------------------------------------------
(* Sequences of units *)

\* Every message has a unit.
LEMMA SizeFacts ==
    ASSUME NEW k
    PROVE  Size(k) \in Nat /\ Size(k) >= 1 /\ (k # "Data" => Size(k) = 1)
BY BlockingAssumption DEF Size

\* An encoded message.
LEMMA EncodeFacts ==
    ASSUME NEW K, NEW k \in K, NEW t \in Nat
    PROVE  /\ Encode(k, t) \in Seq(K \X Nat \X Nat) /\ Len(Encode(k, t)) = Size(k)
           /\ Encode(k, t) # <<>>
           /\ \A i \in 1..Size(k) : Encode(k, t)[i] = <<k, t, i>>
<1>1. Size(k) \in Nat /\ Size(k) >= 1
  BY SizeFacts
<1>2. Encode(k, t) \in [1..Size(k) -> K \X Nat \X Nat]
  BY <1>1 DEF Encode
<1>3. Encode(k, t) \in Seq(K \X Nat \X Nat) /\ Len(Encode(k, t)) = Size(k)
  BY <1>1, <1>2
<1>4. \A i \in 1..Size(k) : Encode(k, t)[i] = <<k, t, i>>
  BY DEF Encode
<1> QED BY <1>1, <1>3, <1>4

\* The units of an encoded message, one by one.
LEMMA EncodeAt ==
    ASSUME NEW k, NEW t, NEW i \in 1..Size(k)
    PROVE  /\ Kind(Encode(k, t), i) = k /\ Tag(Encode(k, t), i) = t
           /\ Place(Encode(k, t), i) = i
BY DEF Encode, Kind, Tag, Place

\* An encoded message is whole.
LEMMA AlignedEncode ==
    ASSUME NEW K, NEW k \in K, NEW t \in Nat
    PROVE  Aligned(Encode(k, t))
<1> DEFINE e == Encode(k, t)
<1>1. /\ Len(e) = Size(k) /\ Size(k) \in Nat
      /\ \A i \in 1..Size(k) : Kind(e, i) = k /\ Tag(e, i) = t /\ Place(e, i) = i
  BY EncodeFacts, EncodeAt, SizeFacts
<1> HIDE DEF e
<1>2. \A i, j \in 1..Size(k) : i - i + j = j
  BY <1>1
<1>3. Aligned(e)
  BY <1>1, <1>2 DEF Aligned
<1> QED BY <1>3 DEF e

\* A concatenation, by its elements.
LEMMA ConcatAt ==
    ASSUME NEW S, NEW a \in Seq(S), NEW b \in Seq(S)
    PROVE  /\ a \o b \in Seq(S) /\ Len(a \o b) = Len(a) + Len(b)
           /\ Len(a) \in Nat /\ Len(b) \in Nat
           /\ \A i \in 1..Len(a) : (a \o b)[i] = a[i]
           /\ \A i \in 1..Len(b) : (a \o b)[Len(a) + i] = b[i]
<1>1. /\ a \o b \in Seq(S) /\ Len(a \o b) = Len(a) + Len(b)
      /\ Len(a) \in Nat /\ Len(b) \in Nat
  BY ConcatProperties, LenProperties
<1>2. \A i \in 1..(Len(a) + Len(b)) :
         (a \o b)[i] = IF i <= Len(a) THEN a[i] ELSE b[i - Len(a)]
  BY ConcatProperties
<1>3. ASSUME NEW i \in 1..Len(b) PROVE (a \o b)[Len(a) + i] = b[i]
  <2>1. Len(a) + i \in 1..(Len(a) + Len(b)) /\ ~(Len(a) + i <= Len(a)) /\ Len(a) + i - Len(a) = i
    BY <1>1
  <2> QED BY <1>2, <2>1
<1>4. ASSUME NEW i \in 1..Len(a) PROVE (a \o b)[i] = a[i]
  BY <1>1, <1>2
<1> QED BY <1>1, <1>3, <1>4

\* The back of a sequence, by its elements.
LEMMA BackAt ==
    ASSUME NEW S, NEW s \in Seq(S), NEW n \in 0..Len(s)
    PROVE  /\ Back(s, n) \in Seq(S) /\ Len(Back(s, n)) = Len(s) - n /\ Len(s) \in Nat
           /\ \A i \in 1..(Len(s) - n) : Back(s, n)[i] = s[n + i]
           /\ Back(s, n) = <<>> <=> n = Len(s)
<1>1. /\ Back(s, n) \in Seq(S) /\ Len(Back(s, n)) = Len(s) - n /\ Len(s) \in Nat
      /\ \A i \in 1..(Len(s) - n) : Back(s, n)[i] = s[n + i]
  BY CutFact, LenProperties DEF Cuts, Back
<1>2. Back(s, n) = <<>> <=> Len(Back(s, n)) = 0
  BY <1>1, EmptySeq
<1> QED BY <1>1, <1>2

\* The same for units.
SameUnit(s, i, r, j) == Kind(s, i) = Kind(r, j) /\ Tag(s, i) = Tag(r, j) /\ Place(s, i) = Place(r, j)

\* The units of a concatenation.
LEMMA ConcatUnits ==
    ASSUME NEW S, NEW a \in Seq(S), NEW b \in Seq(S)
    PROVE  /\ \A i \in 1..Len(a) : SameUnit(a \o b, i, a, i)
           /\ \A i \in 1..Len(b) : SameUnit(a \o b, Len(a) + i, b, i)
BY ConcatAt DEF SameUnit, Kind, Tag, Place

\* The units of the back of a sequence.
LEMMA BackUnits ==
    ASSUME NEW S, NEW s \in Seq(S), NEW n \in 0..Len(s)
    PROVE  \A i \in 1..(Len(s) - n) : SameUnit(Back(s, n), i, s, n + i)
BY BackAt DEF SameUnit, Kind, Tag, Place

\* Whole messages behind whole messages.
LEMMA AlignedConcat ==
    ASSUME NEW K, NEW a \in Seq(K \X Nat \X Nat), NEW b \in Seq(K \X Nat \X Nat),
           Aligned(a), Aligned(b)
    PROVE  Aligned(a \o b)
<1> DEFINE c == a \o b
<1>1. /\ Len(c) = Len(a) + Len(b) /\ Len(a) \in Nat /\ Len(b) \in Nat
      /\ \A i \in 1..Len(a) : SameUnit(c, i, a, i)
      /\ \A i \in 1..Len(b) : SameUnit(c, Len(a) + i, b, i)
  BY ConcatAt, ConcatUnits
<1> HIDE DEF c
<1>2. ASSUME NEW i \in 1..Len(c)
      PROVE  /\ Place(c, i) \in 1..Size(Kind(c, i)) /\ Place(c, i) <= i
             /\ i - Place(c, i) + Size(Kind(c, i)) <= Len(c)
             /\ \A j \in 1..Size(Kind(c, i)) :
                   /\ Kind(c, i - Place(c, i) + j) = Kind(c, i)
                   /\ Tag(c, i - Place(c, i) + j) = Tag(c, i)
                   /\ Place(c, i - Place(c, i) + j) = j
  <2>1. CASE i <= Len(a)
    <3> DEFINE z == Size(Kind(a, i))
               p == Place(a, i)
    <3>1. /\ Kind(c, i) = Kind(a, i) /\ Tag(c, i) = Tag(a, i) /\ Place(c, i) = p
      BY <1>1, <2>1 DEF SameUnit
    <3>2. /\ z \in Nat /\ p \in 1..z /\ p <= i /\ i - p + z <= Len(a)
          /\ \A j \in 1..z : /\ Kind(a, i - p + j) = Kind(a, i)
                             /\ Tag(a, i - p + j) = Tag(a, i)
                             /\ Place(a, i - p + j) = j
      BY <1>1, <2>1, SizeFacts DEF Aligned
    <3> HIDE DEF z, p
    <3>3. ASSUME NEW j \in 1..z
          PROVE  Kind(c, i - p + j) = Kind(a, i) /\ Tag(c, i - p + j) = Tag(a, i) /\ Place(c, i - p + j) = j
      <4>1. i - p + j \in 1..Len(a)
        BY <1>1, <3>2
      <4>2. SameUnit(c, i - p + j, a, i - p + j)
        BY <1>1, <4>1
      <4>3. Kind(a, i - p + j) = Kind(a, i) /\ Tag(a, i - p + j) = Tag(a, i) /\ Place(a, i - p + j) = j
        BY <3>2
      <4> QED BY <4>2, <4>3 DEF SameUnit
    <3>4. i - p + z <= Len(c)
      BY <1>1, <3>2
    <3> QED BY <3>1, <3>2, <3>3, <3>4 DEF z
  <2>2. CASE ~(i <= Len(a))
    <3> DEFINE k == i - Len(a)
               z == Size(Kind(b, k))
               p == Place(b, k)
    <3>1. k \in 1..Len(b) /\ i = Len(a) + k
      BY <1>1, <2>2
    <3> HIDE DEF k
    <3>2. Kind(c, i) = Kind(b, k) /\ Tag(c, i) = Tag(b, k) /\ Place(c, i) = p
      BY <1>1, <3>1 DEF SameUnit
    <3>3. /\ z \in Nat /\ p \in 1..z /\ p <= k /\ k - p + z <= Len(b)
          /\ \A j \in 1..z : /\ Kind(b, k - p + j) = Kind(b, k)
                             /\ Tag(b, k - p + j) = Tag(b, k)
                             /\ Place(b, k - p + j) = j
      BY <3>1, SizeFacts DEF Aligned
    <3> HIDE DEF z, p
    <3>4. ASSUME NEW j \in 1..z
          PROVE  Kind(c, i - p + j) = Kind(b, k) /\ Tag(c, i - p + j) = Tag(b, k) /\ Place(c, i - p + j) = j
      <4>1. k - p + j \in 1..Len(b) /\ i - p + j = Len(a) + (k - p + j)
        BY <1>1, <3>1, <3>3
      <4> QED BY <1>1, <3>3, <4>1 DEF SameUnit
    <3>5. i - p + z <= Len(c) /\ p <= i
      BY <1>1, <3>1, <3>3
    <3> QED BY <3>2, <3>3, <3>4, <3>5 DEF z
  <2> QED BY <2>1, <2>2
<1>3. Aligned(c)
  BY <1>2 DEF Aligned
<1> QED BY <1>3 DEF c

\* The first message of a sequence of whole ones.
LEMMA FirstWhole ==
    ASSUME NEW K, NEW s \in Seq(K \X Nat \X Nat), Aligned(s), s # <<>>
    PROVE  /\ s[1] \in K \X Nat \X Nat /\ Kind(s, 1) \in K /\ Tag(s, 1) \in Nat
           /\ Size(Kind(s, 1)) <= Len(s) /\ Len(s) \in Nat
           /\ \A j \in 1..Size(Kind(s, 1)) :
                 Kind(s, j) = Kind(s, 1) /\ Tag(s, j) = Tag(s, 1) /\ Place(s, j) = j
<1> DEFINE z == Size(Kind(s, 1))
           p == Place(s, 1)
<1>1. Len(s) \in Nat /\ 1 \in 1..Len(s) /\ s[1] \in K \X Nat \X Nat
  BY EmptySeq, LenProperties
<1>2. Kind(s, 1) \in K /\ Tag(s, 1) \in Nat /\ z \in Nat
  BY <1>1, SizeFacts DEF Kind, Tag
<1>3. /\ p \in 1..z /\ p <= 1 /\ 1 - p + z <= Len(s)
      /\ \A j \in 1..z : /\ Kind(s, 1 - p + j) = Kind(s, 1) /\ Tag(s, 1 - p + j) = Tag(s, 1)
                         /\ Place(s, 1 - p + j) = j
  BY <1>1 DEF Aligned
<1> HIDE DEF z, p
<1>4. p = 1 /\ z <= Len(s)
  BY <1>1, <1>2, <1>3
<1>6. ASSUME NEW j \in 1..z
      PROVE  Kind(s, j) = Kind(s, 1) /\ Tag(s, j) = Tag(s, 1) /\ Place(s, j) = j
  <2>1. 1 - p + j = j
    BY <1>2, <1>4
  <2>2. /\ Kind(s, 1 - p + j) = Kind(s, 1) /\ Tag(s, 1 - p + j) = Tag(s, 1)
        /\ Place(s, 1 - p + j) = j
    BY <1>3
  <2> QED BY ONLY <2>1, <2>2, Zenon
<1> QED BY <1>1, <1>2, <1>4, <1>6 DEF z

\* What is left without the first message is whole messages.
LEMMA AlignedBack ==
    ASSUME NEW K, NEW s \in Seq(K \X Nat \X Nat), Aligned(s), s # <<>>
    PROVE  Aligned(Back(s, Size(Kind(s, 1))))
<1> DEFINE n == Size(Kind(s, 1))
           c == Back(s, n)
<1>1. /\ n \in Nat /\ n >= 1 /\ n <= Len(s) /\ Len(s) \in Nat
      /\ \A j \in 1..n : Kind(s, j) = Kind(s, 1) /\ Place(s, j) = j
  BY FirstWhole, SizeFacts
<1>2. /\ Len(c) = Len(s) - n
      /\ \A i \in 1..(Len(s) - n) : SameUnit(c, i, s, n + i)
  <2>1. n \in 0..Len(s)
    BY <1>1
  <2> HIDE DEF n
  <2> QED BY <2>1, BackAt, BackUnits
<1> HIDE DEF c
<1>3. ASSUME NEW i \in 1..Len(c)
      PROVE  /\ Place(c, i) \in 1..Size(Kind(c, i)) /\ Place(c, i) <= i
             /\ i - Place(c, i) + Size(Kind(c, i)) <= Len(c)
             /\ \A j \in 1..Size(Kind(c, i)) :
                   /\ Kind(c, i - Place(c, i) + j) = Kind(c, i)
                   /\ Tag(c, i - Place(c, i) + j) = Tag(c, i)
                   /\ Place(c, i - Place(c, i) + j) = j
  <2> DEFINE m == n + i
             z == Size(Kind(s, m))
             p == Place(s, m)
  <2>1. m \in 1..Len(s) /\ m - i = n
    <3> HIDE DEF n
    <3> QED BY <1>1, <1>2
  <2>2. Kind(c, i) = Kind(s, m) /\ Tag(c, i) = Tag(s, m) /\ Place(c, i) = p
    <3>1. i \in 1..(Len(s) - n)
      BY <1>2
    <3> QED BY <1>2, <3>1 DEF SameUnit
  <2> HIDE DEF m
  <2>3. /\ z \in Nat /\ p \in 1..z /\ p <= m /\ m - p + z <= Len(s)
        /\ \A j \in 1..z : /\ Kind(s, m - p + j) = Kind(s, m)
                           /\ Tag(s, m - p + j) = Tag(s, m)
                           /\ Place(s, m - p + j) = j
    BY <2>1, SizeFacts DEF Aligned
  <2> HIDE DEF p
  \* the message of this unit does not begin inside the first one
  <2>4. p <= i
    <3>1. SUFFICES ASSUME ~(p <= i) PROVE FALSE
      BY <1>2, <2>3
    <3> DEFINE q == m - p + 1
    <3>2. q \in 1..n /\ 1 \in 1..z
      <4> HIDE DEF n, z
      <4> QED BY <1>1, <2>1, <2>3, <3>1
    <3>3. Kind(s, q) = Kind(s, m) /\ Place(s, q) = 1 /\ Kind(s, q) = Kind(s, 1) /\ Place(s, q) = q
      BY <1>1, <2>3, <3>2
    <3>4. q = 1 /\ z = n
      BY <3>3
    <3> HIDE DEF z, n
    <3> QED BY <1>1, <2>1, <2>3, <3>4
  <2> HIDE DEF n, z
  <2>5. ASSUME NEW j \in 1..z
        PROVE  Kind(c, i - p + j) = Kind(s, m) /\ Tag(c, i - p + j) = Tag(s, m) /\ Place(c, i - p + j) = j
    <3>1. /\ i - p + j \in 1..(Len(s) - n)
          /\ n + (i - p + j) = m - p + j
      BY <1>1, <2>1, <2>3, <2>4
    <3> QED BY <1>2, <2>3, <3>1 DEF SameUnit
  <2>6. i - p + z <= Len(c)
    BY <1>1, <1>2, <2>1, <2>3
  <2> QED BY <2>2, <2>3, <2>4, <2>5, <2>6 DEF z
<1>4. Aligned(c)
  BY <1>3 DEF Aligned
<1> QED BY <1>4 DEF c, n

-----------------------------------------------------------------------------
(* A message joins what is on its way *)

\* c is the message <<k, t>> behind s.
JoinedBy(c, s, k, t) ==
    /\ c # <<>> /\ Len(c) = Len(s) + Size(k) /\ Len(s) \in Nat
    /\ Size(k) \in Nat /\ Size(k) >= 1
    /\ \A i \in 1..Len(s) : SameUnit(c, i, s, i)
    /\ \A i \in 1..Size(k) : Is(c, Len(s) + i, k, t) /\ Place(c, Len(s) + i) = i
    /\ Is(c, Len(c), k, t)
    /\ Aligned(s) => Aligned(c)

\* What a message added to s makes of it.
LEMMA Joins ==
    ASSUME NEW K, NEW s \in Seq(K \X Nat \X Nat), NEW k \in K, NEW t \in Nat
    PROVE  /\ s \o Encode(k, t) \in Seq(K \X Nat \X Nat)
           /\ JoinedBy(s \o Encode(k, t), s, k, t)
<1> DEFINE e == Encode(k, t)
           c == s \o e
<1>1. /\ e \in Seq(K \X Nat \X Nat) /\ Len(e) = Size(k) /\ Aligned(e)
      /\ \A i \in 1..Size(k) : Is(e, i, k, t) /\ Place(e, i) = i
  BY EncodeFacts, EncodeAt, AlignedEncode DEF Is
<1>2. Size(k) \in Nat /\ Size(k) >= 1
  BY SizeFacts
<1> HIDE DEF e
<1>3. /\ c \in Seq(K \X Nat \X Nat) /\ Len(c) = Len(s) + Size(k) /\ Len(s) \in Nat
  BY <1>1, ConcatAt
<1>4. /\ \A i \in 1..Len(s) : SameUnit(c, i, s, i)
      /\ \A i \in 1..Size(k) : SameUnit(c, Len(s) + i, e, i)
  BY <1>1, ConcatUnits
<1>5. Aligned(s) => Aligned(c)
  BY <1>1, AlignedConcat
<1> HIDE DEF c
<1>6. \A i \in 1..Size(k) : Is(c, Len(s) + i, k, t) /\ Place(c, Len(s) + i) = i
  BY <1>1, <1>4 DEF SameUnit, Is
<1>7. c # <<>>
  BY <1>2, <1>3, EmptySeq
<1>8. Is(c, Len(c), k, t)
  <2>1. Size(k) \in 1..Size(k)
    BY <1>2
  <2> QED BY <1>3, <1>6, <2>1
<1>9. JoinedBy(c, s, k, t)
  BY <1>2, <1>3, <1>4, <1>5, <1>6, <1>7, <1>8 DEF JoinedBy
<1> QED BY <1>3, <1>9 DEF c, e

\* It keeps the order if it may follow the last one, and the server can start with
\* it if it is the first.
LEMMA JoinsInOrder ==
    ASSUME NEW s \in Seq(ClientUnit), NEW k \in ClientKind, NEW t \in Nat, NEW v,
           Ordered(s), StartsWell(s, v),
           s = <<>> => Expects(v, k),
           s # <<>> => Follows(Kind(s, Len(s)), k)
    PROVE  Ordered(s \o Encode(k, t)) /\ StartsWell(s \o Encode(k, t), v)
<1> DEFINE c == s \o Encode(k, t)
           z == Size(k)
<1>1. /\ Len(c) = Len(s) + z /\ Len(s) \in Nat /\ z \in Nat /\ z >= 1
      /\ \A i \in 1..Len(s) : Kind(c, i) = Kind(s, i) /\ Place(c, i) = Place(s, i)
      /\ \A i \in 1..z : Kind(c, Len(s) + i) = k /\ Place(c, Len(s) + i) = i
  <2>1. JoinedBy(c, s, k, t)
    BY Joins DEF ClientUnit
  <2> HIDE DEF c
  <2> QED BY <2>1 DEF JoinedBy, SameUnit, Is
<1> HIDE DEF c, z
<1>2. ASSUME NEW i \in 1..(Len(c) - 1), Place(c, i) = Size(Kind(c, i))
      PROVE  Follows(Kind(c, i), Kind(c, i + 1))
  <2>1. CASE i < Len(s)
    <3>1. i \in 1..(Len(s) - 1) /\ i \in 1..Len(s) /\ i + 1 \in 1..Len(s)
      BY <1>1, <2>1
    <3>2. Kind(c, i) = Kind(s, i) /\ Place(c, i) = Place(s, i) /\ Kind(c, i + 1) = Kind(s, i + 1)
      BY <1>1, <3>1
    <3> QED BY <1>2, <3>1, <3>2 DEF Ordered
  <2>2. CASE i = Len(s)
    <3>1. i \in 1..Len(s) /\ s # <<>> /\ 1 \in 1..z
      BY <1>1, <2>2
    <3>2. Kind(c, i) = Kind(s, Len(s)) /\ Kind(c, i + 1) = k
      BY <1>1, <2>2, <3>1
    <3> QED BY <3>1, <3>2
  <2>3. CASE i > Len(s)
    <3>1. i - Len(s) \in 1..z /\ i - Len(s) < z /\ i = Len(s) + (i - Len(s))
      BY <1>1, <2>3
    <3>2. Kind(c, i) = k /\ Place(c, i) = i - Len(s)
      BY <1>1, <3>1
    <3>3. Size(k) = z
      BY DEF z
    <3> QED BY <1>1, <1>2, <3>1, <3>2, <3>3
  <2> QED BY <1>1, <2>1, <2>2, <2>3
<1>3. Ordered(c)
  BY <1>2 DEF Ordered
<1>4. StartsWell(c, v)
  <2>1. CASE s = <<>>
    <3>1. Kind(c, 1) = k
      <4>1. Len(s) = 0 /\ 1 \in 1..z
        BY <1>1, <2>1
      <4>2. Len(s) + 1 = 1
        BY <4>1
      <4> QED BY <1>1, <4>1, <4>2
    <3> QED BY <2>1, <3>1 DEF StartsWell
  <2>2. CASE s # <<>>
    <3>1. 1 \in 1..Len(s)
      BY <1>1, <2>2, EmptySeq
    <3> QED BY <1>1, <2>2, <3>1 DEF StartsWell
  <2> QED BY <2>1, <2>2
<1> QED BY <1>3, <1>4 DEF c

\* A packet the server adds, behind none that ends the query.
LEMMA Replies ==
    ASSUME NEW d \in Seq(ServerUnit), NEW r \in ServerKind, NEW t \in Nat, NEW st,
           DownOK(st, d, t), NoEnd(d), MayArrive(st, r),
           st \in {"hello", "header"} => d = <<>>
    PROVE  /\ DownOK(st, d \o Encode(r, t), t)
           /\ r \in Terminal => HasEnd(d \o Encode(r, t))
           /\ r \notin Terminal => NoEnd(d \o Encode(r, t))
           /\ d = <<>> /\ r # "Data" =>
                 Len(d \o Encode(r, t)) = 1 /\ Kind(d \o Encode(r, t), 1) = r
<1> DEFINE c == d \o Encode(r, t)
           z == Size(r)
<1>1. /\ Len(c) = Len(d) + z /\ Len(d) \in Nat /\ z \in Nat /\ z >= 1 /\ c # <<>>
      /\ \A i \in 1..Len(d) : Kind(c, i) = Kind(d, i) /\ Tag(c, i) = Tag(d, i)
      /\ \A i \in 1..z : Kind(c, Len(d) + i) = r /\ Tag(c, Len(d) + i) = t
      /\ Kind(c, Len(c)) = r
      /\ Aligned(c)
  <2>1. JoinedBy(c, d, r, t) /\ Aligned(d)
    BY Joins DEF ServerUnit, DownOK
  <2> HIDE DEF c
  <2> QED BY <2>1 DEF JoinedBy, SameUnit, Is
<1>2. (r # "Data" => z = 1) /\ (r \in Terminal => z = 1)
  BY SizeFacts DEF Terminal
<1> HIDE DEF c, z
<1>3. ASSUME NEW i \in 1..Len(c)
      PROVE  \/ i \in 1..Len(d) /\ Kind(c, i) = Kind(d, i) /\ Tag(c, i) = Tag(d, i)
             \/ Kind(c, i) = r /\ Tag(c, i) = t
  <2>1. CASE i <= Len(d)
    BY <1>1, <2>1
  <2>2. CASE ~(i <= Len(d))
    <3>1. i - Len(d) \in 1..z /\ i = Len(d) + (i - Len(d))
      BY <1>1, <2>2
    <3> QED BY <1>1, <3>1
  <2> QED BY <2>1, <2>2
<1>4. \A i \in 1..Len(c) : Tag(c, i) = t /\ MayArrive(st, Kind(c, i))
  BY <1>3 DEF DownOK
<1>5. ASSUME NEW i \in 1..(Len(c) - 1) PROVE Kind(c, i) \notin Terminal
  <2>1. i \in 1..Len(c)
    BY <1>1
  <2>2. CASE r \in Terminal
    <3>1. i \in 1..Len(d)
      BY <1>1, <1>2, <2>2
    <3> QED BY <1>1, <3>1 DEF NoEnd
  <2>3. CASE r \notin Terminal
    BY <1>3, <2>1, <2>3 DEF NoEnd
  <2> QED BY <2>2, <2>3
<1>6. st \in {"hello", "header"} => Len(c) <= 1
  <2>1. SUFFICES ASSUME st \in {"hello", "header"} PROVE Len(c) <= 1
    OBVIOUS
  <2>2. d = <<>> /\ r # "Data"
    BY <2>1 DEF MayArrive
  <2> QED BY <1>1, <1>2, <2>2
<1>7. d = <<>> /\ r # "Data" => Len(c) = 1 /\ Kind(c, 1) = r
  BY <1>1, <1>2
<1>8. r \in Terminal => HasEnd(c)
  BY <1>1 DEF HasEnd
<1>9. r \notin Terminal => NoEnd(c)
  BY <1>3 DEF NoEnd
<1>10. DownOK(st, c, t)
  BY <1>1, <1>4, <1>5, <1>6 DEF DownOK
<1> QED BY <1>7, <1>8, <1>9, <1>10 DEF c

-----------------------------------------------------------------------------
(* The application sends *)

\* A query or a ping, when nothing is outstanding.
AskStage(k) == IF k = "Select" THEN "reading" ELSE IF k = "Insert" THEN "header" ELSE "pinged"

\* An application that is free asks: the directions are as its new stage has them.
LEMMA AskOK ==
    ASSUME NEW s \in Seq(ClientUnit), NEW d, NEW v, NEW t \in Nat, NEW g, NEW k \in Asks,
           UpOK("free", s, d, v, t, g)
    PROVE  UpOK(AskStage(k), s \o Encode(k, t + 1), d, v, t + 1, g)
<1> DEFINE c == s \o Encode(k, t + 1)
<1>1. SUFFICES ASSUME v # "gone"
               PROVE  Ordered(c) /\ StartsWell(c, v) /\ PhaseOK(AskStage(k), c, d, v, t + 1, g)
  BY DEF UpOK
<1>2. Ordered(s) /\ StartsWell(s, v) /\ FreeOK(s, d, v)
  BY <1>1 DEF UpOK, PhaseOK
<1>3. k \in ClientKind /\ t + 1 \in Nat /\ Size(k) = 1
  BY SizeFacts DEF Asks, ClientKind
<1>4. JoinedBy(c, s, k, t + 1)
  BY <1>3, Joins DEF ClientUnit
<1>5. Ordered(c) /\ StartsWell(c, v)
  <2>1. s = <<>> => Expects(v, k)
    BY <1>2 DEF FreeOK, Expects, Asks
  <2>2. s # <<>> => Follows(Kind(s, Len(s)), k)
    BY <1>2 DEF FreeOK, Follows
  <2> QED BY <1>2, <1>3, <2>1, <2>2, JoinsInOrder
<1> HIDE DEF c
<1>6. Asked(c, d, v, k, t + 1, Len(c))
  <2>1. Len(c) >= 1 /\ Len(c) - 1 = Len(s) /\ Is(c, Len(c), k, t + 1)
    BY <1>3, <1>4 DEF JoinedBy
  <2>2. LateUpTo(c, Len(s))
    BY <1>2, <1>4 DEF JoinedBy, SameUnit, LateUpTo, FreeOK
  <2> QED BY <1>2, <2>1, <2>2 DEF Asked, FreeOK
<1>7. PhaseOK(AskStage(k), c, d, v, t + 1, g)
  BY <1>6 DEF PhaseOK, AskStage, Asks, ReadingOK, HeaderOK, PingedOK
<1> QED BY <1>5, <1>7

\* A Cancel, before or after the server took the query, or ended it.
LEMMA CancelOK ==
    ASSUME NEW s \in Seq(ClientUnit), NEW d, NEW v, NEW t \in Nat, NEW g,
           UpOK("reading", s, d, v, t, g)
    PROVE  UpOK("stopping", s \o Encode("Cancel", t), d, v, t, g)
<1> DEFINE c == s \o Encode("Cancel", t)
<1>1. SUFFICES ASSUME v # "gone"
               PROVE  Ordered(c) /\ StartsWell(c, v) /\ PhaseOK("stopping", c, d, v, t, g)
  BY DEF UpOK
<1>2. Ordered(s) /\ StartsWell(s, v) /\ ReadingOK(s, d, v, t, g)
  BY <1>1 DEF UpOK, PhaseOK
<1>3. "Cancel" \in ClientKind /\ Size("Cancel") = 1
  BY SizeFacts DEF ClientKind
<1>4. JoinedBy(c, s, "Cancel", t)
  BY <1>3, Joins DEF ClientUnit
<1>5. Len(c) = Len(s) + 1 /\ Len(s) \in Nat /\ c # <<>> /\ Is(c, Len(c), "Cancel", t)
  BY <1>3, <1>4 DEF JoinedBy
<1>6. CASE Asked(s, d, v, "Select", t, Len(s))
  <2>1. s # <<>> /\ Len(s) \in 1..Len(s)
    BY <1>5, <1>6 DEF Asked
  <2>2. Follows(Kind(s, Len(s)), "Cancel")
    BY <1>6 DEF Asked, Is, Follows
  <2>3. Ordered(c) /\ StartsWell(c, v)
    BY <1>2, <1>3, <2>1, <2>2, JoinsInOrder
  <2> HIDE DEF c
  <2>4. Is(c, Len(s), "Select", t)
    BY <1>4, <1>6, <2>1 DEF JoinedBy, SameUnit, Is, Asked
  <2>5. LateUpTo(c, Len(s) - 1)
    <3>1. ASSUME NEW i \in 1..(Len(s) - 1) PROVE Kind(c, i) \in Late
      <4>1. i \in 1..Len(s)
        BY <1>5
      <4> QED BY <1>4, <1>6, <4>1 DEF JoinedBy, SameUnit, Asked, LateUpTo
    <3> QED BY <3>1 DEF LateUpTo
  <2>6. Asked(c, d, v, "Select", t, Len(s)) /\ Len(c) - 1 = Len(s)
    BY <1>5, <1>6, <2>4, <2>5 DEF Asked
  <2> QED BY <1>5, <2>3, <2>6 DEF PhaseOK, StoppingOK
<1>7. CASE s = <<>> /\ v \in {"select", "idle"} /\ (v = "select" => g = t /\ NoEnd(d))
           /\ (v = "idle" => HasEnd(d))
  <2>1. Expects(v, "Cancel")
    BY <1>7 DEF Expects
  <2>2. Ordered(c) /\ StartsWell(c, v)
    BY <1>2, <1>3, <1>7, <2>1, JoinsInOrder
  <2> HIDE DEF c
  <2>3. Len(c) = 1
    BY <1>5, <1>7
  <2> QED BY <1>5, <1>7, <2>2, <2>3 DEF PhaseOK, StoppingOK
<1> QED BY <1>2, <1>6, <1>7 DEF ReadingOK, Answered

\* A block of an INSERT, which the server may have given up already.
LEMMA BlockOK ==
    ASSUME NEW s \in Seq(ClientUnit), NEW d, NEW v, NEW t \in Nat, NEW g,
           NEW k \in {"Data", "DataEnd"}, UpOK("inserting", s, d, v, t, g)
    PROVE  UpOK(IF k = "Data" THEN "inserting" ELSE "finishing", s \o Encode(k, t), d, v, t, g)
<1> DEFINE c == s \o Encode(k, t)
           st == IF k = "Data" THEN "inserting" ELSE "finishing"
<1>1. SUFFICES ASSUME v # "gone"
               PROVE  Ordered(c) /\ StartsWell(c, v) /\ PhaseOK(st, c, d, v, t, g)
  BY DEF UpOK
<1>2. Ordered(s) /\ StartsWell(s, v) /\ InsertingOK(s, d, v, t)
  BY <1>1 DEF UpOK, PhaseOK
<1>3. k \in ClientKind /\ (k = "DataEnd" => Size(k) = 1)
  BY SizeFacts DEF ClientKind
<1>4. JoinedBy(c, s, k, t)
  BY <1>3, Joins DEF ClientUnit
<1>5. Ordered(c) /\ StartsWell(c, v)
  <2>1. s = <<>> => Expects(v, k)
    BY <1>2 DEF InsertingOK, Inserting, Expects
  <2>2. s # <<>> => Kind(s, Len(s)) = "Data"
    <3>1. s # <<>> => Len(s) \in 1..Len(s)
      BY EmptySeq, LenProperties
    <3> QED BY <1>2, <3>1 DEF InsertingOK, BlocksUpTo
  <2>3. s # <<>> => Follows(Kind(s, Len(s)), k)
    BY <2>2 DEF Follows
  <2> QED BY <1>2, <1>3, <2>1, <2>3, JoinsInOrder
<1> HIDE DEF c
<1>6. BlocksUpTo(c, t, Len(s)) /\ Len(s) \in Nat
  BY <1>2, <1>4 DEF JoinedBy, SameUnit, InsertingOK, BlocksUpTo
<1>7. CASE k = "Data"
  <2>1. ASSUME NEW i \in 1..Len(c) PROVE Kind(c, i) = "Data" /\ Tag(c, i) = t
    <3>1. CASE i <= Len(s)
      BY <1>6, <3>1 DEF BlocksUpTo
    <3>2. CASE ~(i <= Len(s))
      <4>1. i - Len(s) \in 1..Size(k) /\ i = Len(s) + (i - Len(s))
        BY <1>4, <3>2 DEF JoinedBy
      <4> QED BY <1>4, <1>7, <4>1 DEF JoinedBy, Is
    <3> QED BY <3>1, <3>2
  <2>2. InsertingOK(c, d, v, t)
    BY <1>2, <2>1 DEF InsertingOK, BlocksUpTo
  <2> QED BY <1>5, <1>7, <2>2 DEF PhaseOK
<1>8. CASE k = "DataEnd"
  <2>1. c # <<>> /\ Len(c) - 1 = Len(s) /\ Is(c, Len(c), "DataEnd", t)
    BY <1>3, <1>4, <1>8 DEF JoinedBy
  <2>2. FinishingOK(c, d, v, t)
    BY <1>2, <1>6, <2>1 DEF FinishingOK, InsertingOK
  <2> QED BY <1>5, <1>8, <2>2 DEF PhaseOK
<1> QED BY <1>7, <1>8

\* The two messages of the handshake.
LEMMA HandshakeOK ==
    ASSUME NEW s \in Seq(ClientUnit), s = <<>>, NEW d, NEW v, NEW g,
           NEW k, NEW st,
           \/ k = "Hello" /\ st = "hello" /\ v = "greet"
           \/ k = "Addendum" /\ st = "addendum" /\ v = "addendum",
           d = <<>>
    PROVE  UpOK(st, s \o Encode(k, 0), d, v, 0, g)
<1> DEFINE c == s \o Encode(k, 0)
<1>1. k \in ClientKind /\ Size(k) = 1
  BY SizeFacts DEF ClientKind
<1>2. JoinedBy(c, s, k, 0)
  BY <1>1, Joins DEF ClientUnit
<1>3. Ordered(c) /\ StartsWell(c, v)
  <2>1. Ordered(s) /\ StartsWell(s, v)
    BY DEF Ordered, StartsWell
  <2>2. Expects(v, k)
    BY DEF Expects
  <2> QED BY <1>1, <2>1, <2>2, JoinsInOrder
<1> HIDE DEF c
<1>4. Len(c) = 1 /\ Is(c, 1, k, 0)
  BY <1>1, <1>2 DEF JoinedBy
<1>5. PhaseOK(st, c, d, v, 0, g)
  BY <1>4 DEF PhaseOK, HelloOK, AddendumOK
<1> QED BY <1>3, <1>5 DEF UpOK, c

-----------------------------------------------------------------------------
(* The server takes a message *)

FirstSize(s) == Size(Kind(s, 1))

\* c is s without its first message.
TakenFrom(c, s) ==
    /\ FirstSize(s) \in 1..Len(s) /\ Len(s) \in Nat /\ Len(c) = Len(s) - FirstSize(s)
    /\ c = <<>> <=> FirstSize(s) = Len(s)
    /\ Kind(s, 1) # "Data" => FirstSize(s) = 1
    /\ \A i \in 1..FirstSize(s) :
          Kind(s, i) = Kind(s, 1) /\ Tag(s, i) = Tag(s, 1) /\ Place(s, i) = i
    /\ \A i \in 1..(Len(s) - FirstSize(s)) : SameUnit(c, i, s, FirstSize(s) + i)
    /\ Aligned(c)

\* What taking the first message makes of a sequence of whole ones.
LEMMA Takes ==
    ASSUME NEW K, NEW s \in Seq(K \X Nat \X Nat), Aligned(s), s # <<>>
    PROVE  TakenFrom(Back(s, FirstSize(s)), s)
<1> DEFINE n == FirstSize(s)
<1>1. /\ n \in Nat /\ n >= 1 /\ n <= Len(s) /\ Len(s) \in Nat
      /\ Kind(s, 1) # "Data" => n = 1
      /\ \A i \in 1..n : Kind(s, i) = Kind(s, 1) /\ Tag(s, i) = Tag(s, 1) /\ Place(s, i) = i
  BY FirstWhole, SizeFacts DEF FirstSize
<1>2. Aligned(Back(s, n))
  BY AlignedBack DEF FirstSize
<1> HIDE DEF n
<1>3. n \in 0..Len(s) /\ n \in 1..Len(s)
  BY <1>1
<1>4. /\ Len(Back(s, n)) = Len(s) - n /\ (Back(s, n) = <<>> <=> n = Len(s))
      /\ \A i \in 1..(Len(s) - n) : SameUnit(Back(s, n), i, s, n + i)
  BY <1>3, BackAt, BackUnits
<1> QED BY <1>1, <1>2, <1>3, <1>4 DEF TakenFrom, n

\* The next message may start what is left.
LEMMA TakesInOrder ==
    ASSUME NEW s, NEW c, TakenFrom(c, s), Ordered(s), NEW w,
           \A k : Follows(Kind(s, 1), k) => Expects(w, k)
    PROVE  Ordered(c) /\ StartsWell(c, w)
<1> DEFINE n == FirstSize(s)
<1>1. /\ n \in Nat /\ n >= 1 /\ Len(s) \in Nat /\ Len(c) = Len(s) - n /\ n <= Len(s)
      /\ \A i \in 1..(Len(s) - n) : Kind(c, i) = Kind(s, n + i) /\ Place(c, i) = Place(s, n + i)
      /\ Kind(s, n) = Kind(s, 1) /\ Place(s, n) = n
      /\ c # <<>> => n # Len(s)
  BY DEF TakenFrom, SameUnit
<1>2. Size(Kind(s, n)) = n
  BY <1>1 DEF n, FirstSize
<1> HIDE DEF n
<1>3. ASSUME NEW i \in 1..(Len(c) - 1), Place(c, i) = Size(Kind(c, i))
      PROVE  Follows(Kind(c, i), Kind(c, i + 1))
  <2>1. /\ i \in 1..(Len(s) - n) /\ i + 1 \in 1..(Len(s) - n)
        /\ n + i \in 1..(Len(s) - 1) /\ n + (i + 1) = (n + i) + 1
    BY <1>1
  <2>2. Kind(c, i) = Kind(s, n + i) /\ Place(c, i) = Place(s, n + i) /\ Kind(c, i + 1) = Kind(s, (n + i) + 1)
    BY <1>1, <2>1
  <2> QED BY <1>3, <2>1, <2>2 DEF Ordered
<1>4. ASSUME c # <<>> PROVE Expects(w, Kind(c, 1))
  <2>1. n \in 1..(Len(s) - 1) /\ 1 \in 1..(Len(s) - n)
    BY <1>1, <1>4
  <2>2. Kind(c, 1) = Kind(s, n + 1)
    BY <1>1, <2>1
  <2>3. Follows(Kind(s, n), Kind(s, n + 1))
    BY <1>1, <1>2, <2>1 DEF Ordered
  <2> QED BY <1>1, <2>2, <2>3
<1> QED BY <1>3, <1>4 DEF Ordered, StartsWell

\* In state v the server takes a message of kind k, answers r and goes to state w.
Answer(v, k, r, w) ==
    \/ v = "greet" /\ k = "Hello" /\ r = "ServerHello" /\ w = "addendum"
    \/ v = "greet" /\ k = "Hello" /\ r = "Exception" /\ w = "gone"
    \/ v = "addendum" /\ k = "Addendum" /\ r = "none" /\ w = "idle"
    \/ v = "idle" /\ k = "Select" /\ r = "none" /\ w = "select"
    \/ v = "idle" /\ k = "Insert" /\ r = "Header" /\ w = "insert"
    \/ v = "idle" /\ k = "Insert" /\ r = "Exception" /\ w = "idle"
    \/ v = "idle" /\ k = "Ping" /\ r = "Pong" /\ w = "idle"
    \/ v = "idle" /\ k = "Cancel" /\ r = "none" /\ w = "idle"
    \/ v = "select" /\ k = "Cancel" /\ r = "EndOfStream" /\ w = "idle"
    \/ v = "insert" /\ k = "Data" /\ r \in {"none", "Progress"} /\ w = "insert"
    \/ v = "insert" /\ k = "Data" /\ r = "Exception" /\ w = "skip"
    \/ v = "insert" /\ k = "DataEnd" /\ r = "EndOfStream" /\ w = "idle"
    \/ v = "skip" /\ k = "Data" /\ r = "none" /\ w = "skip"
    \/ v = "skip" /\ k = "DataEnd" /\ r = "none" /\ w = "idle"

\* Where it goes, it expects what may follow the message.
LEMMA AnswerExpects ==
    ASSUME NEW v, NEW k, NEW r, NEW w, Answer(v, k, r, w), w # "gone", NEW x, Follows(k, x)
    PROVE  Expects(w, x)
BY DEF Answer, Follows, Expects, Asks

\* A question that is not first comes closer and stays unanswered.
LEMMA TakesAsked ==
    ASSUME NEW s, NEW c, TakenFrom(c, s), NEW d, NEW v, NEW q \in Asks, NEW t,
           NEW m \in 1..Len(s), Asked(s, d, v, q, t, m),
           NEW r, NEW w, Answer(v, Kind(s, 1), r, w)
    PROVE  \/ /\ r = "none" /\ Asked(c, d, w, q, t, m - FirstSize(s)) /\ m # FirstSize(s)
           \/ /\ m = 1 /\ FirstSize(s) = 1 /\ Kind(s, 1) = q /\ Tag(s, 1) = t /\ v = "idle"
<1> DEFINE n == FirstSize(s)
<1>1. /\ n \in Nat /\ n >= 1 /\ Len(s) \in Nat /\ m \in Nat /\ n <= Len(s)
      /\ \A i \in 1..(Len(s) - n) : Kind(c, i) = Kind(s, n + i) /\ Tag(c, i) = Tag(s, n + i)
      /\ \A i \in 1..n : Kind(s, i) = Kind(s, 1)
      /\ Kind(s, 1) # "Data" => n = 1
  BY DEF TakenFrom, SameUnit
<1>2. /\ Kind(s, m) = q /\ Tag(s, m) = t /\ d = <<>> /\ v \in Behind
      /\ \A i \in 1..(m - 1) : Kind(s, i) \in Late
  BY DEF Asked, Is, LateUpTo
<1>3. q \notin Late
  BY DEF Asks, Late
<1> HIDE DEF n
<1>4. CASE Kind(s, 1) \in Late
  <2>1. r = "none" /\ w \in Behind
    BY <1>2, <1>4 DEF Answer, Late, Behind
  <2>2. m > n
    BY <1>1, <1>2, <1>3, <1>4
  <2>3. m - n \in 1..(Len(s) - n) /\ n + (m - n) = m
    BY <1>1, <2>2
  <2>4. Kind(c, m - n) = q /\ Tag(c, m - n) = t
    BY <1>1, <1>2, <2>3
  <2>5. ASSUME NEW i \in 1..((m - n) - 1) PROVE Kind(c, i) \in Late
    <3>1. i \in 1..(Len(s) - n) /\ n + i \in 1..(m - 1)
      BY <1>1, <2>3
    <3> QED BY <1>1, <1>2, <3>1
  <2>6. m - n >= 1
    BY <1>1, <2>2
  <2>7. Asked(c, d, w, q, t, m - n) /\ m # n
    BY <1>1, <1>2, <2>1, <2>2, <2>4, <2>5, <2>6 DEF Asked, Is, LateUpTo
  <2> QED BY <2>1, <2>7 DEF n
<1>5. CASE Kind(s, 1) \notin Late
  <2>1. m = 1
    BY <1>1, <1>2, <1>5
  <2>2. Kind(s, 1) = q /\ Tag(s, 1) = t /\ n = 1
    BY <1>1, <1>2, <1>5, <2>1 DEF Late
  <2>3. v = "idle"
    BY <1>2, <2>2 DEF Answer, Asks, Behind
  <2> QED BY <2>1, <2>2, <2>3 DEF n
<1> QED BY <1>4, <1>5

\* An answer is to the question the application is waiting with, and nothing before
\* it ended the query.
ReplyFits(st, s, d, t, r) ==
    r # "none" => /\ Tag(s, 1) = t /\ NoEnd(d) /\ MayArrive(st, r) /\ r \in ServerKind
                  /\ st \in {"hello", "header"} => d = <<>>

\* d2 is d with the answer to <<_, u>>.
AnsweredWith(d2, d, r, u) == d2 = IF r = "none" THEN d ELSE d \o Encode(r, u)

\* What is known of d2 then.
EndsAs(d2, d, r) ==
    /\ r = "none" => d2 = d
    /\ r # "none" => /\ r \in Terminal => HasEnd(d2)
                     /\ r \notin Terminal => NoEnd(d2)
                     /\ d = <<>> /\ r # "Data" => Len(d2) = 1 /\ Kind(d2, 1) = r

\* Nothing on its way ends no query.
LEMMA NoEndOfNothing == NoEnd(<<>>)
BY DEF NoEnd

\* The answer to the question that is waiting fits the stage of the one who asked.
LEMMA FitsAsked ==
    ASSUME NEW s, NEW d, NEW st, NEW t, NEW r, NEW v, NEW w, NEW q \in Asks,
           Kind(s, 1) = q, Tag(s, 1) = t, d = <<>>, Answer(v, q, r, w), st = AskStage(q)
    PROVE  ReplyFits(st, s, d, t, r)
BY NoEndOfNothing DEF ReplyFits, Answer, Asks, MayArrive, ServerKind, AskStage

\* The application waits with a question as the last thing it sent.
LEMMA ServedAsked ==
    ASSUME NEW s, s # <<>>, NEW c, TakenFrom(c, s), NEW d, NEW d2, NEW v, NEW t, NEW q \in Asks,
           \/ Asked(s, d, v, q, t, Len(s)) \/ (s = <<>>),
           NEW r, NEW w, Answer(v, Kind(s, 1), r, w)
    PROVE  /\ ReplyFits(AskStage(q), s, d, t, r)
           /\ EndsAs(d2, d, r) => PhaseOK(AskStage(q), c, d2, w, t, Tag(s, 1))
<1>1. /\ Len(s) \in 1..Len(s) /\ Len(c) = Len(s) - FirstSize(s) /\ Len(s) \in Nat
      /\ FirstSize(s) \in Nat /\ (c = <<>> <=> FirstSize(s) = Len(s))
  BY DEF TakenFrom
<1>2. Asked(s, d, v, q, t, Len(s))
  OBVIOUS
<1>3. CASE r = "none" /\ Asked(c, d, w, q, t, Len(s) - FirstSize(s))
  <2>1. Asked(c, d, w, q, t, Len(c))
    BY <1>1, <1>3
  <2>2. ReplyFits(AskStage(q), s, d, t, r)
    BY <1>3 DEF ReplyFits
  <2>3. EndsAs(d2, d, r) => PhaseOK(AskStage(q), c, d2, w, t, Tag(s, 1))
    BY <1>3, <2>1 DEF EndsAs, PhaseOK, AskStage, Asks, ReadingOK, HeaderOK, PingedOK
  <2> QED BY <2>2, <2>3
<1>4. CASE Len(s) = 1 /\ FirstSize(s) = 1 /\ Kind(s, 1) = q /\ Tag(s, 1) = t /\ v = "idle"
  <2>1. d = <<>> /\ c = <<>>
    BY <1>1, <1>2, <1>4 DEF Asked
  <2>2. ReplyFits(AskStage(q), s, d, t, r)
    BY <1>4, <2>1, FitsAsked
  <2>3. ASSUME EndsAs(d2, d, r) PROVE PhaseOK(AskStage(q), c, d2, w, t, Tag(s, 1))
    <3>1. CASE q = "Select"
      <4>1. r = "none" /\ w = "select" /\ NoEnd(d2)
        BY <1>4, <2>1, <2>3, <3>1, NoEndOfNothing DEF Answer, EndsAs
      <4> QED BY <1>4, <2>1, <3>1, <4>1 DEF PhaseOK, AskStage, ReadingOK
    <3>2. CASE q = "Insert"
      <4>1. (w = "insert" /\ NoEnd(d2)) \/ (w = "idle" /\ HasEnd(d2))
        BY <1>4, <2>3, <3>2 DEF Answer, EndsAs, Terminal
      <4> QED BY <2>1, <3>2, <4>1 DEF PhaseOK, AskStage, HeaderOK, Answered
    <3>3. CASE q = "Ping"
      <4>1. w = "idle" /\ HasEnd(d2)
        BY <1>4, <2>3, <3>3 DEF Answer, EndsAs, Terminal
      <4> QED BY <2>1, <3>3, <4>1 DEF PhaseOK, AskStage, PingedOK, Answered
    <3> QED BY <3>1, <3>2, <3>3 DEF Asks
  <2> QED BY <2>2, <2>3
<1> QED BY <1>1, <1>2, <1>3, <1>4, TakesAsked

\* It has cancelled what it asked.
LEMMA ServedStopping ==
    ASSUME NEW s, s # <<>>, NEW c, TakenFrom(c, s), NEW d, NEW d2, NEW v, NEW t, NEW g,
           StoppingOK(s, d, v, t, g), NEW r, NEW w, Answer(v, Kind(s, 1), r, w)
    PROVE  /\ ReplyFits("stopping", s, d, t, r)
           /\ EndsAs(d2, d, r) => PhaseOK("stopping", c, d2, w, t, Tag(s, 1))
<1> DEFINE n == FirstSize(s)
<1>1. /\ Len(c) = Len(s) - n /\ Len(s) \in Nat /\ n \in Nat /\ n <= Len(s) /\ n >= 1
      /\ (c = <<>> <=> n = Len(s))
      /\ \A i \in 1..(Len(s) - n) : SameUnit(c, i, s, n + i)
  BY DEF TakenFrom
<1>2. Is(s, Len(s), "Cancel", t)
  BY DEF StoppingOK, Answered
<1>3. Kind(s, 1) # "Data" => n = 1
  BY DEF TakenFrom
<1> HIDE DEF n
<1>4. CASE Asked(s, d, v, "Select", t, Len(s) - 1)
  <2>1. Len(s) - 1 \in 1..Len(s) /\ "Select" \in Asks
    BY <1>1, <1>4 DEF Asked, Asks
  <2>2. CASE r = "none" /\ Asked(c, d, w, "Select", t, (Len(s) - 1) - n)
    <3>1. (Len(s) - 1) - n = Len(c) - 1 /\ Len(c) >= 1 /\ c # <<>>
      BY <1>1, <2>2 DEF Asked
    <3>2. Is(c, Len(c), "Cancel", t)
      <4>1. Len(s) - n \in 1..(Len(s) - n) /\ n + (Len(s) - n) = Len(s)
        BY <1>1, <3>1
      <4>2. SameUnit(c, Len(c), s, Len(s))
        BY <1>1, <4>1
      <4> QED BY <1>2, <4>2 DEF SameUnit, Is
    <3>3. StoppingOK(c, d, w, t, Tag(s, 1))
      BY <2>2, <3>1, <3>2 DEF StoppingOK
    <3> QED BY <2>2, <3>3 DEF ReplyFits, EndsAs, PhaseOK
  <2>3. CASE Len(s) = 2 /\ n = 1 /\ Kind(s, 1) = "Select" /\ Tag(s, 1) = t /\ v = "idle"
    <3>1. r = "none" /\ w = "select"
      BY <2>3 DEF Answer
    <3>a. Len(s) = 2 /\ n = 1
      BY <2>3
    <3>2. Len(c) = 1 /\ c # <<>>
      BY ONLY <1>1, <3>a
    <3>b. d = <<>>
      BY <1>4 DEF Asked
    <3>3. SameUnit(c, 1, s, 2)
      <4>1. 1 \in 1..(Len(s) - n) /\ n + 1 = 2
        BY <3>a
      <4> QED BY <1>1, <4>1
    <3>4. Is(c, Len(c), "Cancel", t)
      BY <1>2, <3>a, <3>2, <3>3 DEF SameUnit, Is
    <3>5. StoppingOK(c, d, w, t, Tag(s, 1))
      BY <2>3, <3>1, <3>b, <3>2, <3>4, NoEndOfNothing DEF StoppingOK
    <3> QED BY <3>1, <3>5 DEF ReplyFits, EndsAs, PhaseOK
  <2> DEFINE m == Len(s) - 1
  <2>4. m \in 1..Len(s) /\ Asked(s, d, v, "Select", t, m)
    BY <1>4, <2>1
  <2> HIDE DEF m
  <2>5. \/ r = "none" /\ Asked(c, d, w, "Select", t, m - n)
        \/ m = 1 /\ n = 1 /\ Kind(s, 1) = "Select" /\ Tag(s, 1) = t /\ v = "idle"
    BY <2>1, <2>4, TakesAsked DEF n
  <2>6. m = 1 => Len(s) = 2
    <3>1. \A x \in Nat : x - 1 = 1 => x = 2
      OBVIOUS
    <3>2. Len(s) \in Nat
      BY <1>1
    <3> QED BY ONLY <3>1, <3>2, Zenon DEF m
  <2>7. m - n = (Len(s) - 1) - n
    BY DEF m
  <2> QED BY <2>2, <2>3, <2>5, <2>6, <2>7
<1>5. CASE Len(s) = 1 /\ ((v = "select" /\ g = t /\ NoEnd(d)) \/ (v = "idle" /\ HasEnd(d)))
  <2>1. Kind(s, 1) = "Cancel" /\ Tag(s, 1) = t /\ n = 1 /\ c = <<>>
    BY <1>1, <1>2, <1>3, <1>5 DEF Is
  <2>2. CASE v = "select"
    <3>1. r = "EndOfStream" /\ w = "idle"
      BY <2>1, <2>2 DEF Answer
    <3>2. ReplyFits("stopping", s, d, t, r)
      BY <1>5, <2>1, <2>2, <3>1 DEF ReplyFits, MayArrive, ServerKind
    <3> QED BY <2>1, <3>1, <3>2 DEF EndsAs, Terminal, PhaseOK, StoppingOK, Answered
  <2>3. CASE v = "idle"
    <3>1. r = "none" /\ w = "idle"
      BY <2>1, <2>3 DEF Answer
    <3> QED BY <1>5, <2>1, <2>3, <3>1 DEF ReplyFits, EndsAs, PhaseOK, StoppingOK, Answered
  <2> QED BY <1>5, <2>2, <2>3
<1> QED BY <1>4, <1>5 DEF StoppingOK, Answered

\* It is in the middle of an INSERT, or at its end.
LEMMA ServedInsert ==
    ASSUME NEW s, s # <<>>, NEW c, TakenFrom(c, s), NEW d, NEW d2, NEW v, NEW t, NEW st,
           \/ st = "inserting" /\ InsertingOK(s, d, v, t)
           \/ st = "finishing" /\ FinishingOK(s, d, v, t),
           NEW r, NEW w, Answer(v, Kind(s, 1), r, w)
    PROVE  /\ ReplyFits(st, s, d, t, r)
           /\ EndsAs(d2, d, r) => PhaseOK(st, c, d2, w, t, Tag(s, 1))
<1> DEFINE n == FirstSize(s)
<1>1. /\ Len(c) = Len(s) - n /\ Len(s) \in Nat /\ n \in Nat /\ n <= Len(s) /\ n >= 1
      /\ (c = <<>> <=> n = Len(s))
      /\ \A i \in 1..(Len(s) - n) : SameUnit(c, i, s, n + i)
      /\ \A i \in 1..n : Kind(s, i) = Kind(s, 1)
      /\ Kind(s, 1) # "Data" => n = 1
  BY DEF TakenFrom
<1> HIDE DEF n
<1>2. /\ Inserting(d, v)
      /\ st = "inserting" => BlocksUpTo(s, t, Len(s))
      /\ st = "finishing" => Is(s, Len(s), "DataEnd", t) /\ BlocksUpTo(s, t, Len(s) - 1)
  BY DEF InsertingOK, FinishingOK, Answered
<1>3. Tag(s, 1) = t /\ Kind(s, 1) \in {"Data", "DataEnd"}
  <2>1. CASE Len(s) = 1
    BY <1>2, <2>1 DEF Is, BlocksUpTo
  <2>2. CASE Len(s) # 1
    <3>1. 1 \in 1..Len(s) /\ 1 \in 1..(Len(s) - 1)
      BY <1>1, <2>2
    <3> QED BY <1>2, <3>1 DEF BlocksUpTo
  <2> QED BY <2>1, <2>2
<1>4. ReplyFits(st, s, d, t, r)
  BY <1>2, <1>3 DEF ReplyFits, Answer, Inserting, MayArrive, ServerKind
<1>5. SUFFICES ASSUME EndsAs(d2, d, r) PROVE PhaseOK(st, c, d2, w, t, Tag(s, 1))
  BY <1>4
<1>6. CASE Kind(s, 1) = "Data"
  <2>1. Inserting(d2, w)
    BY <1>2, <1>5, <1>6 DEF Inserting, EndsAs, Answer, Terminal
  <2>2. CASE st = "inserting"
    <3>1. ASSUME NEW i \in 1..Len(c) PROVE Kind(c, i) = "Data" /\ Tag(c, i) = t
      <4>1. i \in 1..(Len(s) - n) /\ n + i \in 1..Len(s)
        BY <1>1
      <4>2. SameUnit(c, i, s, n + i)
        BY <1>1, <4>1
      <4> QED BY <1>2, <2>2, <4>1, <4>2 DEF SameUnit, BlocksUpTo
    <3> QED BY <2>1, <2>2, <3>1 DEF PhaseOK, InsertingOK, BlocksUpTo
  <2>3. CASE st = "finishing"
    <3>1. n # Len(s)
      BY <1>1, <1>2, <1>6, <2>3 DEF Is
    <3>2. c # <<>> /\ Len(s) - n \in 1..(Len(s) - n) /\ n + (Len(s) - n) = Len(s)
      BY <1>1, <3>1
    <3>3. Is(c, Len(c), "DataEnd", t)
      <4>1. SameUnit(c, Len(c), s, Len(s))
        BY <1>1, <3>2
      <4> QED BY <1>2, <2>3, <4>1 DEF SameUnit, Is
    <3>4. ASSUME NEW i \in 1..(Len(c) - 1) PROVE Kind(c, i) = "Data" /\ Tag(c, i) = t
      <4>1. i \in 1..(Len(s) - n) /\ n + i \in 1..(Len(s) - 1)
        BY <1>1
      <4>2. SameUnit(c, i, s, n + i)
        BY <1>1, <4>1
      <4> QED BY <1>2, <2>3, <4>1, <4>2 DEF SameUnit, BlocksUpTo
    <3> QED BY <2>1, <2>3, <3>2, <3>3, <3>4 DEF PhaseOK, FinishingOK, BlocksUpTo
  <2> QED BY <2>2, <2>3
<1>7. CASE Kind(s, 1) = "DataEnd"
  <2>1. st = "finishing" /\ Len(s) = 1
    <3>1. st # "inserting"
      <4>1. 1 \in 1..Len(s)
        BY <1>1
      <4> QED BY <1>2, <1>7, <4>1 DEF BlocksUpTo
    <3>2. 1 \notin 1..(Len(s) - 1)
      BY <1>2, <1>7, <3>1 DEF BlocksUpTo
    <3> QED BY <1>1, <3>1, <3>2
  <2>2. c = <<>>
    BY <1>1, <1>7, <2>1
  <2>3. w = "idle" /\ HasEnd(d2)
    BY <1>2, <1>5, <1>7 DEF Inserting, EndsAs, Answer, Terminal
  <2> QED BY <2>1, <2>2, <2>3 DEF PhaseOK, FinishingOK, Answered
<1> QED BY <1>3, <1>6, <1>7

\* It is shaking hands, or waiting for nothing.
LEMMA ServedQuietly ==
    ASSUME NEW s, s # <<>>, NEW c, TakenFrom(c, s), NEW d, NEW d2, NEW v, NEW t, NEW st,
           \/ st = "hello" /\ HelloOK(s, d, v) /\ t = 0
           \/ st = "addendum" /\ AddendumOK(s, d, v) /\ t = 0
           \/ st = "free" /\ FreeOK(s, d, v),
           NEW r, NEW w, Answer(v, Kind(s, 1), r, w)
    PROVE  /\ ReplyFits(st, s, d, t, r)
           /\ EndsAs(d2, d, r) /\ w # "gone" => PhaseOK(st, c, d2, w, t, Tag(s, 1))
<1> DEFINE n == FirstSize(s)
<1>1. /\ Len(c) = Len(s) - n /\ Len(s) \in Nat /\ n \in Nat /\ n <= Len(s) /\ n >= 1
      /\ (c = <<>> <=> n = Len(s))
      /\ \A i \in 1..(Len(s) - n) : SameUnit(c, i, s, n + i)
      /\ \A i \in 1..n : Kind(s, i) = Kind(s, 1)
      /\ Kind(s, 1) # "Data" => n = 1
  BY DEF TakenFrom
<1> HIDE DEF n
<1>2. CASE st = "hello"
  <2>1. Len(s) = 1 /\ Kind(s, 1) = "Hello" /\ Tag(s, 1) = t /\ d = <<>>
    BY <1>2 DEF HelloOK, Is
  <2>2. c = <<>> /\ r # "none" /\ r # "Data" /\ (w = "gone" \/ (w = "addendum" /\ r = "ServerHello"))
    BY <1>1, <2>1 DEF Answer
  <2>3. ReplyFits(st, s, d, t, r)
    BY <1>2, <2>1, NoEndOfNothing DEF ReplyFits, Answer, MayArrive, ServerKind
  <2> QED BY <1>2, <2>1, <2>2, <2>3 DEF EndsAs, PhaseOK, HelloOK
<1>3. CASE st = "addendum"
  <2>1. Len(s) = 1 /\ Kind(s, 1) = "Addendum" /\ d = <<>>
    BY <1>3 DEF AddendumOK, Is
  <2>2. c = <<>> /\ r = "none" /\ w = "idle"
    BY <1>1, <2>1 DEF Answer
  <2> QED BY <1>3, <2>1, <2>2 DEF ReplyFits, EndsAs, PhaseOK, AddendumOK
<1>4. CASE st = "free"
  <2>1. /\ d = <<>> /\ v \in Behind /\ LateUpTo(s, Len(s))
        /\ Kind(s, Len(s)) \in {"Addendum", "Cancel", "DataEnd"}
    BY <1>4 DEF FreeOK
  <2>2. Kind(s, 1) \in Late
    BY <1>1, <2>1 DEF LateUpTo
  <2>3. r = "none" /\ w \in Behind /\ (Kind(s, 1) # "Data" => w = "idle")
    BY <2>1, <2>2 DEF Answer, Late, Behind
  <2>4. c = <<>> => w = "idle"
    BY <1>1, <2>1, <2>3
  <2>5. ASSUME NEW i \in 1..Len(c) PROVE Kind(c, i) \in Late
    <3>1. i \in 1..(Len(s) - n) /\ n + i \in 1..Len(s)
      BY <1>1
    <3>2. SameUnit(c, i, s, n + i)
      BY <1>1, <3>1
    <3> QED BY <2>1, <3>1, <3>2 DEF SameUnit, LateUpTo
  <2>6. ASSUME c # <<>> PROVE Kind(c, Len(c)) \in {"Addendum", "Cancel", "DataEnd"}
    <3>1. Len(s) - n \in 1..(Len(s) - n) /\ n + (Len(s) - n) = Len(s)
      BY <1>1, <2>6
    <3>2. SameUnit(c, Len(c), s, Len(s))
      BY <1>1, <3>1
    <3> QED BY <2>1, <3>2 DEF SameUnit
  <2>7. FreeOK(c, d, w)
    BY <2>1, <2>3, <2>4, <2>5, <2>6 DEF FreeOK, LateUpTo
  <2> QED BY <1>4, <2>3, <2>7 DEF ReplyFits, EndsAs, PhaseOK
<1> QED BY <1>2, <1>3, <1>4

\* Whatever the stage, taking a message and answering it keeps the two in step.
LEMMA Served ==
    ASSUME NEW s \in Seq(ClientUnit), s # <<>>, Aligned(s), NEW d \in Seq(ServerUnit),
           NEW st \in Stages, NEW t \in Nat, st \in {"hello", "addendum"} => t = 0,
           NEW v, v # "gone", NEW g,
           DownOK(st, d, t), UpOK(st, s, d, v, t, g),
           NEW r, NEW w, Answer(v, Kind(s, 1), r, w),
           NEW d2, AnsweredWith(d2, d, r, Tag(s, 1))
    PROVE  /\ DownOK(st, d2, t)
           /\ UpOK(st, Back(s, FirstSize(s)), d2, w, t, Tag(s, 1))
<1> DEFINE c == Back(s, FirstSize(s))
<1>1. TakenFrom(c, s)
  BY Takes DEF ClientUnit
<1>2. Ordered(s) /\ PhaseOK(st, s, d, v, t, g)
  BY DEF UpOK
<1> HIDE DEF c
<1>3. /\ ReplyFits(st, s, d, t, r)
      /\ EndsAs(d2, d, r) /\ w # "gone" => PhaseOK(st, c, d2, w, t, Tag(s, 1))
  <2>1. CASE st \in {"hello", "addendum", "free"}
    <3>1. \/ st = "hello" /\ HelloOK(s, d, v) /\ t = 0
          \/ st = "addendum" /\ AddendumOK(s, d, v) /\ t = 0
          \/ st = "free" /\ FreeOK(s, d, v)
      BY <1>2, <2>1 DEF PhaseOK
    <3> QED BY <1>1, <3>1, ServedQuietly
  <2>2. CASE st \in {"reading", "header", "pinged"}
    <3> DEFINE q == IF st = "reading" THEN "Select" ELSE IF st = "header" THEN "Insert" ELSE "Ping"
    <3>1. q \in Asks /\ AskStage(q) = st
      BY <2>2 DEF Asks, AskStage
    <3>2. Asked(s, d, v, q, t, Len(s))
      BY <1>2, <2>2 DEF PhaseOK, ReadingOK, HeaderOK, PingedOK, Answered
    <3> HIDE DEF q
    <3> QED BY <1>1, <3>1, <3>2, ServedAsked
  <2>3. CASE st = "stopping"
    <3>1. StoppingOK(s, d, v, t, g)
      BY <1>2, <2>3 DEF PhaseOK
    <3> QED BY <1>1, <2>3, <3>1, ServedStopping
  <2>4. CASE st \in {"inserting", "finishing"}
    <3>1. \/ st = "inserting" /\ InsertingOK(s, d, v, t)
          \/ st = "finishing" /\ FinishingOK(s, d, v, t)
      BY <1>2, <2>4 DEF PhaseOK
    <3> QED BY <1>1, <3>1, ServedInsert
  <2> QED BY <2>1, <2>2, <2>3, <2>4 DEF Stages
<1>4. EndsAs(d2, d, r) /\ DownOK(st, d2, t)
  <2>1. CASE r = "none"
    BY <2>1 DEF AnsweredWith, EndsAs
  <2>2. CASE r # "none"
    <3>1. d2 = d \o Encode(r, t)
      BY <1>3, <2>2 DEF AnsweredWith, ReplyFits
    <3>2. /\ NoEnd(d) /\ MayArrive(st, r) /\ r \in ServerKind
          /\ st \in {"hello", "header"} => d = <<>>
      BY <1>3, <2>2 DEF ReplyFits
    <3> QED BY <2>2, <3>1, <3>2, Replies DEF EndsAs
  <2> QED BY <2>1, <2>2
<1>5. ASSUME w # "gone" PROVE Ordered(c) /\ StartsWell(c, w)
  <2>1. \A k : Follows(Kind(s, 1), k) => Expects(w, k)
    BY <1>5, AnswerExpects
  <2> QED BY <1>1, <1>2, <2>1, TakesInOrder
<1>6. UpOK(st, c, d2, w, t, Tag(s, 1))
  BY <1>3, <1>4, <1>5 DEF UpOK
<1> QED BY <1>4, <1>6 DEF c

\* The next packet of a SELECT, or its end.
LEMMA Produced ==
    ASSUME NEW s, NEW d \in Seq(ServerUnit), NEW st \in Stages, NEW t \in Nat, NEW g,
           DownOK(st, d, t), UpOK(st, s, d, "select", t, g),
           NEW r, NEW w,
           \/ r \in {"Data", "Progress", "Unknown"} /\ w = "select"
           \/ r \in {"EndOfStream", "Exception"} /\ w = "idle"
    PROVE  DownOK(st, d \o Encode(r, g), t) /\ UpOK(st, s, d \o Encode(r, g), w, t, g)
<1>1. Ordered(s) /\ StartsWell(s, "select") /\ PhaseOK(st, s, d, "select", t, g)
  BY DEF UpOK
<1>2. st \in {"reading", "stopping"}
  BY <1>1 DEF PhaseOK, Stages, HelloOK, AddendumOK, FreeOK, HeaderOK, InsertingOK, Inserting,
        FinishingOK, PingedOK, Asked, Answered, Behind
<1>3. /\ g = t /\ NoEnd(d)
      /\ st = "reading" => s = <<>>
      /\ st = "stopping" => Len(s) = 1 /\ s # <<>> /\ Is(s, Len(s), "Cancel", t)
  BY <1>1, <1>2 DEF PhaseOK, ReadingOK, StoppingOK, Asked, Answered, Behind
<1>4. r \in ServerKind /\ MayArrive(st, r)
  BY <1>2 DEF ServerKind, MayArrive
<1> DEFINE d2 == d \o Encode(r, g)
<1>5. /\ DownOK(st, d2, t)
      /\ r \in Terminal => HasEnd(d2)
      /\ r \notin Terminal => NoEnd(d2)
  BY <1>2, <1>3, <1>4, Replies
<1> HIDE DEF d2
<1>6. (w = "select" /\ NoEnd(d2)) \/ (w = "idle" /\ HasEnd(d2))
  BY <1>5 DEF Terminal
<1>7. StartsWell(s, w)
  BY <1>1 DEF StartsWell, Expects
<1>8. PhaseOK(st, s, d2, w, t, g)
  <2>1. CASE st = "reading"
    BY <1>3, <1>6, <2>1 DEF PhaseOK, ReadingOK, Answered
  <2>2. CASE st = "stopping"
    BY <1>3, <1>6, <2>2 DEF PhaseOK, StoppingOK
  <2> QED BY <1>2, <2>1, <2>2
<1> QED BY <1>1, <1>5, <1>7, <1>8 DEF UpOK, d2

-----------------------------------------------------------------------------
(* The client takes a packet *)

\* What it means, in stage st.
StageAfter(st, k) ==
    IF k \in Terminal THEN "free" ELSE IF k = "Header" THEN "inserting" ELSE st

\* A packet received leaves the rest as the stage after it has them, and is of the
\* query the application is at.
LEMMA Received ==
    ASSUME NEW d \in Seq(ServerUnit), d # <<>>, NEW s \in Seq(ClientUnit), NEW v, NEW t, NEW g,
           NEW st \in {"reading", "stopping", "header", "finishing", "pinged"},
           DownOK(st, d, t), UpOK(st, s, d, v, t, g)
    PROVE  LET c == Back(d, FirstSize(d))
               next == StageAfter(st, Kind(d, 1))
           IN  DownOK(next, c, t) /\ UpOK(next, s, c, v, t, g) /\ Tag(d, 1) = t
<1> DEFINE c == Back(d, FirstSize(d))
           n == FirstSize(d)
           k == Kind(d, 1)
           next == StageAfter(st, k)
<1>1. TakenFrom(c, d)
  BY Takes DEF DownOK, ServerUnit
<1> HIDE DEF c
<1>2. /\ Len(c) = Len(d) - n /\ Len(d) \in Nat /\ n \in Nat /\ n <= Len(d) /\ n >= 1
      /\ (c = <<>> <=> n = Len(d)) /\ Aligned(c) /\ (k # "Data" => n = 1)
      /\ \A i \in 1..(Len(d) - n) : Kind(c, i) = Kind(d, n + i) /\ Tag(c, i) = Tag(d, n + i)
      /\ \A i \in 1..n : Kind(d, i) = k
  BY <1>1 DEF TakenFrom, SameUnit
<1> HIDE DEF n, k
<1>3. /\ \A i \in 1..Len(d) : Tag(d, i) = t /\ MayArrive(st, Kind(d, i))
      /\ \A i \in 1..(Len(d) - 1) : Kind(d, i) \notin Terminal
      /\ st = "header" => Len(d) <= 1
  BY DEF DownOK
<1>4. 1 \in 1..Len(d) /\ Tag(d, 1) = t /\ MayArrive(st, k)
  BY <1>2, <1>3 DEF k
<1>5. k \in Terminal => Len(d) = 1 /\ n = 1 /\ c = <<>>
  <2>1. SUFFICES ASSUME k \in Terminal PROVE Len(d) = 1 /\ n = 1 /\ c = <<>>
    OBVIOUS
  <2>2. 1 \notin 1..(Len(d) - 1)
    BY <1>3, <2>1 DEF k
  <2>3. n = 1
    BY <1>2, <2>1 DEF Terminal
  <2> QED BY <1>2, <2>2, <2>3
<1>6. st = "header" => Len(d) = 1 /\ n = 1 /\ c = <<>>
  BY <1>2, <1>3
<1>7. \A i \in 1..Len(c) : Tag(c, i) = t /\ MayArrive(st, Kind(c, i))
  <2>1. ASSUME NEW i \in 1..Len(c) PROVE Tag(c, i) = t /\ MayArrive(st, Kind(c, i))
    <3>1. i \in 1..(Len(d) - n) /\ n + i \in 1..Len(d)
      BY <1>2
    <3>2. Kind(c, i) = Kind(d, n + i) /\ Tag(c, i) = Tag(d, n + i)
      BY <1>2, <3>1
    <3> QED BY <1>3, <3>1, <3>2
  <2> QED BY <2>1
<1>8. \A i \in 1..(Len(c) - 1) : Kind(c, i) \notin Terminal
  <2>1. ASSUME NEW i \in 1..(Len(c) - 1) PROVE Kind(c, i) \notin Terminal
    <3>1. i \in 1..(Len(d) - n) /\ n + i \in 1..(Len(d) - 1)
      BY <1>2
    <3>2. Kind(c, i) = Kind(d, n + i)
      BY <1>2, <3>1
    <3> QED BY <1>3, <3>1, <3>2
  <2> QED BY <2>1
<1>9. DownOK(next, c, t)
  <2>1. CASE c = <<>>
    BY <1>2, <2>1 DEF DownOK
  <2>2. CASE c # <<>>
    <3>1. next = st /\ st \notin {"hello", "header"}
      BY <1>4, <1>5, <1>6, <2>2 DEF StageAfter, MayArrive
    <3> QED BY <1>2, <1>7, <1>8, <3>1 DEF DownOK
  <2> QED BY <2>1, <2>2
<1>10. /\ NoEnd(d) => NoEnd(c) /\ k \notin Terminal
       /\ HasEnd(d) /\ k \notin Terminal => HasEnd(c)
  <2>1. ASSUME NoEnd(d) PROVE NoEnd(c) /\ k \notin Terminal
    <3>1. ASSUME NEW i \in 1..Len(c) PROVE Kind(c, i) \notin Terminal
      <4>1. i \in 1..(Len(d) - n) /\ n + i \in 1..Len(d)
        BY <1>2
      <4> QED BY <1>2, <2>1, <4>1 DEF NoEnd
    <3> QED BY <1>4, <2>1, <3>1 DEF NoEnd, k
  <2>2. ASSUME HasEnd(d), k \notin Terminal PROVE HasEnd(c)
    <3>1. n # Len(d)
      BY <1>2, <2>2 DEF HasEnd
    <3>2. Len(d) - n \in 1..(Len(d) - n) /\ n + (Len(d) - n) = Len(d) /\ c # <<>>
      BY <1>2, <3>1
    <3>3. Kind(c, Len(c)) = Kind(d, Len(d))
      BY <1>2, <3>2
    <3> QED BY <2>2, <3>2, <3>3 DEF HasEnd
  <2> QED BY <2>1, <2>2
<1>11. UpOK(next, s, c, v, t, g)
  <2>1. SUFFICES ASSUME v # "gone" PROVE PhaseOK(next, s, c, v, t, g)
    BY DEF UpOK
  <2>2. PhaseOK(st, s, d, v, t, g)
    BY <2>1 DEF UpOK
  <2>3. CASE st = "reading"
    <3>1. k # "Header"
      BY <1>4, <2>3 DEF MayArrive
    <3>2. CASE k \in Terminal
      <4>1. s = <<>> /\ v = "idle" /\ c = <<>> /\ next = "free"
        BY <1>5, <1>10, <2>2, <2>3, <3>2 DEF PhaseOK, ReadingOK, Asked, Answered, StageAfter
      <4> QED BY <4>1 DEF PhaseOK, FreeOK, Behind, LateUpTo
    <3>3. CASE k \notin Terminal
      <4>1. next = "reading"
        BY <2>3, <3>1, <3>3 DEF StageAfter
      <4> QED BY <1>10, <2>2, <2>3, <3>3, <4>1 DEF PhaseOK, ReadingOK, Asked, Answered
    <3> QED BY <3>2, <3>3
  <2>4. CASE st = "stopping"
    <3>1. k # "Header"
      BY <1>4, <2>4 DEF MayArrive
    <3>2. CASE k \in Terminal
      <4>1. /\ v = "idle" /\ c = <<>> /\ next = "free"
            /\ s = <<>> \/ (s # <<>> /\ Len(s) = 1 /\ Is(s, Len(s), "Cancel", t))
        BY <1>5, <1>10, <2>2, <2>4, <3>2 DEF PhaseOK, StoppingOK, Asked, Answered, StageAfter
      <4>2. s = <<>> => Len(s) = 0
        OBVIOUS
      <4>3. LateUpTo(s, Len(s))
        <5>1. ASSUME NEW i \in 1..Len(s) PROVE Kind(s, i) \in Late
          <6>1. s # <<>>
            BY <4>2
          <6>2. Len(s) = 1
            BY <4>1, <6>1, Zenon
          <6>3. i = Len(s)
            BY <6>2, SMT
          <6> QED BY <4>1, <6>1, <6>3 DEF Is, Late
        <5> QED BY <5>1 DEF LateUpTo
      <4> QED BY <4>1, <4>3 DEF PhaseOK, FreeOK, Behind, Is
    <3>3. CASE k \notin Terminal
      <4>1. next = "stopping"
        BY <2>4, <3>1, <3>3 DEF StageAfter
      <4> QED BY <1>10, <2>2, <2>4, <3>3, <4>1 DEF PhaseOK, StoppingOK, Asked, Answered
    <3> QED BY <3>2, <3>3
  <2>5. CASE st = "header"
    <3>1. CASE k \in Terminal
      <4>1. s = <<>> /\ v = "idle" /\ c = <<>> /\ next = "free"
        BY <1>5, <1>10, <2>2, <2>5, <3>1 DEF PhaseOK, HeaderOK, Asked, Answered, StageAfter
      <4> QED BY <4>1 DEF PhaseOK, FreeOK, Behind, LateUpTo
    <3>2. CASE k \notin Terminal
      <4>1. next = "inserting" /\ c = <<>>
        BY <1>4, <1>6, <2>5, <3>2 DEF StageAfter, MayArrive, Terminal
      <4>2. ~HasEnd(d)
        BY <1>10, <3>2, <4>1 DEF HasEnd
      <4>3. s = <<>> /\ v = "insert"
        BY <2>2, <2>5, <4>2 DEF PhaseOK, HeaderOK, Asked, Answered
      <4> QED BY <4>1, <4>3, NoEndOfNothing DEF PhaseOK, InsertingOK, BlocksUpTo, Inserting
    <3> QED BY <3>1, <3>2
  <2>6. CASE st = "finishing"
    <3>1. k # "Header"
      BY <1>4, <2>6 DEF MayArrive
    <3>2. FinishingOK(s, d, v, t)
      BY <2>2, <2>6 DEF PhaseOK
    <3>3. CASE k \in Terminal
      <4>1. c = <<>> /\ next = "free" /\ ~NoEnd(d)
        BY <1>5, <1>10, <3>3 DEF StageAfter
      <4>2. CASE s = <<>> /\ v = "idle"
        BY <4>1, <4>2 DEF PhaseOK, FreeOK, Behind, LateUpTo
      <4>3. CASE /\ s # <<>> /\ Is(s, Len(s), "DataEnd", t) /\ BlocksUpTo(s, t, Len(s) - 1)
                 /\ v = "skip"
        <5>1. LateUpTo(s, Len(s))
          <6>1. ASSUME NEW i \in 1..Len(s) PROVE Kind(s, i) \in Late
            <7>1. CASE i = Len(s)
              BY <4>3, <7>1 DEF Is, Late
            <7>2. CASE i # Len(s)
              <8>1. i \in 1..(Len(s) - 1)
                BY <7>2
              <8> QED BY <4>3, <8>1 DEF BlocksUpTo, Late
            <7> QED BY <7>1, <7>2
          <6> QED BY <6>1 DEF LateUpTo
        <5> QED BY <4>1, <4>3, <5>1 DEF PhaseOK, FreeOK, Behind, Is
      <4> QED BY <3>2, <4>1, <4>2, <4>3 DEF FinishingOK, Answered, Inserting
    <3>4. CASE k \notin Terminal
      <4>1. next = "finishing"
        BY <2>6, <3>1, <3>4 DEF StageAfter
      <4> QED BY <1>10, <3>2, <3>4, <4>1 DEF PhaseOK, FinishingOK, Answered, Inserting
    <3> QED BY <3>3, <3>4
  <2>7. CASE st = "pinged"
    <3>1. k \in Terminal
      BY <1>4, <2>7 DEF MayArrive, Terminal
    <3>2. s = <<>> /\ v = "idle" /\ c = <<>> /\ next = "free"
      BY <1>5, <2>2, <2>7, <3>1 DEF PhaseOK, PingedOK, Asked, Answered, StageAfter
    <3> QED BY <3>2 DEF PhaseOK, FreeOK, Behind, LateUpTo
  <2> QED BY <2>3, <2>4, <2>5, <2>6, <2>7
<1> QED BY <1>4, <1>9, <1>11 DEF c, k

-----------------------------------------------------------------------------
(* The two directions under the callbacks *)

\* The first element moves from b to the end of a.
LEMMA HeadMoves ==
    ASSUME NEW S, NEW a \in Seq(S), NEW b \in Seq(S), b # <<>>
    PROVE  /\ Append(a, Head(b)) \in Seq(S) /\ Tail(b) \in Seq(S)
           /\ Append(a, Head(b)) \o Tail(b) = a \o b
<1>1. Append(a, Head(b)) \in Seq(S) /\ Tail(b) \in Seq(S)
  OBVIOUS
<1>2. Append(a, Head(b)) \o Tail(b) = a \o b
  BY Z3
<1> QED BY <1>1, <1>2

\* The types of the parts and of the two directions.
LEMMA Types ==
    ASSUME TypeOK
    PROVE  /\ left \in Seq(ClientUnit) /\ sealed \in Seq(ClientUnit) /\ up \in Seq(ClientUnit)
           /\ got \in Seq(ClientUnit) /\ Up \in Seq(ClientUnit)
           /\ inb \in Seq(ServerUnit) /\ down \in Seq(ServerUnit) /\ sout \in Seq(ServerUnit)
           /\ Dn \in Seq(ServerUnit)
<1>1. /\ left \in Seq(ClientUnit) /\ sealed \in Seq(ClientUnit) /\ up \in Seq(ClientUnit)
      /\ got \in Seq(ClientUnit)
      /\ inb \in Seq(ServerUnit) /\ down \in Seq(ServerUnit) /\ sout \in Seq(ServerUnit)
  BY DEF TypeOK
<1>2. Closed(ClientUnit) /\ Closed(ServerUnit)
  BY ConcatFacts
<1>3. got \o up \in Seq(ClientUnit)
  BY <1>1, <1>2 DEF Closed
<1>4. got \o up \o sealed \in Seq(ClientUnit)
  BY <1>1, <1>2, <1>3 DEF Closed
<1>5. Up \in Seq(ClientUnit)
  BY <1>1, <1>2, <1>4 DEF Closed, Up
<1>6. inb \o down \in Seq(ServerUnit)
  BY <1>1, <1>2 DEF Closed
<1>7. Dn \in Seq(ServerUnit)
  BY <1>1, <1>2, <1>6 DEF Closed, Dn
<1> QED BY <1>1, <1>5, <1>7

\* A front part of b moves to the end of a, with c in front or without.
MovesAt(a, b, n) == (a \o Take(n, b)) \o Drop(n, b) = a \o b
InnerMovesAt(c, a, b, n) == c \o (a \o Take(n, b)) \o Drop(n, b) = c \o a \o b

\* Moving a part keeps the whole.
LEMMA PartMoves ==
    ASSUME NEW S, NEW a \in Seq(S), NEW b \in Seq(S), NEW n \in 1..Len(b)
    PROVE  /\ a \o Take(n, b) \in Seq(S) /\ Drop(n, b) \in Seq(S)
           /\ MovesAt(a, b, n)
           /\ \A c \in Seq(S) : InnerMovesAt(c, a, b, n)
<1>1. n \in 0..Len(b) /\ Take(n, b) = Front(b, n) /\ Drop(n, b) = Back(b, n)
  BY LenProperties DEF Take, Drop, Front, Back
<1>2. Front(b, n) \in Seq(S) /\ Back(b, n) \in Seq(S)
  BY <1>1, CutFact DEF Cuts
<1>3. a \o Front(b, n) \in Seq(S)
  BY <1>2, ConcatFacts DEF Closed
<1>4. ShiftAt(a, b, n)
  BY <1>1, ShiftFact DEF Shifts
<1>5. \A c \in Seq(S) : InnerShiftAt(c, a, b, n)
  BY <1>1, InnerShiftFact DEF InnerShifts
<1>6. MovesAt(a, b, n)
  BY <1>1, <1>4 DEF ShiftAt, MovesAt
<1>7. ASSUME NEW c \in Seq(S) PROVE InnerMovesAt(c, a, b, n)
  <2>1. InnerShiftAt(c, a, b, n)
    BY <1>5
  <2> QED BY <1>1, <2>1 DEF InnerShiftAt, InnerMovesAt
<1> QED BY <1>1, <1>2, <1>3, <1>6, <1>7

\* A write callback changes neither direction.
LEMMA WriteSomeMoves ==
    ASSUME TypeOK, NEW n, WriteSome(n)
    PROVE  TypeOK' /\ Up' = Up
<1>1. /\ left \in Seq(ClientUnit) /\ sealed \in Seq(ClientUnit) /\ up \in Seq(ClientUnit)
      /\ got \in Seq(ClientUnit)
  BY Types
<1>2. n \in 1..Len(left) /\ left' = Drop(n, left) /\ UNCHANGED <<tls, stage, tag, inb, down, serverVars>>
  BY DEF WriteSome
<1>3. CASE tls
  <2>1. sealed' = sealed \o Take(n, left) /\ up' = up
    BY <1>3 DEF WriteSome
  <2>2. /\ sealed' \in Seq(ClientUnit) /\ left' \in Seq(ClientUnit)
    BY <1>1, <1>2, <2>1, PartMoves
  <2>3. got \o up \in Seq(ClientUnit)
    BY <1>1, ConcatFacts DEF Closed
  <2>4. InnerMovesAt(got \o up, sealed, left, n)
    BY <1>1, <1>2, <2>3, PartMoves
  <2>5. got' = got
    BY <1>2 DEF serverVars
  <2>6. Up' = Up
    BY <1>2, <2>1, <2>4, <2>5 DEF Up, InnerMovesAt
  <2> QED BY <1>2, <1>3, <2>1, <2>2, <2>6 DEF TypeOK, serverVars
<1>4. CASE ~tls
  <2>1. up' = up \o Take(n, left) /\ sealed' = sealed /\ sealed = <<>>
    BY <1>4 DEF WriteSome, TypeOK
  <2>2. /\ up' \in Seq(ClientUnit) /\ left' \in Seq(ClientUnit)
    BY <1>1, <1>2, <2>1, PartMoves
  <2>3. InnerMovesAt(got, up, left, n)
    BY <1>1, <1>2, PartMoves
  <2>4. got' = got
    BY <1>2 DEF serverVars
  <2>5. got \o up \in Seq(ClientUnit) /\ got \o up' \in Seq(ClientUnit)
    BY <1>1, <2>2, ConcatFacts DEF Closed
  <2>6. (got \o up) \o <<>> = got \o up /\ (got \o up') \o <<>> = got \o up'
    BY <2>5, ConcatEmptySeq
  <2>7. Up' = Up
    BY <1>2, <2>1, <2>3, <2>4, <2>6 DEF Up, InnerMovesAt
  <2> QED BY <1>2, <1>4, <2>1, <2>2, <2>7 DEF TypeOK, serverVars
<1> QED BY <1>3, <1>4

\* Records written to the socket stay in the direction they are in.
LEMMA WriteRecordsMoves ==
    ASSUME TypeOK, NEW n, WriteRecords(n)
    PROVE  TypeOK' /\ Up' = Up
<1>1. /\ left \in Seq(ClientUnit) /\ sealed \in Seq(ClientUnit) /\ up \in Seq(ClientUnit)
      /\ got \in Seq(ClientUnit)
  BY Types
<1>2. /\ n \in 1..Len(sealed) /\ sealed' = Drop(n, sealed) /\ up' = up \o Take(n, sealed)
      /\ UNCHANGED <<tls, stage, tag, left, inb, down, serverVars>>
  BY DEF WriteRecords
<1>3. sealed' \in Seq(ClientUnit) /\ up' \in Seq(ClientUnit)
  BY <1>1, <1>2, PartMoves
<1>4. InnerMovesAt(got, up, sealed, n)
  BY <1>1, <1>2, PartMoves
<1>5. Up' = Up
  BY <1>2, <1>4 DEF Up, InnerMovesAt, serverVars
<1>6. ~tls => sealed' = <<>>
  <2>1. ~tls => Len(sealed) = 0
    BY DEF TypeOK
  <2> QED BY <1>2, <2>1
<1> QED BY <1>2, <1>3, <1>5, <1>6 DEF TypeOK, serverVars

\* Nor does a read callback.
LEMMA ReadSomeMoves ==
    ASSUME TypeOK, NEW n, ReadSome(n)
    PROVE  TypeOK' /\ Dn' = Dn
<1>1. inb \in Seq(ServerUnit) /\ down \in Seq(ServerUnit) /\ sout \in Seq(ServerUnit)
  BY Types
<1>2. /\ n \in 1..Len(down) /\ inb' = inb \o Take(n, down) /\ down' = Drop(n, down)
      /\ UNCHANGED <<tls, stage, tag, left, sealed, up, serverVars>>
  BY DEF ReadSome
<1>3. /\ inb' \in Seq(ServerUnit) /\ down' \in Seq(ServerUnit)
      /\ MovesAt(inb, down, n)
  BY <1>1, <1>2, PartMoves
<1>4. Dn' = Dn
  BY <1>2, <1>3 DEF Dn, MovesAt, serverVars
<1> QED BY <1>2, <1>3, <1>4 DEF TypeOK, serverVars

\* So do units the server reads.
LEMMA ServerReadsMoves ==
    ASSUME TypeOK, ServerReads
    PROVE  TypeOK' /\ Up' = Up
<1>1. up \in Seq(ClientUnit) /\ got \in Seq(ClientUnit) /\ up # <<>>
  BY Types DEF ServerReads
<1>2. /\ up' = Tail(up) /\ got' = Append(got, Head(up))
      /\ UNCHANGED <<tls, stage, tag, left, sealed, inb, down, sout, serving>>
  BY DEF ServerReads, clientVars
<1>3. up' \in Seq(ClientUnit) /\ got' \in Seq(ClientUnit) /\ got' \o up' = got \o up
  BY <1>1, <1>2, HeadMoves
<1>4. Up' = Up
  BY <1>2, <1>3 DEF Up
<1> QED BY <1>2, <1>3, <1>4 DEF TypeOK

\* And units the server writes, in the other one.
LEMMA ServerWritesMoves ==
    ASSUME TypeOK, ServerWrites
    PROVE  TypeOK' /\ Dn' = Dn
<1>1. inb \in Seq(ServerUnit) /\ down \in Seq(ServerUnit) /\ sout \in Seq(ServerUnit) /\ sout # <<>>
  BY Types DEF ServerWrites
<1>2. /\ down' = Append(down, Head(sout)) /\ sout' = Tail(sout)
      /\ UNCHANGED <<tls, stage, tag, left, sealed, up, got, inb, serving>>
  BY DEF ServerWrites, clientVars
<1>3. down' \in Seq(ServerUnit) /\ sout' \in Seq(ServerUnit) /\ down' \o sout' = down \o sout
  BY <1>1, <1>2, HeadMoves
<1>4. AssocAt(inb, down, sout) /\ AssocAt(inb, down', sout')
  BY <1>1, <1>3, ConcatFacts DEF Assoc
<1>5. Dn' = Dn
  BY <1>2, <1>3, <1>4 DEF Dn, AssocAt
<1> QED BY <1>2, <1>3, <1>5 DEF TypeOK

-----------------------------------------------------------------------------
(* The two directions under the calls and the server's answers *)

\* A call that sends starts with the message behind everything sent before.
LEMMA SendMoves ==
    ASSUME TypeOK, left = <<>>, NEW k \in ClientKind, NEW t \in Nat,
           left' = Encode(k, t), UNCHANGED <<got, up, sealed>>
    PROVE  left' \in Seq(ClientUnit) /\ Up' = Up \o Encode(k, t)
<1>1. got \in Seq(ClientUnit) /\ up \in Seq(ClientUnit) /\ sealed \in Seq(ClientUnit)
  BY Types
<1>2. got \o up \in Seq(ClientUnit)
  BY <1>1, ConcatFacts DEF Closed
<1>3. got \o up \o sealed \in Seq(ClientUnit)
  BY <1>1, <1>2, ConcatFacts DEF Closed
<1>4. got \o up \o sealed \o <<>> = got \o up \o sealed
  BY <1>3, ConcatEmptySeq
<1>5. Encode(k, t) \in Seq(ClientUnit)
  BY EncodeFacts DEF ClientUnit
<1>6. Up = got \o up \o sealed
  BY <1>4 DEF Up
<1>7. Up' = Up \o Encode(k, t)
  BY <1>6 DEF Up
<1> QED BY <1>5, <1>7

\* The front of a concatenation.
LEMMA FrontUnits ==
    ASSUME NEW S, NEW a \in Seq(S), a # <<>>, NEW b \in Seq(S)
    PROVE  /\ a \o b \in Seq(S) /\ a \o b # <<>> /\ Len(a) <= Len(a \o b)
           /\ \A i \in 1..Len(a) : (a \o b)[i] = a[i]
<1>1. Len(a) # 0 /\ Len(a) \in Nat
  BY EmptySeq, LenProperties
<1>2. /\ a \o b \in Seq(S) /\ Len(a \o b) = Len(a) + Len(b) /\ Len(b) \in Nat
      /\ \A i \in 1..Len(a) : (a \o b)[i] = a[i]
  BY ConcatAt
<1>3. Len(a \o b) # 0 /\ Len(a) <= Len(a \o b)
  BY <1>1, <1>2
<1>4. a \o b # <<>>
  BY <1>3
<1> QED BY <1>2, <1>3, <1>4

\* The decoder takes the first packet of what is on its way down.
LEMMA DecodeMoves ==
    ASSUME TypeOK, Complete, Decode, UNCHANGED <<down, sout>>
    PROVE  /\ inb' \in Seq(ServerUnit) /\ Dn # <<>>
           /\ inb[1][1] = Kind(Dn, 1) /\ inb[1][2] = Tag(Dn, 1)
           /\ Dn' = Back(Dn, FirstSize(Dn))
<1> DEFINE n == Size(inb[1][1])
<1>1. inb \in Seq(ServerUnit) /\ down \in Seq(ServerUnit) /\ sout \in Seq(ServerUnit) /\ inb # <<>>
  BY Types DEF Complete
<1>2. n \in Nat /\ n <= Len(inb) /\ Len(inb) \in Nat /\ n >= 1
  BY <1>1, SizeFacts, LenProperties DEF Complete
<1>3. inb' = Back(inb, n)
  BY DEF Decode, Drop, Back
<1> HIDE DEF n
<1>4. /\ inb \o down \in Seq(ServerUnit) /\ inb \o down # <<>> /\ Len(inb) <= Len(inb \o down)
      /\ (inb \o down)[1] = inb[1]
  <2>1. 1 \in 1..Len(inb)
    BY <1>2
  <2> QED BY <1>1, <2>1, FrontUnits
<1>5. Dn # <<>> /\ Dn[1] = inb[1]
  <2>1. 1 \in 1..Len(inb \o down)
    BY <1>4, EmptySeq, LenProperties
  <2>2. (inb \o down) \o sout # <<>> /\ ((inb \o down) \o sout)[1] = (inb \o down)[1]
    BY <1>1, <1>4, <2>1, FrontUnits
  <2> QED BY <1>4, <2>2 DEF Dn
<1>6. n \in 0..Len(inb) /\ n \in 0..Len(inb \o down)
  BY <1>2, <1>4, LenProperties
<1>7. DropAt(inb, down, n)
  BY <1>1, <1>6, DropFact DEF Drops
<1>8. DropAt(inb \o down, sout, n)
  BY <1>1, <1>4, <1>6, DropFact DEF Drops
<1>9. Dn' = Back(Dn, n)
  BY <1>3, <1>7, <1>8 DEF Dn, DropAt
<1>10. n = FirstSize(Dn) /\ inb[1][1] = Kind(Dn, 1) /\ inb[1][2] = Tag(Dn, 1)
  BY <1>5 DEF n, FirstSize, Kind, Tag
<1>11. inb' \in Seq(ServerUnit)
  BY <1>1, <1>3, <1>6, BackAt
<1> QED BY <1>5, <1>9, <1>10, <1>11

\* What the server has read is in front of what is on its way to it.
LEMMA GotFirst ==
    ASSUME TypeOK, got # <<>>
    PROVE  Up # <<>> /\ \A i \in 1..Len(got) : Up[i] = got[i]
<1>1. /\ got \in Seq(ClientUnit) /\ up \in Seq(ClientUnit) /\ sealed \in Seq(ClientUnit)
      /\ left \in Seq(ClientUnit)
  BY Types
<1> DEFINE a == got \o up
           b == a \o sealed
<1>2. /\ a \in Seq(ClientUnit) /\ a # <<>> /\ Len(got) <= Len(a)
      /\ \A i \in 1..Len(got) : a[i] = got[i]
  BY <1>1, FrontUnits
<1> HIDE DEF a
<1>3. /\ b \in Seq(ClientUnit) /\ b # <<>> /\ Len(a) <= Len(b)
      /\ \A i \in 1..Len(a) : b[i] = a[i]
  BY <1>1, <1>2, FrontUnits
<1> HIDE DEF b
<1>4. b \o left # <<>> /\ \A i \in 1..Len(b) : (b \o left)[i] = b[i]
  BY <1>1, <1>3, FrontUnits
<1>5. Up = b \o left
  BY DEF Up, a, b
<1>6. ASSUME NEW i \in 1..Len(got) PROVE Up[i] = got[i]
  <2>1. Len(got) \in Nat /\ Len(a) \in Nat /\ Len(b) \in Nat
    BY <1>1, <1>2, <1>3, LenProperties
  <2>2. i \in 1..Len(a) /\ i \in 1..Len(b)
    BY <1>2, <1>3, <2>1
  <2>3. a[i] = got[i] /\ b[i] = a[i] /\ (b \o left)[i] = b[i]
    BY <1>2, <1>3, <1>4, <2>2
  <2> QED BY <1>5, <2>3
<1> QED BY <1>4, <1>5, <1>6

\* A whole message that the server has read is the first on its way up, and it can
\* make sense of it.
LEMMA GotWhole ==
    ASSUME TypeOK, ServerOK, Aligned(Up), Whole,
           UpOK(stage, Up, Dn, srv, tag, serving), srv # "gone"
    PROVE  /\ Up # <<>> /\ Len(got) = FirstSize(Up)
           /\ got[1][1] = Kind(Up, 1) /\ got[1][2] = Tag(Up, 1)
           /\ Sensible
<1> DEFINE k == Kind(Up, 1)
           t == Tag(Up, 1)
           e == Encode(k, t)
<1>1. /\ got \in Seq(ClientUnit) /\ got # <<>> /\ Up \in Seq(ClientUnit) /\ Len(got) \in Nat
  BY Types, LenProperties DEF Whole
<1>2. Up # <<>> /\ \A i \in 1..Len(got) : Up[i] = got[i]
  BY <1>1, GotFirst
<1>3. /\ k \in ClientKind /\ t \in Nat /\ Size(k) <= Len(Up) /\ Len(Up) \in Nat
      /\ \A j \in 1..Size(k) : Kind(Up, j) = k /\ Tag(Up, j) = t /\ Place(Up, j) = j
  BY <1>1, <1>2, FirstWhole DEF ClientUnit
<1>4. 1 \in 1..Len(got)
  BY <1>1, EmptySeq
<1>5. got[1][1] = k /\ got[1][2] = t
  BY <1>2, <1>4 DEF Kind, Tag
<1>6. Len(got) = Size(k) /\ Size(k) \in Nat
  BY <1>1, <1>5, SizeFacts DEF Whole, ServerOK
<1>7. e \in Seq(ClientUnit) /\ Len(e) = Size(k) /\ \A i \in 1..Size(k) : e[i] = <<k, t, i>>
  BY <1>3, EncodeFacts DEF ClientUnit
<1>8. ASSUME NEW i \in 1..Size(k) PROVE got[i] = e[i]
  <2>1. Kind(Up, i) = k /\ Tag(Up, i) = t /\ Place(Up, i) = i
    BY <1>3
  <2>2. got[i] = Up[i] /\ got[i] \in ClientUnit
    BY <1>1, <1>2, <1>6
  <2>3. got[i] = <<got[i][1], got[i][2], got[i][3]>>
    BY <2>2 DEF ClientUnit
  <2>4. got[i][1] = k /\ got[i][2] = t /\ got[i][3] = i
    BY <2>1, <2>2 DEF Kind, Tag, Place
  <2> QED BY <1>7, <2>3, <2>4
<1>9. got = e
  <2>1. Len(got) = Len(e) /\ \A i \in 1..Len(got) : got[i] = e[i]
    BY <1>6, <1>7, <1>8
  <2> QED BY <1>1, <1>7, <2>1, SeqEqual
<1>10. Take(Len(got), e) = e
  <2>1. SubSeq(e, 1, Len(e)) = e
    BY <1>7
  <2> QED BY <1>6, <1>7, <2>1 DEF Take
<1>11. Expects(srv, k)
  BY <1>2 DEF UpOK, StartsWell
<1>12. Sensible
  BY <1>5, <1>9, <1>10, <1>11 DEF Sensible
<1> QED BY <1>2, <1>5, <1>6, <1>12 DEF FirstSize

\* The server, having taken it, has what comes behind it.
LEMMA TakeMoves ==
    ASSUME TypeOK, got' = <<>>, UNCHANGED <<up, sealed, left>>
    PROVE  Up' = Back(Up, Len(got))
<1> DEFINE n == Len(got)
           a == got \o up
           b == a \o sealed
<1>1. /\ got \in Seq(ClientUnit) /\ up \in Seq(ClientUnit) /\ sealed \in Seq(ClientUnit)
      /\ left \in Seq(ClientUnit)
  BY Types
<1>2. n \in Nat /\ n \in 0..Len(got) /\ Back(got, n) = <<>>
  <2>1. n \in Nat /\ n \in 0..Len(got)
    BY <1>1, LenProperties
  <2> QED BY <1>1, <2>1, BackAt
<1>3. a \in Seq(ClientUnit) /\ Len(a) = n + Len(up) /\ Len(up) \in Nat
  BY <1>1, ConcatAt
<1>4. DropAt(got, up, n)
  BY <1>1, <1>2, DropFact DEF Drops
<1> HIDE DEF n
<1>5. n \in 0..Len(a)
  BY <1>2, <1>3
<1>6. DropAt(a, sealed, n)
  <2> HIDE DEF a
  <2> QED BY <1>1, <1>3, <1>5, DropFact DEF Drops
<1>7. b \in Seq(ClientUnit) /\ Len(b) = Len(a) + Len(sealed) /\ Len(sealed) \in Nat /\ Len(a) \in Nat
  <2> HIDE DEF a
  <2> QED BY <1>1, <1>3, ConcatAt
<1>8. n \in 0..Len(b)
  BY <1>5, <1>7
<1>9. DropAt(b, left, n)
  <2> HIDE DEF b
  <2> QED BY <1>1, <1>7, <1>8, DropFact DEF Drops
<1>10. Back(Up, n) = ((<<>> \o up) \o sealed) \o left
  BY <1>2, <1>4, <1>6, <1>9 DEF Up, DropAt
<1>11. Up' = ((<<>> \o up) \o sealed) \o left
  BY DEF Up
<1> QED BY <1>10, <1>11 DEF n

\* Every reaction is one of the answers.
LEMMA ReactAnswers ==
    ASSUME NEW k, NEW t, React(k, t), sout = <<>>
    PROVE  \E r \in ServerKind \cup {"none"} :
              /\ Answer(srv, k, r, srv')
              /\ sout' = IF r = "none" THEN <<>> ELSE Encode(r, t)
<1> DEFINE Goal(r) == /\ Answer(srv, k, r, srv')
                      /\ sout' = IF r = "none" THEN <<>> ELSE Encode(r, t)
<1>1. \E r \in {"none", "ServerHello", "Exception", "Header", "Pong", "Progress", "EndOfStream"} : Goal(r)
  BY DEF React, Reply, Quiet, Answer
<1>2. {"none", "ServerHello", "Exception", "Header", "Pong", "Progress", "EndOfStream"}
        \subseteq ServerKind \cup {"none"}
  BY DEF ServerKind
<1> QED BY <1>1, <1>2

\* What the server says joins what is on its way down.
LEMMA ReplyMoves ==
    ASSUME TypeOK, sout = <<>>, NEW r \in ServerKind \cup {"none"}, NEW t \in Nat,
           sout' = IF r = "none" THEN <<>> ELSE Encode(r, t), UNCHANGED <<inb, down>>
    PROVE  sout' \in Seq(ServerUnit) /\ AnsweredWith(Dn', Dn, r, t)
<1>1. inb \in Seq(ServerUnit) /\ down \in Seq(ServerUnit)
  BY Types
<1>2. inb \o down \in Seq(ServerUnit)
  BY <1>1, ConcatFacts DEF Closed
<1>3. inb \o down \o <<>> = inb \o down
  BY <1>2, ConcatEmptySeq
<1>4. Dn = inb \o down
  BY <1>3 DEF Dn
<1>5. CASE r = "none"
  BY <1>5 DEF Dn, AnsweredWith
<1>6. CASE r # "none"
  <2>1. sout' = Encode(r, t) /\ Encode(r, t) \in Seq(ServerUnit)
    BY <1>6, EncodeFacts DEF ServerUnit
  <2> QED BY <1>4, <1>6, <2>1 DEF Dn, AnsweredWith
<1> QED BY <1>5, <1>6

-----------------------------------------------------------------------------
(* Every step keeps the invariant *)

\* A step that moves units within the two directions, or none.
LEMMA KeepsDirections ==
    ASSUME Directions, Up' = Up, Dn' = Dn, UNCHANGED <<stage, tag, srv, serving>>
    PROVE  Directions'
BY DEF Directions

\* A step of the client that leaves the server and the connection alone.
LEMMA ClientRests ==
    ASSUME Inv, UNCHANGED <<tls, stage, tag, left, sealed, inb, up, down, serverVars>>,
           pc' # "start",
           pc' \notin {"write", "failed", "dropped"} => left = <<>>,
           pc' = "read" => stage \in {"hello", "reading", "stopping", "header", "finishing", "pinged"}
    PROVE  Inv'
<1>1. Up' = Up /\ Dn' = Dn
  BY DEF Up, Dn, serverVars
<1>2. Directions'
  BY <1>1, KeepsDirections DEF Inv, serverVars
<1>3. TypeOK' /\ ServerOK'
  BY DEF Inv, TypeOK, ServerOK, Whole, serverVars
<1>4. CallOK'
  BY DEF Inv, CallOK
<1> QED BY <1>2, <1>3, <1>4 DEF Inv

\* Nothing is on its way at the start.
LEMMA InitInv == Init => Inv
<1>1. SUFFICES ASSUME Init PROVE Inv
  OBVIOUS
<1>2. /\ <<>> \in Seq(ClientUnit) /\ <<>> \in Seq(ServerUnit)
      /\ Up = <<>> /\ Dn = <<>>
  BY <1>1 DEF Init, Up, Dn
<1>3. TypeOK /\ CallOK /\ ServerOK
  BY <1>1, <1>2 DEF Init, TypeOK, CallOK, ServerOK, Whole, Stages
<1>4. Aligned(<<>>) /\ DownOK("hello", <<>>, 0)
  BY DEF Aligned, DownOK
<1>5. UpOK("hello", <<>>, <<>>, "greet", 0, 0)
  BY DEF UpOK, Ordered, StartsWell, PhaseOK, HelloOK
<1> QED BY <1>1, <1>2, <1>3, <1>4, <1>5 DEF Inv, Directions, Init

\* A call that sends message <<k, t>> and makes of the application's stage next.
LEMMA SendInv ==
    ASSUME Inv, pc \in {"start", "idle", "read"}, pc' = "write",
           NEW k \in ClientKind, NEW t \in Nat, left' = Encode(k, t),
           UNCHANGED <<tls, sealed, up, serverVars>>,
           inb' \in Seq(ServerUnit), down' \in Seq(ServerUnit),
           stage' \in Stages, tag' \in Nat, stage' \in {"hello", "addendum"} => tag' = 0,
           DownOK(stage', Dn', tag'),
           UpOK(stage', Up \o Encode(k, t), Dn', srv, tag', serving)
    PROVE  Inv'
<1>1. left = <<>> /\ TypeOK
  BY DEF Inv, CallOK
<1>2. left' \in Seq(ClientUnit) /\ Up' = Up \o Encode(k, t)
  BY <1>1, SendMoves DEF serverVars
<1>3. Aligned(Up')
  <2>1. Up \in Seq(ClientUnit) /\ Encode(k, t) \in Seq(ClientUnit)
    BY <1>1, Types, EncodeFacts DEF ClientUnit
  <2>2. Aligned(Up) /\ Aligned(Encode(k, t))
    BY AlignedEncode DEF Inv, Directions
  <2> QED BY <1>2, <2>1, <2>2, AlignedConcat DEF ClientUnit
<1>4. Directions'
  BY <1>2, <1>3 DEF Directions, serverVars
<1>5. TypeOK'
  BY <1>1, <1>2 DEF TypeOK, serverVars
<1>6. CallOK' /\ ServerOK'
  BY DEF Inv, CallOK, ServerOK, Whole, serverVars
<1> QED BY <1>4, <1>5, <1>6 DEF Inv

\* Nothing is on its way to an application that waits for nothing.
LEMMA NothingDown ==
    ASSUME NEW d \in Seq(ServerUnit), NEW t, NEW st \in {"addendum", "free"}, DownOK(st, d, t)
    PROVE  d = <<>>
<1>1. \A i \in 1..Len(d) : FALSE
  BY DEF DownOK, MayArrive
<1>2. Len(d) \in Nat
  BY LenProperties
<1>3. Len(d) = 0
  BY <1>1, <1>2
<1> QED BY <1>3, EmptySeq

\* Nothing on its way down fits every stage.
LEMMA DownOfNothing ==
    ASSUME NEW st, NEW t PROVE DownOK(st, <<>>, t)
BY DEF DownOK, Aligned

\* init writes Hello, or fails on its options.
LEMMA InitCallInv == ASSUME Inv, init PROVE Inv'
<1>1. /\ pc = "start" /\ UNCHANGED <<tls, stage, tag, sealed, inb, up, down, serverVars>>
  BY DEF init, wireVars
<1>2. stage = "hello" /\ srv = "greet" /\ Up = <<>> /\ tag = 0 /\ left = <<>>
  BY <1>1 DEF Inv, CallOK
<1>3. CASE pc' = "failed" /\ UNCHANGED left
  BY <1>1, <1>3, ClientRests
<1>4. CASE pc' = "write" /\ left' = Encode("Hello", 0)
  <2>1. Dn' = Dn /\ Dn \in Seq(ServerUnit) /\ Up \in Seq(ClientUnit)
    BY <1>1, Types DEF Dn, Inv, serverVars
  <2>2. HelloOK(Up, Dn, srv)
    BY <1>2 DEF Inv, Directions, UpOK, PhaseOK
  <2>3. Dn = <<>>
    BY <1>2, <2>2 DEF HelloOK
  <2>4. UpOK("hello", Up \o Encode("Hello", 0), Dn, srv, 0, serving)
    BY <1>2, <2>1, <2>3, HandshakeOK
  <2>5. "Hello" \in ClientKind /\ 0 \in Nat /\ inb \in Seq(ServerUnit) /\ down \in Seq(ServerUnit) /\ "hello" \in Stages
    BY Types DEF ClientKind, Inv, Stages
  <2>6. DownOK("hello", Dn, 0)
    BY <2>3, DownOfNothing
  <2> QED BY <1>1, <1>2, <1>4, <2>1, <2>4, <2>5, <2>6, SendInv
<1> QED BY <1>3, <1>4 DEF init

\* The calls of an idle application that send.
LEMMA SendCallInv ==
    ASSUME Inv, NEW k \in ClientKind, NEW t \in Nat, NEW next \in Stages \ {"hello", "addendum"},
           Send(k, t, next), DownOK(next, Dn, t),
           UpOK(next, Up \o Encode(k, t), Dn, srv, t, serving)
    PROVE  Inv'
<1>1. /\ pc = "idle" /\ pc' = "write" /\ left' = Encode(k, t) /\ stage' = next /\ tag' = t
      /\ UNCHANGED <<tls, sealed, inb, up, down, serverVars>>
  BY DEF Send, wireVars
<1>2. Dn' = Dn /\ inb' \in Seq(ServerUnit) /\ down' \in Seq(ServerUnit)
  BY <1>1, Types DEF Dn, Inv, serverVars
<1> QED BY <1>1, <1>2, SendInv

\* send_query and send_ping find the application free.
LEMMA AskInv == ASSUME Inv, send_query \/ send_ping PROVE Inv'
<1>1. stage = "free" /\ tag \in Nat /\ tag + 1 \in Nat /\ Up \in Seq(ClientUnit) /\ Dn \in Seq(ServerUnit)
  BY Types DEF send_query, send_ping, Inv, TypeOK
<1>2. DownOK("free", Dn, tag) /\ UpOK("free", Up, Dn, srv, tag, serving)
  BY <1>1 DEF Inv, Directions
<1>3. Dn = <<>>
  BY <1>1, <1>2, NothingDown
<1>4. ASSUME NEW k \in Asks, Send(k, tag + 1, AskStage(k)) PROVE Inv'
  <2>1. UpOK(AskStage(k), Up \o Encode(k, tag + 1), Dn, srv, tag + 1, serving)
    BY <1>1, <1>2, AskOK
  <2>2. DownOK(AskStage(k), Dn, tag + 1)
    BY <1>3, DownOfNothing
  <2>3. k \in ClientKind /\ AskStage(k) \in Stages \ {"hello", "addendum"}
    BY DEF Asks, ClientKind, AskStage, Stages
  <2> QED BY <1>1, <1>4, <2>1, <2>2, <2>3, SendCallInv
<1>5. \/ Send("Select", tag + 1, "reading") \/ Send("Insert", tag + 1, "header")
      \/ Send("Ping", tag + 1, "pinged")
  BY Zenon DEF send_query, send_ping
<1>6. /\ AskStage("Select") = "reading" /\ AskStage("Insert") = "header"
      /\ AskStage("Ping") = "pinged" /\ {"Select", "Insert", "Ping"} = Asks
  BY DEF AskStage, Asks
<1> QED BY <1>4, <1>5, <1>6

\* send_cancel, while the SELECT may be at its end already.
LEMMA CancelInv == ASSUME Inv, send_cancel PROVE Inv'
<1>1. stage = "reading" /\ tag \in Nat /\ Up \in Seq(ClientUnit) /\ Send("Cancel", tag, "stopping")
  BY Types DEF send_cancel, Inv, TypeOK
<1>2. DownOK("reading", Dn, tag) /\ UpOK("reading", Up, Dn, srv, tag, serving)
  BY <1>1 DEF Inv, Directions
<1>3. UpOK("stopping", Up \o Encode("Cancel", tag), Dn, srv, tag, serving)
  BY <1>1, <1>2, CancelOK
<1>4. DownOK("stopping", Dn, tag)
  BY <1>2 DEF DownOK, MayArrive
<1>5. "Cancel" \in ClientKind /\ "stopping" \in Stages \ {"hello", "addendum"}
  BY DEF ClientKind, Stages
<1> QED BY <1>1, <1>3, <1>4, <1>5, SendCallInv

\* send_data and the end of the rows, while the server may have refused them.
LEMMA BlockInv == ASSUME Inv, send_data \/ send_data_end PROVE Inv'
<1>1. stage = "inserting" /\ tag \in Nat /\ Up \in Seq(ClientUnit)
  BY Types DEF send_data, send_data_end, Inv, TypeOK
<1>2. DownOK("inserting", Dn, tag) /\ UpOK("inserting", Up, Dn, srv, tag, serving)
  BY <1>1 DEF Inv, Directions
<1>3. ASSUME NEW k \in {"Data", "DataEnd"}, NEW next,
             next = IF k = "Data" THEN "inserting" ELSE "finishing", Send(k, tag, next)
      PROVE  Inv'
  <2>1. UpOK(next, Up \o Encode(k, tag), Dn, srv, tag, serving)
    BY <1>1, <1>2, <1>3, BlockOK
  <2>2. DownOK(next, Dn, tag)
    BY <1>2, <1>3 DEF DownOK, MayArrive
  <2>3. k \in ClientKind /\ next \in Stages \ {"hello", "addendum"}
    BY <1>3 DEF ClientKind, Stages
  <2> QED BY <1>1, <1>3, <2>1, <2>2, <2>3, SendCallInv
<1>4. CASE send_data
  BY <1>3, <1>4 DEF send_data
<1>5. CASE send_data_end
  BY <1>3, <1>5 DEF send_data_end
<1> QED BY <1>4, <1>5

\* With the addendum on its way, the client is free.
LEMMA AddendumSent ==
    ASSUME NEW s, NEW d \in Seq(ServerUnit), NEW v, NEW t, NEW g,
           DownOK("addendum", d, t), UpOK("addendum", s, d, v, t, g)
    PROVE  DownOK("free", d, t) /\ UpOK("free", s, d, v, t, g)
<1>1. d = <<>>
  BY NothingDown
<1>2. DownOK("free", d, t)
  BY <1>1, DownOfNothing
<1>3. ASSUME v # "gone" PROVE FreeOK(s, d, v)
  <2>1. AddendumOK(s, d, v)
    BY <1>3 DEF UpOK, PhaseOK
  <2>2. CASE Len(s) = 1 /\ Is(s, 1, "Addendum", 0) /\ v = "addendum"
    <3>1. s # <<>>
      <4>1. s = <<>> => Len(s) = 0
        OBVIOUS
      <4>2. Len(s) # 0
        BY <2>2
      <4> QED BY <4>1, <4>2, Zenon
    <3>2. LateUpTo(s, Len(s))
      BY <2>2 DEF LateUpTo, Is, Late
    <3> QED BY <1>1, <2>2, <3>1, <3>2 DEF FreeOK, Behind, Is
  <2>3. CASE s = <<>> /\ v = "idle"
    BY <1>1, <2>3 DEF FreeOK, Behind, LateUpTo
  <2> QED BY <2>1, <2>2, <2>3 DEF AddendumOK
<1>4. UpOK("free", s, d, v, t, g)
  BY <1>3 DEF UpOK, PhaseOK
<1> QED BY <1>2, <1>4

\* A send is complete and its call goes on or returns.
LEMMA SentInv ==
    ASSUME Inv, pc \in {"write", "flush"}, left = <<>>, AfterSend,
           UNCHANGED <<tls, tag, left, sealed, inb, up, down, serverVars>>
    PROVE  Inv'
<1>1. CASE stage = "hello"
  BY <1>1, ClientRests DEF AfterSend
<1>2. CASE stage \notin {"hello", "addendum"}
  BY <1>2, ClientRests DEF AfterSend
<1>3. CASE stage = "addendum"
  <2>1. Up' = Up /\ Dn' = Dn /\ Dn \in Seq(ServerUnit) /\ stage' = "free" /\ pc' = "idle"
    BY <1>3, Types DEF Up, Dn, serverVars, AfterSend, Inv
  <2>2. DownOK("free", Dn, tag) /\ UpOK("free", Up, Dn, srv, tag, serving)
    BY <1>3, <2>1, AddendumSent DEF Inv, Directions
  <2>3. Directions'
    BY <2>1, <2>2 DEF Inv, Directions, serverVars
  <2>4. TypeOK' /\ ServerOK'
    BY <2>1 DEF Inv, TypeOK, ServerOK, Whole, Stages, serverVars
  <2>5. CallOK'
    BY <2>1 DEF CallOK
  <2> QED BY <2>3, <2>4, <2>5 DEF Inv
<1> QED BY <1>1, <1>2, <1>3

\* In the handshake the server says one thing: it goes on, or it is gone.
LEMMA HandshakeReceived ==
    ASSUME NEW s \in Seq(ClientUnit), NEW d \in Seq(ServerUnit), d # <<>>, NEW v, NEW t, NEW g,
           DownOK("hello", d, t), UpOK("hello", s, d, v, t, g)
    PROVE  /\ Back(d, FirstSize(d)) = <<>>
           /\ v # "gone" => s = <<>> /\ v = "addendum" /\ Kind(d, 1) = "ServerHello"
<1>1. TakenFrom(Back(d, FirstSize(d)), d)
  BY Takes DEF DownOK, ServerUnit
<1>2. Len(d) <= 1 /\ Len(d) \in Nat
  BY LenProperties DEF DownOK
<1>3. Back(d, FirstSize(d)) = <<>>
  BY <1>1, <1>2 DEF TakenFrom
<1>4. v # "gone" => HelloOK(s, d, v)
  BY DEF UpOK, PhaseOK
<1> QED BY <1>3, <1>4 DEF HelloOK

\* init takes ServerHello and writes the addendum.
LEMMA GreetedInv == ASSUME Inv, Greeted PROVE Inv'
<1>1. /\ pc = "read" /\ stage = "hello" /\ Complete /\ Decode /\ inb[1][1] = "ServerHello"
      /\ pc' = "write" /\ stage' = "addendum" /\ left' = Encode("Addendum", 0)
      /\ UNCHANGED <<tls, tag, sealed, up, down, serverVars>> /\ UNCHANGED <<down, sout>>
  BY DEF Greeted, wireVars, serverVars
<1>2. /\ inb' \in Seq(ServerUnit) /\ Dn # <<>> /\ Dn' = Back(Dn, FirstSize(Dn))
  BY <1>1, DecodeMoves DEF Inv
<1>3. /\ Up \in Seq(ClientUnit) /\ Dn \in Seq(ServerUnit) /\ tag = 0 /\ down \in Seq(ServerUnit)
  BY <1>1, Types DEF Inv, CallOK
<1>4. DownOK("hello", Dn, tag) /\ UpOK("hello", Up, Dn, srv, tag, serving)
  BY <1>1 DEF Inv, Directions
<1>5. Dn' = <<>> /\ (srv # "gone" => Up = <<>> /\ srv = "addendum")
  BY <1>2, <1>3, <1>4, HandshakeReceived
<1>6. UpOK("addendum", Up \o Encode("Addendum", 0), Dn', srv, 0, serving)
  <2>1. CASE srv = "gone"
    BY <2>1 DEF UpOK
  <2>2. CASE srv # "gone"
    BY <1>3, <1>5, <2>2, HandshakeOK
  <2> QED BY <2>1, <2>2
<1>7. DownOK("addendum", Dn', 0)
  BY <1>5, DownOfNothing
<1>8. "Addendum" \in ClientKind /\ 0 \in Nat /\ "addendum" \in Stages
  BY DEF ClientKind, Stages
<1> QED BY <1>1, <1>2, <1>3, <1>6, <1>7, <1>8, SendInv

\* A step that takes a packet and sends nothing.
LEMMA TakenInv ==
    ASSUME Inv, pc = "read", pc' \in {"idle", "failed"}, inb' \in Seq(ServerUnit),
           UNCHANGED <<tls, tag, left, sealed, up, down, serverVars>>,
           stage' \in Stages, stage' \in {"hello", "addendum"} => tag = 0,
           DownOK(stage', Dn', tag), UpOK(stage', Up, Dn', srv, tag, serving)
    PROVE  Inv'
<1>1. Up' = Up
  BY DEF Up, serverVars
<1>2. Directions'
  BY <1>1 DEF Inv, Directions, serverVars
<1>3. TypeOK' /\ ServerOK'
  BY DEF Inv, TypeOK, ServerOK, Whole, serverVars
<1>4. CallOK'
  BY DEF Inv, CallOK
<1> QED BY <1>2, <1>3, <1>4 DEF Inv

\* init takes the exception of a server that is then gone.
LEMMA RejectedInv == ASSUME Inv, Rejected PROVE Inv'
<1>1. /\ pc = "read" /\ stage = "hello" /\ Complete /\ Decode /\ inb[1][1] = "Exception"
      /\ pc' = "failed"
      /\ UNCHANGED <<tls, stage, tag, left, sealed, up, down, serverVars>> /\ UNCHANGED <<down, sout>>
  BY DEF Rejected, wireVars, serverVars
<1>2. /\ inb' \in Seq(ServerUnit) /\ Dn # <<>> /\ Dn' = Back(Dn, FirstSize(Dn))
      /\ Kind(Dn, 1) = "Exception"
  BY <1>1, DecodeMoves DEF Inv
<1>3. Up \in Seq(ClientUnit) /\ Dn \in Seq(ServerUnit) /\ tag = 0
  BY <1>1, Types DEF Inv, CallOK
<1>4. DownOK("hello", Dn, tag) /\ UpOK("hello", Up, Dn, srv, tag, serving)
  BY <1>1 DEF Inv, Directions
<1>5. Dn' = <<>> /\ srv = "gone"
  BY <1>2, <1>3, <1>4, HandshakeReceived
<1>6. DownOK("hello", Dn', tag) /\ UpOK("hello", Up, Dn', srv, tag, serving)
  BY <1>5, DownOfNothing DEF UpOK
<1>7. "hello" \in Stages
  BY DEF Stages
<1> QED BY <1>1, <1>2, <1>3, <1>6, <1>7, TakenInv

\* Where the client waits, the packet it gets is of its query.
LEMMA EventInv ==
    ASSUME Inv, EventReturned
    PROVE  Inv' /\ inb[1][2] = tag /\ stage \notin {"free", "inserting"}
<1>1. /\ pc = "read" /\ stage # "hello" /\ Complete /\ Decode /\ pc' = "idle"
      /\ UNCHANGED <<tls, tag, left, sealed, up, down, serverVars>> /\ UNCHANGED <<down, sout>>
  BY DEF EventReturned, wireVars, serverVars
<1>2. stage \in {"reading", "stopping", "header", "finishing", "pinged"}
  BY <1>1 DEF Inv, CallOK
<1>3. /\ inb' \in Seq(ServerUnit) /\ Dn # <<>> /\ Dn' = Back(Dn, FirstSize(Dn))
      /\ inb[1][1] = Kind(Dn, 1) /\ inb[1][2] = Tag(Dn, 1)
  BY <1>1, DecodeMoves DEF Inv
<1>4. Up \in Seq(ClientUnit) /\ Dn \in Seq(ServerUnit) /\ tag \in Nat
  BY Types DEF Inv, TypeOK
<1>5. DownOK(stage, Dn, tag) /\ UpOK(stage, Up, Dn, srv, tag, serving)
  BY DEF Inv, Directions
<1> DEFINE next == StageAfter(stage, Kind(Dn, 1))
<1>6. DownOK(next, Dn', tag) /\ UpOK(next, Up, Dn', srv, tag, serving) /\ Tag(Dn, 1) = tag
  BY <1>2, <1>3, <1>4, <1>5, Received
<1>7. stage' = next
  <2>1. CASE inb[1][1] = "Unknown"
    BY <1>3, <2>1 DEF EventReturned, StageAfter, Terminal
  <2>2. CASE inb[1][1] # "Unknown"
    BY <1>3, <2>2 DEF EventReturned, NextStage, StageAfter, Terminal
  <2> QED BY <2>1, <2>2
<1>8. next \in Stages /\ next \notin {"hello", "addendum"}
  BY <1>2 DEF StageAfter, Stages
<1>9. Inv'
  BY <1>1, <1>3, <1>6, <1>7, <1>8, TakenInv
<1> QED BY <1>2, <1>3, <1>6, <1>9

\* A unit moves to the server, which has at most one message.
LEMMA ServerReadsInv == ASSUME Inv, ServerReads PROVE Inv'
<1>1. TypeOK' /\ Up' = Up
  BY ServerReadsMoves DEF Inv
<1>2. /\ up # <<>> /\ sout = <<>> /\ ~Whole /\ got' = Append(got, Head(up))
      /\ UNCHANGED <<pc, stage, tag, left, inb, down, srv, serving, sout>>
  BY DEF ServerReads, clientVars
<1>3. Directions'
  <2>1. Dn' = Dn
    BY <1>2 DEF Dn
  <2> QED BY <1>1, <1>2, <2>1, KeepsDirections DEF Inv
<1>4. CallOK'
  BY <1>1, <1>2 DEF Inv, CallOK
<1>5. ASSUME got' # <<>> PROVE Len(got') <= Size(got'[1][1])
  <2>1. got \in Seq(ClientUnit) /\ Head(up) \in ClientUnit /\ Len(got) \in Nat
    BY <1>2, Types, LenProperties DEF Inv
  <2>2. Len(got') = Len(got) + 1
    BY <1>2, <2>1
  <2>3. CASE got = <<>>
    <3>1. Len(got') = 1
      BY <2>2, <2>3
    <3> QED BY <3>1, SizeFacts
  <2>4. CASE got # <<>>
    <3>1. ~(Len(got) >= Size(got[1][1])) /\ Size(got[1][1]) \in Nat
      BY <1>2, <2>4, SizeFacts DEF Whole
    <3>2. 1 \in 1..Len(got)
      BY <2>1, <2>4, EmptySeq
    <3>3. got'[1] = got[1]
      BY <1>2, <2>1, <3>2
    <3> QED BY <2>1, <2>2, <3>1, <3>3
  <2> QED BY <2>3, <2>4
<1>6. ServerOK'
  BY <1>2, <1>5 DEF ServerOK
<1> QED BY <1>1, <1>3, <1>4, <1>6 DEF Inv

\* A unit moves to the connection.
LEMMA ServerWritesInv == ASSUME Inv, ServerWrites PROVE Inv'
<1>1. TypeOK' /\ Dn' = Dn
  BY ServerWritesMoves DEF Inv
<1>2. sout # <<>> /\ UNCHANGED <<pc, stage, tag, left, sealed, up, srv, serving, got>>
  BY DEF ServerWrites, clientVars
<1>3. Up' = Up
  BY <1>2 DEF Up
<1>4. Directions'
  BY <1>1, <1>2, <1>3, KeepsDirections DEF Inv
<1>5. CallOK' /\ ServerOK'
  BY <1>2, <1>3 DEF Inv, CallOK, ServerOK, Whole
<1> QED BY <1>1, <1>4, <1>5 DEF Inv

\* The server takes a message and answers.
LEMMA ServerActsInv == ASSUME Inv, ServerActs PROVE Inv'
<1> DEFINE k == Kind(Up, 1)
           t == Tag(Up, 1)
<1>1. /\ Whole /\ srv # "gone" /\ sout = <<>>
      /\ UNCHANGED <<tls, pc, stage, tag, left, sealed, inb, up, down>>
  BY DEF ServerActs, clientVars, wireVars, Inv, ServerOK
<1>2. /\ TypeOK /\ Aligned(Up) /\ DownOK(stage, Dn, tag)
      /\ UpOK(stage, Up, Dn, srv, tag, serving)
  BY DEF Inv, Directions
<1>3. /\ Up # <<>> /\ Len(got) = FirstSize(Up) /\ Sensible
      /\ got[1][1] = k /\ got[1][2] = t
  BY <1>1, <1>2, GotWhole DEF Inv
<1>4. got' = <<>> /\ serving' = t /\ React(k, t)
  BY <1>3, Zenon DEF ServerActs
<1>5. Up \in Seq(ClientUnit) /\ Dn \in Seq(ServerUnit) /\ stage \in Stages /\ tag \in Nat
  BY <1>2, Types DEF TypeOK
<1>6. k \in ClientKind /\ t \in Nat
  BY <1>2, <1>3, <1>5, FirstWhole DEF ClientUnit
<1>7. PICK r \in ServerKind \cup {"none"} :
         /\ Answer(srv, k, r, srv')
         /\ sout' = IF r = "none" THEN <<>> ELSE Encode(r, t)
  BY <1>1, <1>4, ReactAnswers
<1>8. sout' \in Seq(ServerUnit) /\ AnsweredWith(Dn', Dn, r, t)
  BY <1>1, <1>2, <1>6, <1>7, ReplyMoves
<1>9. Up' = Back(Up, FirstSize(Up))
  BY <1>1, <1>2, <1>3, <1>4, TakeMoves
<1>10. stage \in {"hello", "addendum"} => tag = 0
  BY DEF Inv, CallOK
<1>11. DownOK(stage, Dn', tag) /\ UpOK(stage, Up', Dn', srv', tag, t)
  BY <1>1, <1>2, <1>3, <1>5, <1>7, <1>8, <1>9, <1>10, Served
<1>12. Aligned(Up')
  BY <1>2, <1>3, <1>5, <1>9, AlignedBack DEF FirstSize, ClientUnit
<1>13. Directions'
  BY <1>1, <1>4, <1>11, <1>12 DEF Directions
<1>14. TypeOK'
  <2>1. <<>> \in Seq(ClientUnit)
    OBVIOUS
  <2> QED BY <1>1, <1>2, <1>4, <1>6, <1>8, <2>1 DEF TypeOK
<1>15. CallOK'
  <2>1. pc # "start"
    BY <1>3 DEF Inv, CallOK
  <2> QED BY <1>1, <2>1 DEF Inv, CallOK
<1>16. ServerOK'
  BY <1>4 DEF ServerOK, Whole
<1> QED BY <1>13, <1>14, <1>15, <1>16 DEF Inv

\* A SELECT goes on, or ends, of which nothing on its way told yet.
LEMMA ServerProducesInv == ASSUME Inv, ServerProduces PROVE Inv'
<1>1. /\ srv = "select" /\ sout = <<>> /\ ~Whole
      /\ UNCHANGED <<tls, pc, stage, tag, left, sealed, inb, up, down, serving, got>>
  BY DEF ServerProduces, clientVars, wireVars
<1>2. \E r \in ServerKind :
         /\ sout' = Encode(r, serving)
         /\ \/ r \in {"Data", "Progress", "Unknown"} /\ srv' = "select"
            \/ r \in {"EndOfStream", "Exception"} /\ srv' = "idle"
  <2>1. {"Data", "Progress", "Unknown", "EndOfStream", "Exception"} \subseteq ServerKind
    BY DEF ServerKind
  <2> QED BY <2>1 DEF ServerProduces, Reply
<1>3. PICK r \in ServerKind :
         /\ sout' = Encode(r, serving)
         /\ \/ r \in {"Data", "Progress", "Unknown"} /\ srv' = "select"
            \/ r \in {"EndOfStream", "Exception"} /\ srv' = "idle"
  BY <1>2
<1>4. /\ TypeOK /\ Aligned(Up) /\ DownOK(stage, Dn, tag)
      /\ UpOK(stage, Up, Dn, "select", tag, serving)
  BY <1>1 DEF Inv, Directions
<1>5. Dn \in Seq(ServerUnit) /\ stage \in Stages /\ tag \in Nat /\ serving \in Nat
  BY <1>4, Types DEF TypeOK
<1>6. r # "none"
  BY <1>3
<1>7. sout' \in Seq(ServerUnit) /\ Dn' = Dn \o Encode(r, serving)
  BY <1>1, <1>3, <1>4, <1>5, <1>6, ReplyMoves DEF AnsweredWith
<1>8. /\ DownOK(stage, Dn \o Encode(r, serving), tag)
      /\ UpOK(stage, Up, Dn \o Encode(r, serving), srv', tag, serving)
  BY <1>3, <1>4, <1>5, Produced
<1>9. Up' = Up
  BY <1>1 DEF Up
<1>10. Directions'
  BY <1>1, <1>4, <1>7, <1>8, <1>9 DEF Directions
<1>11. TypeOK'
  BY <1>1, <1>4, <1>7 DEF TypeOK
<1>12. CallOK' /\ ServerOK'
  BY <1>1 DEF Inv, CallOK, ServerOK, Whole
<1> QED BY <1>10, <1>11, <1>12 DEF Inv

\* Of a server that is gone nothing is asked.
LEMMA ServerClosesInv == ASSUME Inv, ServerCloses PROVE Inv'
<1>1. /\ srv' = "gone" /\ pc # "start"
      /\ UNCHANGED <<tls, pc, stage, tag, left, sealed, inb, up, down, serving, got, sout>>
  BY DEF ServerCloses, clientVars, wireVars
<1>2. Up' = Up /\ Dn' = Dn
  BY <1>1 DEF Up, Dn
<1>3. Directions'
  BY <1>1, <1>2 DEF Inv, Directions, UpOK
<1>4. TypeOK' /\ CallOK' /\ ServerOK'
  BY <1>1 DEF Inv, TypeOK, CallOK, ServerOK, Whole
<1> QED BY <1>3, <1>4 DEF Inv

\* A callback that moves units keeps where everyone stands.
LEMMA CallbackInv ==
    ASSUME Inv, TypeOK', Up' = Up, Dn' = Dn,
           UNCHANGED <<pc, stage, tag, srv, serving, got, sout>>,
           pc \in {"write", "flush", "read"}, pc # "write" => left' = left
    PROVE  Inv'
<1>1. Directions'
  BY KeepsDirections DEF Inv
<1>2. CallOK' /\ ServerOK'
  BY DEF Inv, CallOK, ServerOK, Whole
<1> QED BY <1>1, <1>2 DEF Inv

\* The callbacks move units and change nothing else.
LEMMA MovesInv ==
    ASSUME Inv, NEW n, WriteSome(n) \/ WriteRecords(n) \/ ReadSome(n)
    PROVE  Inv'
<1>1. CASE WriteSome(n)
  <2>1. TypeOK' /\ Up' = Up
    BY <1>1, WriteSomeMoves DEF Inv
  <2>2. Dn' = Dn
    BY <1>1 DEF WriteSome, Dn, serverVars
  <2> QED BY <1>1, <2>1, <2>2, CallbackInv DEF WriteSome, serverVars
<1>2. CASE WriteRecords(n)
  <2>1. TypeOK' /\ Up' = Up
    BY <1>2, WriteRecordsMoves DEF Inv
  <2>2. Dn' = Dn
    BY <1>2 DEF WriteRecords, Dn, serverVars
  <2> QED BY <1>2, <2>1, <2>2, CallbackInv DEF WriteRecords, serverVars
<1>3. CASE ReadSome(n)
  <2>1. TypeOK' /\ Dn' = Dn
    BY <1>3, ReadSomeMoves DEF Inv
  <2>2. Up' = Up
    BY <1>3 DEF ReadSome, Up, serverVars
  <2> QED BY <1>3, <2>1, <2>2, CallbackInv DEF ReadSome, serverVars
<1> QED BY <1>1, <1>2, <1>3

\* One case per action.
LEMMA StepInv == Inv /\ [Next]_vars => Inv'
<1>1. SUFFICES ASSUME Inv, [Next]_vars PROVE Inv'
  OBVIOUS
<1>2. CASE UNCHANGED vars
  <2>1. UNCHANGED <<tls, pc, stage, tag, left, sealed, inb, up, down, srv, serving, got, sout>>
    BY <1>2 DEF vars, clientVars, wireVars, serverVars
  <2> QED BY <1>1, <2>1 DEF Inv, TypeOK, CallOK, ServerOK, Directions, Whole, Up, Dn
<1>3. CASE Over
  <2>1. UNCHANGED <<tls, pc, stage, tag, left, sealed, inb, up, down, srv, serving, got, sout>>
    BY <1>3 DEF Over, vars, clientVars, wireVars, serverVars
  <2> QED BY <1>1, <2>1 DEF Inv, TypeOK, CallOK, ServerOK, Directions, Whole, Up, Dn
<1>4. CASE init
  BY <1>1, <1>4, InitCallInv
<1>5. CASE send_query \/ send_ping
  BY <1>1, <1>5, AskInv
<1>6. CASE send_data \/ send_data_end
  BY <1>1, <1>6, BlockInv
<1>7. CASE send_cancel
  BY <1>1, <1>7, CancelInv
<1>8. CASE recv_event
  <2>1. /\ pc = "idle" /\ pc' = "read" /\ stage \in {"reading", "stopping", "header", "finishing", "pinged"}
        /\ UNCHANGED <<tls, stage, tag, left, sealed, inb, up, down, serverVars>>
    BY <1>8 DEF recv_event, wireVars
  <2>2. left = <<>>
    BY <1>1, <2>1 DEF Inv, CallOK
  <2> QED BY <1>1, <2>1, <2>2, ClientRests
<1>9. CASE DropClient \/ WriteFails \/ ReadFails
  <2>1. /\ pc' \in {"failed", "dropped"}
        /\ UNCHANGED <<tls, stage, tag, left, sealed, inb, up, down, serverVars>>
    BY <1>9 DEF DropClient, WriteFails, ReadFails, wireVars
  <2> QED BY <1>1, <2>1, ClientRests
<1>10. CASE \/ \E n \in 1..BlockUnits : WriteSome(n) \/ WriteRecords(n)
            \/ \E n \in 1..DownCap : ReadSome(n)
  BY <1>1, <1>10, MovesInv
<1>11. CASE WriteDone
  <2>1. /\ pc = "write" /\ left = <<>> /\ UNCHANGED <<tls, tag, left, sealed, inb, up, down, serverVars>>
    BY <1>11 DEF WriteDone, wireVars
  <2>2. CASE tls
    <3>1. pc' = "flush" /\ stage' = stage
      BY <1>11, <2>2 DEF WriteDone
    <3> QED BY <1>1, <2>1, <3>1, ClientRests
  <2>3. CASE ~tls
    <3>1. AfterSend
      BY <1>11, <2>3 DEF WriteDone
    <3> QED BY <1>1, <2>1, <3>1, SentInv
  <2> QED BY <2>2, <2>3
<1>12. CASE FlushDone
  <2>1. /\ pc = "flush" /\ AfterSend /\ UNCHANGED <<tls, tag, left, sealed, inb, up, down, serverVars>>
    BY <1>12 DEF FlushDone, wireVars
  <2>2. left = <<>>
    BY <1>1, <2>1 DEF Inv, CallOK
  <2> QED BY <1>1, <2>1, <2>2, SentInv
<1>13. CASE Greeted
  BY <1>1, <1>13, GreetedInv
<1>14. CASE Rejected
  BY <1>1, <1>14, RejectedInv
<1>15. CASE EventReturned
  BY <1>1, <1>15, EventInv
<1>16. CASE ServerReads
  BY <1>1, <1>16, ServerReadsInv
<1>17. CASE ServerActs
  BY <1>1, <1>17, ServerActsInv
<1>18. CASE ServerProduces
  BY <1>1, <1>18, ServerProducesInv
<1>19. CASE ServerWrites
  BY <1>1, <1>19, ServerWritesInv
<1>20. CASE ServerCloses
  BY <1>1, <1>20, ServerClosesInv
<1>21. CASE NetworkBreaks
  <2>1. UNCHANGED <<tls, pc, stage, tag, left, sealed, inb, up, down, srv, serving, got, sout>>
    BY <1>21 DEF NetworkBreaks, clientVars, serverVars
  <2> QED BY <1>1, <2>1 DEF Inv, TypeOK, CallOK, ServerOK, Directions, Whole, Up, Dn
<1>22. CASE Application
  BY <1>3, <1>4, <1>5, <1>6, <1>7, <1>8, <1>9, <1>22 DEF Application
<1>23. CASE Callbacks
  BY <1>9, <1>10, <1>11, <1>12, <1>13, <1>14, <1>15, <1>23 DEF Callbacks
<1>24. CASE Server
  BY <1>16, <1>17, <1>18, <1>19, <1>24 DEF Server
<1> QED BY <1>1, <1>2, <1>20, <1>21, <1>22, <1>23, <1>24 DEF Next

-----------------------------------------------------------------------------
(* What the invariant shows *)

\* The two directions stand to the application and the server as they should, in
\* every state: the invariant of BlockingClient.
THEOREM Invariance == Spec => []Inv
<1>1. Init => Inv
  BY InitInv
<1>2. Inv /\ [Next]_vars => Inv'
  BY StepInv
<1> QED BY <1>1, <1>2, PTL DEF Spec

\* Whatever the application sends, in the order its calls allow, and however the
\* callbacks cut it, the server reads whole messages that it has a meaning for
\* where it stands, also behind a Cancel that came too late and behind the blocks
\* of an INSERT it has already refused (tls.rs:151, io.rs:36).
THEOREM NeverConfused == Spec => []ServerNeverConfused
<1>1. Inv => ServerNeverConfused
  <2>1. SUFFICES ASSUME Inv, srv = "garbled" PROVE FALSE
    BY DEF ServerNeverConfused
  <2>2. PhaseOK(stage, Up, Dn, "garbled", tag, serving) /\ stage \in Stages
    BY <2>1 DEF Inv, Directions, UpOK, TypeOK
  <2>3. ~PhaseOK(stage, Up, Dn, "garbled", tag, serving)
    BY <2>2 DEF PhaseOK, Stages, HelloOK, AddendumOK, FreeOK, ReadingOK, StoppingOK, HeaderOK,
       InsertingOK, FinishingOK, PingedOK, Asked, Answered, Inserting, Behind
  <2> QED BY <2>2, <2>3
<1> QED BY <1>1, Invariance, PTL

\* An event is of the query or ping the application is waiting for: nothing of an
\* earlier one is left when it asks again, and nothing reaches it in between
\* (client.rs:345).
THEOREM EventsCurrent == Spec => EventsInStep
<1>1. Inv /\ [Next]_vars => [events' # events => inb[1][2] = tag /\ stage \notin {"free", "inserting"}]_vars
  <2>1. SUFFICES ASSUME Inv, Next, events' # events
                 PROVE  inb[1][2] = tag /\ stage \notin {"free", "inserting"}
    BY DEF vars, clientVars
  <2>2. EventReturned
    BY <2>1 DEF Next, Application, Callbacks, Server, init, send_query, send_data, send_data_end,
       send_cancel, send_ping, Send, recv_event, DropClient, Over, vars, clientVars, WriteSome,
       WriteRecords, ReadSome, WriteDone, FlushDone, WriteFails, Greeted, Rejected, ReadFails,
       ServerReads, ServerActs, ServerProduces, ServerWrites, ServerCloses, NetworkBreaks
  <2> QED BY <2>1, <2>2, EventInv
<1> QED BY <1>1, Invariance, PTL DEF Spec, EventsInStep


-----------------------------------------------------------------------------
(* The abstract state *)

Phase ==
    IF stage \in {"hello", "addendum"}
    THEN IF pc \in {"failed", "dropped"} THEN "gone" ELSE "greeting"
    ELSE "open"
Pending == up \o sealed \o left
Outbox == Untagged(Pending)
Got == Untagged(received)
Inbox == PacketsOf(Dn)

\* The server's history is of units the client can send.
ReceivedOK == received \in Seq(ClientUnit)

\* What a step must do to be one of Connection, or not to show there.
Mapped == Abstract!ConnNext \/ UNCHANGED Abstract!connVars

\* A message is accepted.
LEMMA MapAccept ==
    ASSUME NEW m \in IF Phase = "greeting" THEN {"Hello"} ELSE ClientKind, Phase # "gone",
           Outbox' = Outbox \o AbstractEncode(m), UNCHANGED <<Phase, Got, Inbox, events>>
    PROVE  Mapped
<1>1. Abstract!Accept(m)
  BY DEF Abstract!Accept, Phase, Outbox, Pending, Inbox, Dn, Got
<1>2. m \in ClientKind \cup {"Hello"}
  OBVIOUS
<1> QED BY <1>1, <1>2 DEF Abstract!ConnNext, Mapped

\* The server takes a unit off the wire.
LEMMA MapReceive ==
    ASSUME Outbox # <<>>, Got' = Append(Got, Head(Outbox)), Outbox' = Tail(Outbox),
           UNCHANGED <<Phase, Inbox, events>>
    PROVE  Mapped
<1>1. Abstract!Receive
  BY DEF Abstract!Receive, Phase, Outbox, Pending, Inbox, Dn, Got
<1> QED BY <1>1 DEF Abstract!ConnNext, Mapped

\* The server sends a packet.
LEMMA MapReply ==
    ASSUME NEW p \in ServerKind, Inbox' = Append(Inbox, p),
           UNCHANGED <<Phase, Outbox, Got, events>>
    PROVE  Mapped
<1>1. Abstract!Reply(p)
  BY DEF Abstract!Reply, Phase, Outbox, Pending, Inbox, Dn, Got
<1> QED BY <1>1 DEF Abstract!ConnNext, Mapped

\* init reads ServerHello and writes the addendum.
LEMMA MapGreet ==
    ASSUME Phase = "greeting", Inbox # <<>>, Head(Inbox) = "ServerHello",
           Inbox' = Tail(Inbox), Outbox' = Outbox \o AbstractEncode("Addendum"),
           UNCHANGED <<Phase, Got, events>>
    PROVE  Mapped
<1>1. Abstract!Greet
  BY DEF Abstract!Greet, Phase, Outbox, Pending, Inbox, Dn, Got
<1> QED BY <1>1 DEF Abstract!ConnNext, Mapped

\* init returns, with a client or with an error.
LEMMA MapHandshakeEnds ==
    ASSUME Phase = "greeting", UNCHANGED <<Outbox, Got, events>>,
           \/ Phase' = "open" /\ UNCHANGED Inbox
           \/ Phase' = "gone" /\ UNCHANGED Inbox
           \/ /\ Phase' = "gone" /\ Inbox # <<>>
              /\ Head(Inbox) = "Exception" /\ Inbox' = Tail(Inbox)
    PROVE  Mapped
<1>1. Abstract!Open \/ Abstract!Reject
  BY DEF Abstract!Open, Abstract!Reject, Phase, Outbox, Pending, Inbox, Dn, Got
<1> QED BY <1>1 DEF Abstract!ConnNext, Mapped

\* An event is handed over, or a packet of an unknown kind is stepped over.
LEMMA MapTake ==
    ASSUME Phase = "open", Inbox # <<>>, Inbox' = Tail(Inbox),
           UNCHANGED <<Phase, Outbox, Got>>,
           \/ Head(Inbox) # "Unknown" /\ events' = Append(events, Head(Inbox))
           \/ Head(Inbox) = "Unknown" /\ UNCHANGED events
    PROVE  Mapped
<1>1. Abstract!Deliver \/ Abstract!StepOver
  BY DEF Abstract!Deliver, Abstract!StepOver, Phase, Outbox, Pending, Inbox, Dn, Got
<1> QED BY <1>1 DEF Abstract!ConnNext, Mapped

\* The step does not show.
LEMMA MapStutter ==
    ASSUME UNCHANGED <<Phase, Outbox, Got, Inbox, events>>
    PROVE  Mapped
BY DEF Abstract!connVars, Phase, Outbox, Pending, Inbox, Dn, Got, Mapped

-----------------------------------------------------------------------------
(* The mapping of the two channels *)

AbstractUnit == ClientKind \X Nat

\* A unit without its tag.
Bare(u) == <<u[1], u[3]>>

\* Dropping the tags keeps lengths and places.
LEMMA UntaggedAt ==
    ASSUME NEW s \in Seq(ClientUnit)
    PROVE  /\ Untagged(s) \in Seq(AbstractUnit) /\ Len(Untagged(s)) = Len(s) /\ Len(s) \in Nat
           /\ \A i \in 1..Len(s) : Untagged(s)[i] = Bare(s[i])
<1>1. Len(s) \in Nat /\ \A i \in 1..Len(s) : s[i] \in ClientUnit
  BY LenProperties
<1>2. \A i \in 1..Len(s) : Bare(s[i]) \in AbstractUnit
  BY <1>1 DEF ClientUnit, AbstractUnit, Bare
<1>3. Untagged(s) \in [1..Len(s) -> AbstractUnit]
  BY <1>2 DEF Untagged, Bare
<1>4. Untagged(s) \in Seq(AbstractUnit) /\ Len(Untagged(s)) = Len(s)
  BY <1>1, <1>3
<1> QED BY <1>1, <1>4 DEF Untagged, Bare

\* It distributes over concatenation.
LEMMA UntaggedConcat ==
    ASSUME NEW a \in Seq(ClientUnit), NEW b \in Seq(ClientUnit)
    PROVE  Untagged(a \o b) = Untagged(a) \o Untagged(b)
<1> DEFINE c == a \o b
           x == Untagged(a)
           y == Untagged(b)
           z == Untagged(c)
<1>1. /\ c \in Seq(ClientUnit) /\ Len(c) = Len(a) + Len(b) /\ Len(a) \in Nat /\ Len(b) \in Nat
      /\ \A i \in 1..Len(a) : c[i] = a[i] /\ i \in 1..Len(c)
      /\ \A i \in 1..Len(b) : c[Len(a) + i] = b[i] /\ Len(a) + i \in 1..Len(c)
  BY ConcatAt
<1> HIDE DEF c
<1>2. /\ z \in Seq(AbstractUnit) /\ Len(z) = Len(c) /\ \A i \in 1..Len(c) : z[i] = Bare(c[i])
      /\ x \in Seq(AbstractUnit) /\ Len(x) = Len(a) /\ \A i \in 1..Len(a) : x[i] = Bare(a[i])
      /\ y \in Seq(AbstractUnit) /\ Len(y) = Len(b) /\ \A i \in 1..Len(b) : y[i] = Bare(b[i])
  BY <1>1, UntaggedAt
<1> HIDE DEF x, y, z
<1>3. \A i \in 1..Len(x) : z[i] = x[i]
  BY <1>1, <1>2
<1>4. \A i \in 1..Len(y) : z[Len(x) + i] = y[i]
  BY <1>1, <1>2
<1>5. z = x \o y
  <2>1. Len(z) = Len(x) + Len(y)
    BY <1>1, <1>2
  <2> QED BY <1>2, <1>3, <1>4, <2>1, ConcatEqual
<1> QED BY <1>5 DEF c, x, y, z

\* A message is the same whatever its tag.
LEMMA UntaggedEncode ==
    ASSUME NEW k \in ClientKind, NEW t \in Nat
    PROVE  Untagged(Encode(k, t)) = AbstractEncode(k)
<1> DEFINE e == Encode(k, t)
           z == Encode(k, 0)
<1>1. /\ e \in Seq(ClientUnit) /\ Len(e) = Size(k) /\ \A i \in 1..Size(k) : e[i] = <<k, t, i>>
      /\ z \in Seq(ClientUnit) /\ Len(z) = Size(k) /\ \A i \in 1..Size(k) : z[i] = <<k, 0, i>>
  BY EncodeFacts DEF ClientUnit
<1> HIDE DEF e, z
<1>2. /\ Untagged(e) \in Seq(AbstractUnit) /\ Len(Untagged(e)) = Size(k)
      /\ Untagged(z) \in Seq(AbstractUnit) /\ Len(Untagged(z)) = Size(k)
  BY <1>1, UntaggedAt
<1>3. ASSUME NEW i \in 1..Size(k) PROVE Untagged(e)[i] = Untagged(z)[i]
  <2>1. Untagged(e)[i] = Bare(e[i]) /\ Untagged(z)[i] = Bare(z[i])
    BY <1>1, UntaggedAt
  <2> QED BY <1>1, <2>1 DEF Bare
<1>4. Untagged(e) = Untagged(z)
  BY <1>2, <1>3, SeqEqual
<1> QED BY <1>4 DEF e, z, AbstractEncode

KindOf(u) == u[1]

\* The kinds of a sequence of units.
LEMMA KindsAt ==
    ASSUME NEW s \in Seq(ServerUnit)
    PROVE  /\ Kinds(s) \in Seq(ServerKind) /\ Len(Kinds(s)) = Len(s) /\ Len(s) \in Nat
           /\ \A i \in 1..Len(s) : Kinds(s)[i] = KindOf(s[i])
<1>1. Len(s) \in Nat /\ \A i \in 1..Len(s) : s[i] \in ServerUnit
  BY LenProperties
<1>2. \A i \in 1..Len(s) : KindOf(s[i]) \in ServerKind
  BY <1>1 DEF ServerUnit, KindOf
<1>3. Kinds(s) \in [1..Len(s) -> ServerKind]
  BY <1>2 DEF Kinds, KindOf
<1>4. Kinds(s) \in Seq(ServerKind) /\ Len(Kinds(s)) = Len(s)
  BY <1>1, <1>3
<1> QED BY <1>1, <1>4 DEF Kinds, KindOf

\* They too distribute over concatenation.
LEMMA KindsConcat ==
    ASSUME NEW a \in Seq(ServerUnit), NEW b \in Seq(ServerUnit)
    PROVE  Kinds(a \o b) = Kinds(a) \o Kinds(b)
<1> DEFINE c == a \o b
           x == Kinds(a)
           y == Kinds(b)
           z == Kinds(c)
<1>1. /\ c \in Seq(ServerUnit) /\ Len(c) = Len(a) + Len(b) /\ Len(a) \in Nat /\ Len(b) \in Nat
      /\ \A i \in 1..Len(a) : c[i] = a[i] /\ i \in 1..Len(c)
      /\ \A i \in 1..Len(b) : c[Len(a) + i] = b[i] /\ Len(a) + i \in 1..Len(c)
  BY ConcatAt
<1> HIDE DEF c
<1>2. /\ z \in Seq(ServerKind) /\ Len(z) = Len(c) /\ \A i \in 1..Len(c) : z[i] = KindOf(c[i])
      /\ x \in Seq(ServerKind) /\ Len(x) = Len(a) /\ \A i \in 1..Len(a) : x[i] = KindOf(a[i])
      /\ y \in Seq(ServerKind) /\ Len(y) = Len(b) /\ \A i \in 1..Len(b) : y[i] = KindOf(b[i])
  BY <1>1, KindsAt
<1> HIDE DEF x, y, z
<1>3. \A i \in 1..Len(x) : z[i] = x[i]
  BY <1>1, <1>2
<1>4. \A i \in 1..Len(y) : z[Len(x) + i] = y[i]
  BY <1>1, <1>2
<1>5. z = x \o y
  <2>1. Len(z) = Len(x) + Len(y)
    BY <1>1, <1>2
  <2> QED BY <1>2, <1>3, <1>4, <2>1, ConcatEqual
<1> QED BY <1>5 DEF c, x, y, z

\* The packets of two stretches are those of the one and then of the other.
LEMMA PacketsConcat ==
    ASSUME NEW a \in Seq(ServerUnit), NEW b \in Seq(ServerUnit)
    PROVE  /\ PacketsOf(a) \in Seq(ServerKind) /\ PacketsOf(b) \in Seq(ServerKind)
           /\ PacketsOf(a \o b) = PacketsOf(a) \o PacketsOf(b)
<1>1. Within(a, LastUnit) \in Seq(ServerUnit) /\ Within(b, LastUnit) \in Seq(ServerUnit)
  BY WithinType
<1>2. Within(a \o b, LastUnit) = Within(a, LastUnit) \o Within(b, LastUnit)
  BY WithinConcat
<1>3. Kinds(Within(a, LastUnit) \o Within(b, LastUnit)) = Kinds(Within(a, LastUnit)) \o Kinds(Within(b, LastUnit))
  BY <1>1, KindsConcat
<1>4. Kinds(Within(a, LastUnit)) \in Seq(ServerKind) /\ Kinds(Within(b, LastUnit)) \in Seq(ServerKind)
  BY <1>1, KindsAt
<1> QED BY <1>2, <1>3, <1>4 DEF PacketsOf

\* A packet's units are one packet.
LEMMA PacketOfEncode ==
    ASSUME NEW k \in ServerKind, NEW t \in Nat
    PROVE  PacketsOf(Encode(k, t)) = <<k>>
<1> DEFINE e == Encode(k, t)
           n == Size(k) - 1
           last == <<k, t, Size(k)>>
<1>1. /\ e \in Seq(ServerUnit) /\ Len(e) = Size(k) /\ \A i \in 1..Size(k) : e[i] = <<k, t, i>>
      /\ Size(k) \in Nat /\ Size(k) >= 1
  BY EncodeFacts, SizeFacts DEF ServerUnit
<1>2. n \in 0..Len(e) /\ n \in Nat /\ Len(e) - n = 1 /\ n + 1 = Size(k)
  BY <1>1
<1> HIDE DEF e, n
<1>3. /\ Front(e, n) \in Seq(ServerUnit) /\ Back(e, n) \in Seq(ServerUnit)
      /\ Front(e, n) \o Back(e, n) = e
  BY <1>1, <1>2, CutFact DEF Cuts
<1>4. Len(Front(e, n)) = n /\ \A i \in 1..n : Front(e, n)[i] = e[i]
  BY <1>1, <1>2 DEF Front
<1>5. Back(e, n) = <<last>>
  <2>1. Len(Back(e, n)) = 1 /\ Back(e, n)[1] = e[Size(k)]
    <3>1. /\ Len(Back(e, n)) = Len(e) - n
          /\ \A i \in 1..(Len(e) - n) : Back(e, n)[i] = e[n + i]
      BY <1>1, <1>2, BackAt
    <3> QED BY <1>2, <3>1
  <2>2. e[Size(k)] = last /\ last \in ServerUnit
    BY <1>1 DEF ServerUnit
  <2>3. <<last>> \in Seq(ServerUnit) /\ Len(<<last>>) = 1 /\ <<last>>[1] = last
    BY <2>2
  <2>4. \A i \in 1..1 : Back(e, n)[i] = <<last>>[i]
    BY <2>1, <2>2, <2>3
  <2> QED BY <1>3, <2>1, <2>3, <2>4, SeqEqual
<1>6. ASSUME NEW i \in 1..n PROVE Front(e, n)[i] \notin LastUnit
  <2>1. i # Size(k) /\ i \in 1..Size(k)
    BY <1>1, <1>2
  <2>2. Front(e, n)[i] = <<k, t, i>>
    BY <1>1, <1>4, <2>1
  <2> QED BY <2>1, <2>2 DEF LastUnit
<1>7. Within(Front(e, n), LastUnit) = <<>>
  BY <1>3, <1>4, <1>6, WithinNone
<1>8. Within(Back(e, n), LastUnit) = <<last>>
  <2>1. last \in LastUnit
    BY <1>1 DEF LastUnit
  <2> QED BY <1>5, <2>1, WithinOne
<1>9. Within(e, LastUnit) = <<last>>
  <2>1. Within(e, LastUnit) = Within(Front(e, n), LastUnit) \o Within(Back(e, n), LastUnit)
    BY <1>3, WithinConcat
  <2>2. <<>> \o <<last>> = <<last>>
    OBVIOUS
  <2> QED BY <1>7, <1>8, <2>1, <2>2
<1>10. Kinds(<<last>>) = <<k>>
  BY DEF Kinds
<1> QED BY <1>9, <1>10 DEF PacketsOf, e

-----------------------------------------------------------------------------
(* The two channels under the client's and the server's steps *)

\* What is on its way to the server, with and without the part it has taken.
LEMMA PendingType ==
    ASSUME TypeOK
    PROVE  Pending \in Seq(ClientUnit) /\ Up = got \o Pending
<1>1. /\ left \in Seq(ClientUnit) /\ sealed \in Seq(ClientUnit) /\ up \in Seq(ClientUnit)
      /\ got \in Seq(ClientUnit)
  BY Types
<1>2. Closed(ClientUnit) /\ Assoc(ClientUnit)
  BY ConcatFacts
<1>3. /\ up \o sealed \in Seq(ClientUnit) /\ AssocAt(got, up, sealed)
      /\ Pending \in Seq(ClientUnit)
  BY <1>1, <1>2 DEF Closed, Assoc, Pending
<1>4. AssocAt(got, up \o sealed, left)
  BY <1>1, <1>2, <1>3 DEF Assoc
<1> QED BY <1>3, <1>4 DEF AssocAt, Up, Pending

\* A message joins the outbox.
LEMMA SendOutbox ==
    ASSUME TypeOK, left = <<>>, NEW k \in ClientKind, NEW t \in Nat, left' = Encode(k, t),
           UNCHANGED <<up, sealed>>
    PROVE  Outbox' = Outbox \o AbstractEncode(k)
<1>1. Pending \in Seq(ClientUnit) /\ up \o sealed \in Seq(ClientUnit)
  <2>1. up \in Seq(ClientUnit) /\ sealed \in Seq(ClientUnit)
    BY Types
  <2> QED BY <2>1, PendingType, ConcatFacts DEF Closed
<1>2. Encode(k, t) \in Seq(ClientUnit)
  BY EncodeFacts DEF ClientUnit
<1>3. Pending = up \o sealed /\ Pending' = Pending \o Encode(k, t)
  BY <1>1, ConcatEmptySeq DEF Pending
<1>4. Untagged(Pending \o Encode(k, t)) = Untagged(Pending) \o Untagged(Encode(k, t))
  BY <1>1, <1>2, UntaggedConcat
<1>5. Untagged(Encode(k, t)) = AbstractEncode(k)
  BY UntaggedEncode
<1> QED BY <1>3, <1>4, <1>5 DEF Outbox

\* A write callback moves units within it.
LEMMA CallbackOutbox ==
    ASSUME TypeOK, NEW n, WriteSome(n) \/ WriteRecords(n)
    PROVE  Outbox' = Outbox
<1>1. TypeOK' /\ Up' = Up
  BY WriteSomeMoves, WriteRecordsMoves
<1>2. got' = got
  BY DEF WriteSome, WriteRecords, serverVars
<1>3. /\ Pending \in Seq(ClientUnit) /\ Up = got \o Pending /\ got \in Seq(ClientUnit)
  BY PendingType, Types
<1>4. Pending' \in Seq(ClientUnit) /\ Up' = got' \o Pending'
  <2>1. /\ left' \in Seq(ClientUnit) /\ sealed' \in Seq(ClientUnit) /\ up' \in Seq(ClientUnit)
        /\ got' \in Seq(ClientUnit)
    BY <1>1 DEF TypeOK
  <2>2. Closed(ClientUnit) /\ Assoc(ClientUnit)
    BY ConcatFacts
  <2>3. /\ up' \o sealed' \in Seq(ClientUnit) /\ AssocAt(got', up', sealed')
        /\ Pending' \in Seq(ClientUnit)
    BY <2>1, <2>2 DEF Closed, Assoc, Pending
  <2>4. AssocAt(got', up' \o sealed', left')
    BY <2>1, <2>2, <2>3 DEF Assoc
  <2> QED BY <2>3, <2>4 DEF AssocAt, Up, Pending
<1>5. got \o Pending = got \o Pending'
  BY <1>1, <1>2, <1>3, <1>4
<1>6. Pending' = Pending
  BY <1>3, <1>4, <1>5, Cancels
<1> QED BY <1>6 DEF Outbox

\* The server takes its first unit.
LEMMA ReadOutbox ==
    ASSUME TypeOK, ReceivedOK, ServerReads
    PROVE  /\ Outbox # <<>> /\ Outbox' = Tail(Outbox) /\ Got' = Append(Got, Head(Outbox))
           /\ ReceivedOK'
<1> DEFINE u == Head(up)
<1>1. /\ up \in Seq(ClientUnit) /\ sealed \in Seq(ClientUnit) /\ left \in Seq(ClientUnit)
      /\ up # <<>> /\ up' = Tail(up) /\ received' = Append(received, u)
      /\ UNCHANGED <<sealed, left>> /\ received \in Seq(ClientUnit)
  BY Types DEF ServerReads, clientVars, ReceivedOK
<1>2. u \in ClientUnit /\ up' \in Seq(ClientUnit) /\ up = <<u>> \o up' /\ <<u>> \in Seq(ClientUnit)
  BY <1>1
<1> HIDE DEF u
<1>3. /\ up' \o sealed \in Seq(ClientUnit) /\ Pending' \in Seq(ClientUnit)
      /\ Pending' = up' \o sealed \o left
  BY <1>1, <1>2, ConcatFacts DEF Closed, Pending
<1>4. Pending = <<u>> \o Pending'
  <2>1. Assoc(ClientUnit)
    BY ConcatFacts
  <2>2. AssocAt(<<u>>, up', sealed) /\ AssocAt(<<u>>, up' \o sealed, left)
    BY <1>1, <1>2, <1>3, <2>1 DEF Assoc
  <2> QED BY <1>2, <1>3, <2>2 DEF AssocAt, Pending
<1>5. Untagged(<<u>>) = <<Bare(u)>> /\ Bare(u) \in AbstractUnit
  BY <1>2 DEF Untagged, Bare, ClientUnit, AbstractUnit
<1>6. Outbox = <<Bare(u)>> \o Outbox' /\ Outbox' \in Seq(AbstractUnit)
  <2>1. Untagged(<<u>> \o Pending') = Untagged(<<u>>) \o Untagged(Pending')
    BY <1>2, <1>3, UntaggedConcat
  <2>2. Untagged(Pending') \in Seq(AbstractUnit)
    BY <1>3, UntaggedAt
  <2> QED BY <1>4, <1>5, <2>1, <2>2 DEF Outbox
<1>7. Outbox # <<>> /\ Head(Outbox) = Bare(u) /\ Outbox' = Tail(Outbox)
  BY <1>5, <1>6, HeadTail
<1>8. Got' = Append(Got, Bare(u))
  <2>1. received' = received \o <<u>>
    BY <1>1, <1>2, AppendIsConcat
  <2>2. Untagged(received \o <<u>>) = Untagged(received) \o <<Bare(u)>>
    BY <1>1, <1>2, <1>5, UntaggedConcat
  <2>3. Untagged(received) \in Seq(AbstractUnit)
    BY <1>1, UntaggedAt
  <2>4. Append(Untagged(received), Bare(u)) = Untagged(received) \o <<Bare(u)>>
    BY <1>5, <2>3, AppendIsConcat
  <2> QED BY <2>1, <2>2, <2>4 DEF Got
<1>9. ReceivedOK'
  BY <1>1, <1>2 DEF ReceivedOK
<1> QED BY <1>7, <1>8, <1>9

\* A packet joins the inbox.
LEMMA ReplyInbox ==
    ASSUME TypeOK, NEW r \in ServerKind, NEW t \in Nat, Dn' = Dn \o Encode(r, t)
    PROVE  Inbox' = Append(Inbox, r)
<1>1. Dn \in Seq(ServerUnit)
  BY Types
<1>2. Encode(r, t) \in Seq(ServerUnit)
  BY EncodeFacts DEF ServerUnit
<1>3. /\ PacketsOf(Dn) \in Seq(ServerKind)
      /\ PacketsOf(Dn \o Encode(r, t)) = PacketsOf(Dn) \o PacketsOf(Encode(r, t))
  BY <1>1, <1>2, PacketsConcat
<1>4. PacketsOf(Encode(r, t)) = <<r>>
  BY PacketOfEncode
<1>5. Append(PacketsOf(Dn), r) = PacketsOf(Dn) \o <<r>>
  BY <1>3, AppendIsConcat
<1> QED BY <1>3, <1>4, <1>5 DEF Inbox

\* The first message of a sequence of whole ones, as it was encoded.
LEMMA FrontIsEncoded ==
    ASSUME NEW d \in Seq(ServerUnit), Aligned(d), d # <<>>
    PROVE  /\ Kind(d, 1) \in ServerKind /\ Tag(d, 1) \in Nat
           /\ Front(d, FirstSize(d)) = Encode(Kind(d, 1), Tag(d, 1))
           /\ FirstSize(d) \in 0..Len(d)
<1> DEFINE k == Kind(d, 1)
           t == Tag(d, 1)
           n == FirstSize(d)
           e == Encode(k, t)
<1>1. /\ k \in ServerKind /\ t \in Nat /\ n <= Len(d) /\ Len(d) \in Nat
      /\ \A j \in 1..n : Kind(d, j) = k /\ Tag(d, j) = t /\ Place(d, j) = j
  BY FirstWhole DEF ServerUnit, FirstSize
<1>2. n \in Nat /\ n \in 0..Len(d) /\ n = Size(k)
  BY <1>1, SizeFacts DEF FirstSize
<1> HIDE DEF n, k, t
<1>3. e \in Seq(ServerUnit) /\ Len(e) = n /\ \A i \in 1..n : e[i] = <<k, t, i>>
  BY <1>1, <1>2, EncodeFacts DEF ServerUnit
<1> HIDE DEF e
<1>4. Front(d, n) \in Seq(ServerUnit)
  BY <1>2, CutFact DEF Cuts
<1>5. Len(Front(d, n)) = n /\ \A i \in 1..n : Front(d, n)[i] = d[i]
  BY <1>1, <1>2 DEF Front
<1>6. ASSUME NEW i \in 1..n PROVE d[i] = <<k, t, i>>
  <2>1. d[i] \in ServerUnit
    BY <1>1, <1>2
  <2>2. d[i] = <<d[i][1], d[i][2], d[i][3]>>
    BY <2>1 DEF ServerUnit
  <2>3. d[i][1] = k /\ d[i][2] = t /\ d[i][3] = i
    BY <1>1 DEF Kind, Tag, Place
  <2> QED BY <2>2, <2>3
<1>7. Front(d, n) = e
  BY <1>2, <1>3, <1>4, <1>5, <1>6, SeqEqual
<1> QED BY <1>1, <1>2, <1>7 DEF n, k, t, e

\* Decoding takes the first packet off the inbox.
LEMMA DecodeInbox ==
    ASSUME Inv, Complete, Decode, UNCHANGED <<down, sout>>
    PROVE  Inbox # <<>> /\ Head(Inbox) = inb[1][1] /\ Inbox' = Tail(Inbox)
<1> DEFINE k == Kind(Dn, 1)
           t == Tag(Dn, 1)
<1>1. Dn # <<>> /\ inb[1][1] = k /\ Dn' = Back(Dn, FirstSize(Dn))
  BY DecodeMoves DEF Inv
<1>2. Dn \in Seq(ServerUnit) /\ Aligned(Dn)
  BY Types DEF Inv, Directions, DownOK
<1>3. /\ k \in ServerKind /\ t \in Nat /\ FirstSize(Dn) \in 0..Len(Dn)
      /\ Front(Dn, FirstSize(Dn)) = Encode(k, t)
  BY <1>1, <1>2, FrontIsEncoded
<1> HIDE DEF k, t
<1>4. Dn' \in Seq(ServerUnit) /\ Encode(k, t) \in Seq(ServerUnit) /\ Dn = Encode(k, t) \o Dn'
  <2>1. /\ Front(Dn, FirstSize(Dn)) \in Seq(ServerUnit) /\ Back(Dn, FirstSize(Dn)) \in Seq(ServerUnit)
        /\ Front(Dn, FirstSize(Dn)) \o Back(Dn, FirstSize(Dn)) = Dn
    BY <1>2, <1>3, CutFact DEF Cuts
  <2> QED BY <1>1, <1>3, <2>1
<1>5. /\ PacketsOf(Encode(k, t) \o Dn') = PacketsOf(Encode(k, t)) \o PacketsOf(Dn')
      /\ PacketsOf(Dn') \in Seq(ServerKind)
  BY <1>4, PacketsConcat
<1>6. PacketsOf(Encode(k, t)) = <<k>>
  BY <1>3, PacketOfEncode
<1>7. Inbox = <<k>> \o Inbox' /\ Inbox' \in Seq(ServerKind)
  BY <1>4, <1>5, <1>6 DEF Inbox
<1> QED BY <1>1, <1>3, <1>7, HeadTail

-----------------------------------------------------------------------------
(* Every step is one of Connection's, or does not show *)

\* init or another send hands its message to the write callback.
LEMMA AskMapped ==
    ASSUME Inv, pc \in {"start", "idle"},
           init \/ send_query \/ send_ping \/ send_data \/ send_data_end \/ send_cancel
    PROVE  Mapped
<1>1. TypeOK /\ left = <<>> /\ tag \in Nat /\ tag + 1 \in Nat
  BY DEF Inv, CallOK, TypeOK
<1>2. CASE init
  <2>1. stage = "hello" /\ pc = "start"
    BY <1>2 DEF Inv, CallOK, init
  <2>2. UNCHANGED <<Got, Inbox, events>> /\ UNCHANGED <<up, sealed, stage>>
    BY <1>2 DEF init, wireVars, serverVars, Got, Inbox, Dn
  <2>3. CASE pc' = "write" /\ left' = Encode("Hello", 0)
    <3>1. "Hello" \in ClientKind /\ 0 \in Nat
      BY DEF ClientKind
    <3>2. Outbox' = Outbox \o AbstractEncode("Hello")
      BY <1>1, <2>2, <2>3, <3>1, SendOutbox
    <3>3. Phase = "greeting" /\ Phase' = "greeting"
      BY <2>1, <2>2, <2>3 DEF Phase
    <3> QED BY <2>2, <3>2, <3>3, MapAccept
  <2>4. CASE pc' = "failed" /\ UNCHANGED left
    <3>1. Phase = "greeting" /\ Phase' = "gone" /\ UNCHANGED Outbox
      BY <2>1, <2>2, <2>4 DEF Phase, Outbox, Pending
    <3> QED BY <2>2, <3>1, MapHandshakeEnds
  <2> QED BY <1>2, <2>3, <2>4 DEF init
<1>3. ASSUME NEW k \in ClientKind, NEW t \in Nat, NEW next \in Stages \ {"hello", "addendum"},
             stage \notin {"hello", "addendum"}, Send(k, t, next)
      PROVE  Mapped
  <2>1. UNCHANGED <<Got, Inbox, events>> /\ UNCHANGED <<up, sealed>> /\ left' = Encode(k, t)
    BY <1>3 DEF Send, wireVars, serverVars, Got, Inbox, Dn
  <2>2. Outbox' = Outbox \o AbstractEncode(k)
    BY <1>1, <2>1, SendOutbox
  <2>3. Phase = "open" /\ Phase' = "open"
    BY <1>3 DEF Phase, Send
  <2> QED BY <2>1, <2>2, <2>3, MapAccept
<1>4. /\ {"Select", "Insert", "Ping", "Data", "DataEnd", "Cancel"} \subseteq ClientKind
      /\ {"reading", "header", "pinged", "inserting", "finishing", "stopping"}
            \subseteq Stages \ {"hello", "addendum"}
  BY DEF ClientKind, Stages
<1>5. CASE send_query \/ send_ping
  BY <1>1, <1>3, <1>4, <1>5 DEF send_query, send_ping
<1>6. CASE send_data \/ send_data_end \/ send_cancel
  BY <1>1, <1>3, <1>4, <1>6 DEF send_data, send_data_end, send_cancel
<1> QED BY <1>2, <1>5, <1>6

\* A call that fails, or the client dropped, takes an unfinished init with it and
\* shows nowhere else.
LEMMA EndMapped ==
    ASSUME pc' \in {"failed", "dropped"},
           UNCHANGED <<stage, left, sealed, inb, up, down, sout, received, events>>
    PROVE  Mapped
<1>1. UNCHANGED <<Outbox, Got, Inbox, events>>
  BY DEF Outbox, Pending, Got, Inbox, Dn
<1>2. CASE Phase = "greeting"
  <2>1. Phase' = "gone"
    BY <1>2 DEF Phase
  <2> QED BY <1>1, <1>2, <2>1, MapHandshakeEnds
<1>3. CASE Phase # "greeting"
  <2>1. Phase' = Phase
    BY <1>3 DEF Phase
  <2> QED BY <1>1, <2>1, MapStutter
<1> QED BY <1>2, <1>3

\* A send returns: init has its client, or waits for ServerHello.
LEMMA SentMapped ==
    ASSUME pc \in {"write", "flush"}, AfterSend,
           UNCHANGED <<left, sealed, inb, up, down, sout, received, events>>
    PROVE  Mapped
<1>1. UNCHANGED <<Outbox, Got, Inbox, events>>
  BY DEF Outbox, Pending, Got, Inbox, Dn
<1>2. CASE stage = "addendum"
  <2>1. Phase = "greeting" /\ Phase' = "open"
    BY <1>2 DEF Phase, AfterSend
  <2> QED BY <1>1, <2>1, MapHandshakeEnds
<1>3. CASE stage # "addendum"
  <2>1. Phase' = Phase
    BY <1>3 DEF Phase, AfterSend
  <2> QED BY <1>1, <2>1, MapStutter
<1> QED BY <1>2, <1>3

\* init takes the server's answer.
LEMMA HandshakeMapped ==
    ASSUME Inv, Greeted \/ Rejected
    PROVE  Mapped
<1>1. /\ pc = "read" /\ stage = "hello" /\ Complete /\ Decode
      /\ UNCHANGED <<down, sout>> /\ UNCHANGED <<up, sealed, received, events>>
  BY DEF Greeted, Rejected, wireVars, serverVars
<1>2. Inbox # <<>> /\ Head(Inbox) = inb[1][1] /\ Inbox' = Tail(Inbox)
  BY <1>1, DecodeInbox
<1>3. Phase = "greeting" /\ UNCHANGED <<Got, events>>
  BY <1>1 DEF Phase, Got
<1>4. CASE Greeted
  <2>1. inb[1][1] = "ServerHello" /\ Phase' = "greeting" /\ left' = Encode("Addendum", 0)
    BY <1>4 DEF Greeted, Phase
  <2>2. TypeOK /\ left = <<>> /\ "Addendum" \in ClientKind /\ 0 \in Nat
    BY <1>1 DEF Inv, CallOK, ClientKind
  <2>3. Outbox' = Outbox \o AbstractEncode("Addendum")
    BY <1>1, <2>1, <2>2, SendOutbox
  <2> QED BY <1>2, <1>3, <2>1, <2>3, MapGreet
<1>5. CASE Rejected
  <2>1. inb[1][1] = "Exception" /\ Phase' = "gone" /\ UNCHANGED Outbox
    BY <1>1, <1>5 DEF Rejected, Phase, Outbox, Pending
  <2> QED BY <1>2, <1>3, <2>1, MapHandshakeEnds
<1> QED BY <1>4, <1>5

\* recv_event takes a packet.
LEMMA EventMapped ==
    ASSUME Inv, EventReturned
    PROVE  Mapped
<1>1. /\ pc = "read" /\ stage # "hello" /\ Complete /\ Decode
      /\ UNCHANGED <<down, sout>> /\ UNCHANGED <<up, sealed, left, received>>
  BY DEF EventReturned, wireVars, serverVars
<1>2. Inbox # <<>> /\ Head(Inbox) = inb[1][1] /\ Inbox' = Tail(Inbox)
  BY <1>1, DecodeInbox
<1>3. UNCHANGED <<Outbox, Got>>
  BY <1>1 DEF Outbox, Pending, Got
<1>4. stage \notin {"hello", "addendum"} /\ stage' \notin {"hello", "addendum"}
  <2>1. stage \notin {"hello", "addendum"}
    BY <1>1 DEF Inv, CallOK
  <2> QED BY <2>1 DEF EventReturned, NextStage
<1>5. Phase = "open" /\ Phase' = "open"
  BY <1>4 DEF Phase
<1>6. \/ inb[1][1] # "Unknown" /\ events' = Append(events, inb[1][1])
      \/ inb[1][1] = "Unknown" /\ UNCHANGED events
  BY DEF EventReturned
<1> QED BY <1>2, <1>3, <1>5, <1>6, MapTake

\* The server answers a message, or goes on with a SELECT.
LEMMA ServerMapped ==
    ASSUME Inv, ServerActs \/ ServerProduces
    PROVE  Mapped
<1>1. /\ sout = <<>> /\ TypeOK
      /\ UNCHANGED <<pc, stage, left, sealed, inb, up, down, received, events>>
  BY DEF ServerActs, ServerProduces, clientVars, wireVars, Inv, ServerOK
<1>2. UNCHANGED <<Phase, Outbox, Got, events>>
  BY <1>1 DEF Phase, Outbox, Pending, Got
<1>3. \E r \in ServerKind \cup {"none"} : \E t \in Nat :
         sout' = IF r = "none" THEN <<>> ELSE Encode(r, t)
  <2>1. CASE ServerActs
    <3>1. CASE Sensible
      <4>1. got \in Seq(ClientUnit) /\ got # <<>>
        BY <1>1, <2>1, Types DEF ServerActs, Whole
      <4>2. got[1][2] \in Nat
        <5>1. got[1] \in ClientUnit
          BY <4>1
        <5> QED BY <5>1 DEF ClientUnit
      <4>3. React(got[1][1], got[1][2])
        BY <2>1, <3>1 DEF ServerActs
      <4> QED BY <1>1, <4>2, <4>3, ReactAnswers
    <3>2. CASE ~Sensible
      <4>1. sout' = <<>> /\ "none" \in ServerKind \cup {"none"} /\ 0 \in Nat
        BY <1>1, <2>1, <3>2 DEF ServerActs
      <4> QED BY <4>1
    <3> QED BY <3>1, <3>2
  <2>2. CASE ServerProduces
    <3>1. /\ {"Data", "Progress", "Unknown", "EndOfStream", "Exception"} \subseteq ServerKind
          /\ "none" \notin ServerKind /\ serving \in Nat
      BY <1>1 DEF ServerKind, TypeOK
    <3>2. \E r \in ServerKind : sout' = Encode(r, serving)
      BY <2>2, <3>1 DEF ServerProduces, Reply
    <3> QED BY <3>1, <3>2
  <2> QED BY <2>1, <2>2
<1>4. PICK r \in ServerKind \cup {"none"}, t \in Nat :
         sout' = IF r = "none" THEN <<>> ELSE Encode(r, t)
  BY <1>3
<1>5. AnsweredWith(Dn', Dn, r, t)
  BY <1>1, <1>4, ReplyMoves
<1>6. CASE r = "none"
  <2>1. Dn' = Dn
    BY <1>5, <1>6 DEF AnsweredWith
  <2>2. Inbox' = Inbox
    BY <2>1 DEF Inbox
  <2> QED BY <1>2, <2>2, MapStutter
<1>7. CASE r # "none"
  <2>1. Dn' = Dn \o Encode(r, t) /\ r \in ServerKind
    BY <1>5, <1>7 DEF AnsweredWith
  <2>2. Inbox' = Append(Inbox, r)
    BY <1>1, <2>1, ReplyInbox
  <2> QED BY <1>2, <2>1, <2>2, MapReply
<1> QED BY <1>6, <1>7

\* One case per action.
LEMMA StepMapped ==
    ASSUME Inv, ReceivedOK, [Next]_vars
    PROVE  Mapped
<1>1. TypeOK
  BY DEF Inv
<1>2. CASE init \/ send_query \/ send_ping \/ send_data \/ send_data_end \/ send_cancel
  BY <1>2, AskMapped DEF init, send_query, send_ping, send_data, send_data_end, send_cancel, Send
<1>3. CASE WriteFails \/ ReadFails \/ DropClient
  BY <1>3, EndMapped DEF WriteFails, ReadFails, DropClient, wireVars, serverVars
<1>4. CASE recv_event \/ Over \/ UNCHANGED vars \/ ServerCloses \/ NetworkBreaks
  <2>1. UNCHANGED <<stage, left, sealed, inb, up, down, sout, received, events>>
    BY <1>4 DEF recv_event, Over, ServerCloses, NetworkBreaks, vars, clientVars, wireVars, serverVars
  <2>2. UNCHANGED pc \/ (pc = "idle" /\ pc' = "read")
    BY <1>4 DEF recv_event, Over, ServerCloses, NetworkBreaks, vars, clientVars
  <2>3. UNCHANGED <<Phase, Outbox, Got, Inbox, events>>
    BY <2>1, <2>2 DEF Phase, Outbox, Pending, Got, Inbox, Dn
  <2> QED BY <2>3, MapStutter
<1>5. ASSUME NEW n, WriteSome(n) \/ WriteRecords(n) PROVE Mapped
  <2>1. UNCHANGED Outbox
    BY <1>1, <1>5, CallbackOutbox
  <2>2. UNCHANGED <<Phase, Got, Inbox, events>>
    BY <1>5 DEF WriteSome, WriteRecords, Phase, Got, Inbox, Dn, serverVars
  <2> QED BY <2>1, <2>2, MapStutter
<1>6. ASSUME NEW n, ReadSome(n) PROVE Mapped
  <2>1. Dn' = Dn
    BY <1>1, <1>6, ReadSomeMoves
  <2>2. UNCHANGED <<Phase, Outbox, Got, events>>
    BY <1>6 DEF ReadSome, Phase, Outbox, Pending, Got, serverVars
  <2> QED BY <2>1, <2>2, MapStutter DEF Inbox
<1>7. CASE WriteDone \/ FlushDone
  <2>1. UNCHANGED <<left, sealed, inb, up, down, sout, received, events>> /\ pc \in {"write", "flush"}
    BY <1>7 DEF WriteDone, FlushDone, wireVars, serverVars
  <2>2. CASE AfterSend
    BY <2>1, <2>2, SentMapped
  <2>3. CASE pc' = "flush" /\ UNCHANGED stage
    <3>1. UNCHANGED <<Phase, Outbox, Got, Inbox, events>>
      BY <2>1, <2>3 DEF Phase, Outbox, Pending, Got, Inbox, Dn
    <3> QED BY <3>1, MapStutter
  <2> QED BY <1>7, <2>2, <2>3 DEF WriteDone, FlushDone
<1>8. CASE Greeted \/ Rejected
  BY <1>8, HandshakeMapped
<1>9. CASE EventReturned
  BY <1>9, EventMapped
<1>10. CASE ServerReads
  <2>1. /\ Outbox # <<>> /\ Outbox' = Tail(Outbox) /\ Got' = Append(Got, Head(Outbox))
    BY <1>1, <1>10, ReadOutbox
  <2>2. UNCHANGED <<Phase, Inbox, events>>
    BY <1>10 DEF ServerReads, clientVars, Phase, Inbox, Dn
  <2> QED BY <2>1, <2>2, MapReceive
<1>11. CASE ServerActs \/ ServerProduces
  BY <1>11, ServerMapped
<1>12. CASE ServerWrites
  <2>1. Dn' = Dn
    BY <1>1, <1>12, ServerWritesMoves
  <2>2. UNCHANGED <<Phase, Outbox, Got, events>>
    BY <1>12 DEF ServerWrites, clientVars, Phase, Outbox, Pending, Got
  <2> QED BY <2>1, <2>2, MapStutter DEF Inbox
<1>13. CASE Application
  BY <1>2, <1>3, <1>4, <1>13 DEF Application
<1>14. CASE Callbacks
  BY <1>3, <1>5, <1>6, <1>7, <1>8, <1>9, <1>14 DEF Callbacks
<1>15. CASE Server
  BY <1>10, <1>11, <1>12, <1>15 DEF Server
<1> QED BY <1>4, <1>13, <1>14, <1>15 DEF Next

\* Only a read of the server's adds to its history.
LEMMA ReceivedStep ==
    ASSUME Inv, ReceivedOK, [Next]_vars
    PROVE  ReceivedOK'
<1>1. CASE ServerReads
  BY <1>1, ReadOutbox DEF Inv
<1>2. CASE UNCHANGED received
  BY <1>2 DEF ReceivedOK
<1>3. ServerReads \/ UNCHANGED received
  BY DEF Next, Application, Callbacks, Server, init, send_query, send_data, send_data_end,
     send_cancel, send_ping, Send, recv_event, DropClient, Over, vars, serverVars, WriteSome,
     WriteRecords, ReadSome, WriteDone, FlushDone, WriteFails, Greeted, Rejected, EventReturned,
     ReadFails, ServerActs, ServerProduces, ServerWrites, ServerCloses, NetworkBreaks
<1> QED BY <1>1, <1>2, <1>3

\* The blocking client implements the connection: however its callbacks cut a
\* message, whatever rustls holds back and wherever a call fails, the application and
\* the server see two reliable first-in first-out channels (client.rs:280, client.rs:361).
THEOREM Refinement == Spec => ImplementsConnection
<1>1. Init => ReceivedOK /\ Abstract!ConnInit
  <2> SUFFICES ASSUME Init PROVE ReceivedOK /\ Abstract!ConnInit
    OBVIOUS
  <2>1. /\ Phase = "greeting" /\ Pending = <<>> /\ received = <<>> /\ Dn = <<>> /\ events = <<>>
    BY DEF Init, Phase, Pending, Dn
  <2>2. Untagged(<<>>) = <<>>
    BY DEF Untagged
  <2>3. PacketsOf(<<>>) = <<>>
    BY WithinEmpty DEF PacketsOf, Kinds
  <2>4. Outbox = <<>> /\ Got = <<>> /\ Inbox = <<>>
    BY <2>1, <2>2, <2>3 DEF Outbox, Got, Inbox
  <2>5. Abstract!ConnInit
    BY <2>1, <2>4 DEF Abstract!ConnInit, Phase, Outbox, Pending, Got, Inbox, Dn
  <2> QED BY <2>1, <2>5 DEF ReceivedOK
<1>2. Inv /\ ReceivedOK /\ [Next]_vars => ReceivedOK'
  BY ReceivedStep
<1>3. Inv /\ ReceivedOK /\ [Next]_vars => [Abstract!ConnNext]_(Abstract!connVars)
  BY StepMapped DEF Mapped
<1> QED BY <1>1, <1>2, <1>3, Invariance, PTL DEF Spec, ImplementsConnection
=============================================================================
