----------------------------- MODULE TlsProofs -----------------------------
(***************************************************************************)
(* Proofs about TlsIo, for every number of units, pieces and timeouts: no  *)
(* unit of the stream is lost, repeated or reordered by a read that fails, *)
(* and a zero count is reported only after everything was delivered.       *)
(*                                                                         *)
(* Neither property is inductive.  That everything has been delivered when *)
(* rustls sees close_notify needs that nothing is in the network behind    *)
(* it, and that nothing will be: it is the last piece on the wire, and a   *)
(* server that sent it is no longer open.                                  *)
(***************************************************************************)
EXTENDS TlsIo, SeqLemmas

Types ==
    /\ wire \in Seq(Int) /\ plain \in Seq(Int) /\ got \in Seq(Int)
    /\ sent \in Nat /\ len \in Int

\* close_notify is the last piece on the wire, and only a server that is no longer
\* open has sent it.
NotifyLast == \A i \in 1..Len(wire) : wire[i] = Notify => i = Len(wire) /\ peer # "open"

\* Once rustls has processed it, there is nothing behind it.
CleanIsLast == clean => wire = <<>> /\ peer # "open"

Inv == Types /\ TlsInOrder /\ NotifyLast /\ CleanIsLast /\ EofMeansAll

\* The stream's units up to n.
Upto(n) == [i \in 1..n |-> i]

-----------------------------------------------------------------------------

\* The facts about sequences, for pieces and units.
LEMMA IntSeqs == Closed(Int) /\ Assoc(Int)
BY ConcatFacts

\* Assoc, for three sequences of numbers.
LEMMA Regroup ==
    ASSUME NEW a \in Seq(Int), NEW b \in Seq(Int), NEW c \in Seq(Int)
    PROVE  (a \o b) \o c = a \o (b \o c)
BY IntSeqs DEF Assoc, AssocAt

\* What the wire carries of the payload after one more piece.
LEMMA PayloadAppend ==
    ASSUME NEW w \in Seq(Int), NEW x \in Int
    PROVE  /\ x \in Nat \ {0} => Payload(Append(w, x)) = Payload(w) \o <<x>>
           /\ x \notin Nat \ {0} => Payload(Append(w, x)) = Payload(w)
<1>1. <<x>> \in Seq(Int)
  OBVIOUS
<1>2. Append(w, x) = w \o <<x>>
  BY AppendIsConcat
<1>3. Payload(Append(w, x)) = Payload(w) \o Within(<<x>>, Nat \ {0})
  BY <1>1, <1>2, WithinConcat DEF Payload
<1>4. Within(<<x>>, Nat \ {0}) = IF x \in Nat \ {0} THEN <<x>> ELSE <<>>
  BY WithinOne
<1>5. Payload(w) \in Seq(Int)
  BY WithinType DEF Payload
<1>6. Payload(w) \o <<>> = Payload(w)
  BY <1>5, ConcatEmptySeq
<1> QED BY <1>3, <1>4, <1>6, Zenon

\* A socket read splits the payload on the wire in what was taken and what remains.
LEMMA PayloadCut ==
    ASSUME NEW w \in Seq(Int), NEW k \in 0..Len(w)
    PROVE  /\ Payload(Front(w, k)) \in Seq(Int) /\ Payload(Back(w, k)) \in Seq(Int)
           /\ Payload(w) = Payload(Front(w, k)) \o Payload(Back(w, k))
<1>1. /\ Front(w, k) \in Seq(Int) /\ Back(w, k) \in Seq(Int)
      /\ Front(w, k) \o Back(w, k) = w
  BY CutFact DEF Cuts
<1>2. Payload(Front(w, k) \o Back(w, k)) = Payload(Front(w, k)) \o Payload(Back(w, k))
  BY ONLY <1>1, WithinConcat DEF Payload
<1>3. Payload(Front(w, k)) \in Seq(Int) /\ Payload(Back(w, k)) \in Seq(Int)
  BY ONLY <1>1, WithinType DEF Payload
<1> QED BY <1>1, <1>2, <1>3

\* One more unit of the stream.
LEMMA UptoNext ==
    ASSUME NEW n \in Nat
    PROVE  Upto(n) \in Seq(Int) /\ Upto(n) \o <<n + 1>> = Upto(n + 1)
<1>1. Upto(n) \in Seq(Int) /\ Len(Upto(n)) = n /\ Upto(n + 1) \in Seq(Int) /\ Len(Upto(n + 1)) = n + 1
  BY DEF Upto
<1>2. /\ Upto(n) \o <<n + 1>> \in Seq(Int) /\ Len(Upto(n) \o <<n + 1>>) = n + 1
      /\ \A i \in 1..(n + 1) :
            (Upto(n) \o <<n + 1>>)[i] = IF i <= n THEN Upto(n)[i] ELSE <<n + 1>>[i - n]
  <2>1. <<n + 1>> \in Seq(Int) /\ Len(<<n + 1>>) = 1
    OBVIOUS
  <2> QED BY <1>1, <2>1, ConcatProperties
<1>3. ASSUME NEW i \in 1..(n + 1) PROVE (Upto(n) \o <<n + 1>>)[i] = Upto(n + 1)[i]
  BY <1>2 DEF Upto
<1> QED BY <1>1, <1>2, <1>3, SeqEqual

-----------------------------------------------------------------------------

\* Nothing has been read or ended before connect.
LEMMA InitInv == Init => Inv
<1> SUFFICES ASSUME Init PROVE Inv
  OBVIOUS
<1>1. Types
  BY DEF Init, Types, Idle
<1>2. TlsInOrder
  <2>1. got = <<>> /\ plain = <<>> /\ Payload(wire) = <<>> /\ sent = 0
    BY WithinEmpty DEF Init, Payload
  <2>2. got \o plain \o Payload(wire) = <<>>
    BY <2>1
  <2>3. [i \in 1..0 |-> i] = <<>>
    OBVIOUS
  <2> QED BY <2>1, <2>2, <2>3 DEF TlsInOrder
<1>3. NotifyLast /\ CleanIsLast /\ EofMeansAll
  BY DEF Init, NotifyLast, CleanIsLast, EofMeansAll
<1> QED BY <1>1, <1>2, <1>3 DEF Inv

\* What a step leaves alone of the stream.
LEMMA Untouched ==
    ASSUME Inv, UNCHANGED <<wire, plain, got, sent, clean>>, len' \in Int,
           peer' = peer \/ peer' # "open",
           ret' = ret \/ ret' # "eof"
    PROVE  Inv'
<1>1. Types' /\ NotifyLast' /\ CleanIsLast' /\ EofMeansAll'
  BY DEF Inv, Types, NotifyLast, CleanIsLast, EofMeansAll
<1>2. TlsInOrder'
  BY Zenon DEF Inv, TlsInOrder, Payload
<1> QED BY <1>1, <1>2 DEF Inv

\* The server puts a piece on the wire.
LEMMA PushInv ==
    ASSUME TlsAssumption, Inv, NEW x \in Int, Push(x),
           \/ /\ x \notin Nat \ {0} /\ sent' = sent
              /\ peer' = IF x = Notify THEN "notified" ELSE peer
           \/ x = sent + 1 /\ sent' = sent + 1 /\ peer' = peer
    PROVE  Inv'
<1>1. /\ wire \in Seq(Int) /\ sent \in Nat /\ peer = "open" /\ ~clean /\ ret # "eof"
      /\ wire' = Append(wire, x)
      /\ UNCHANGED <<plain, got, clean, len, ret>>
  BY DEF Inv, Types, CleanIsLast, EofMeansAll, Push, rustlsVars, callVars
<1>2. Types'
  BY <1>1 DEF Inv, Types
<1>3. CleanIsLast' /\ EofMeansAll'
  BY <1>1 DEF CleanIsLast, EofMeansAll
<1>4. NotifyLast'
  <2>1. /\ Len(wire') = Len(wire) + 1 /\ Len(wire) \in Nat /\ wire'[Len(wire) + 1] = x
        /\ \A i \in 1..Len(wire) : wire'[i] = wire[i]
    BY <1>1
  <2>2. \A i \in 1..Len(wire) : wire[i] # Notify
    BY <1>1 DEF Inv, NotifyLast
  <2>3. x = Notify => peer' # "open"
    BY <1>1 DEF Notify
  <2>4. ASSUME NEW i \in 1..Len(wire'), wire'[i] = Notify
        PROVE  i = Len(wire') /\ peer' # "open"
    <3>1. i \in 1..Len(wire) \/ i = Len(wire) + 1
      BY <2>1
    <3>2. i = Len(wire) + 1
      BY <2>1, <2>2, <2>4, <3>1
    <3> QED BY <2>1, <2>3, <2>4, <3>2
  <2> QED BY <2>4 DEF NotifyLast
<1>5. TlsInOrder'
  <2> DEFINE a == got \o plain
             p == Payload(wire)
  <2>1. a \in Seq(Int) /\ p \in Seq(Int) /\ a \o p = Upto(sent) /\ a' = a
    <3>1. a \in Seq(Int)
      BY ConcatFacts DEF Inv, Types, Closed
    <3>2. p \in Seq(Int)
      BY <1>1, WithinType DEF Payload
    <3>3. a \o p = Upto(sent)
      BY DEF Inv, TlsInOrder, Upto
    <3> QED BY <1>1, <3>1, <3>2, <3>3
  <2>2. CASE x \notin Nat \ {0} /\ sent' = sent
    <3>1. Payload(wire') = p
      BY <1>1, <2>2, PayloadAppend
    <3> HIDE DEF a, p
    <3>2. (a \o p)' = a \o p
      BY <2>1, <3>1 DEF p
    <3>3. (a \o p)' = Upto(sent')
      BY <2>1, <2>2, <3>2
    <3> QED BY <3>3 DEF TlsInOrder, a, p, Upto
  <2>3. CASE x = sent + 1 /\ sent' = sent + 1
    <3>1. x \in Nat \ {0} /\ <<x>> \in Seq(Int)
      BY <1>1, <2>3
    <3>2. Payload(wire') = p \o <<x>>
      BY <1>1, <3>1, PayloadAppend
    <3> HIDE DEF a, p
    <3>3. a \o (p \o <<x>>) = (a \o p) \o <<x>>
      BY <2>1, <3>1, Regroup
    <3>4. Upto(sent) \o <<sent + 1>> = Upto(sent + 1)
      BY <1>1, UptoNext
    <3>5. a' \o Payload(wire') = Upto(sent')
      BY <2>1, <2>3, <3>2, <3>3, <3>4
    <3> QED BY <3>5 DEF TlsInOrder, a, Upto
  <2>4. \/ x \notin Nat \ {0} /\ sent' = sent
        \/ x = sent + 1 /\ sent' = sent + 1
    OBVIOUS
  <2> QED BY <2>2, <2>3, <2>4
<1> QED BY <1>2, <1>3, <1>4, <1>5 DEF Inv

\* Ok(n): the front of what is decrypted moves to C.
LEMMA DeliverInv == ASSUME Inv, Deliver PROVE Inv'
<1> DEFINE n == Count
<1>1. /\ wire \in Seq(Int) /\ plain \in Seq(Int) /\ got \in Seq(Int) /\ sent \in Nat
      /\ len \in Int /\ len > 0 /\ Len(plain) \in Nat
  BY DEF Inv, Types, Deliver
<1>2. n \in 0..Len(plain) /\ Least(n, Len(plain)) = n
  BY <1>1 DEF Count, Least
<1>3. /\ UNCHANGED <<wire, sent, peer, clean>> /\ len' = -1 /\ ret' = "ok"
      /\ plain' = Back(plain, n)
      /\ got' = got \o [i \in 1..n |-> IF i <= Len(plain) THEN plain[i] ELSE 0]
  BY <1>2 DEF Deliver, Finish, Idle, Back, serverVars
<1> HIDE DEF n
<1>4. [i \in 1..n |-> IF i <= Len(plain) THEN plain[i] ELSE 0] = Front(plain, n)
  BY <1>1, <1>2 DEF Front
<1>5. got' = got \o Front(plain, n)
  BY <1>3, <1>4
<1>6. Front(plain, n) \in Seq(Int) /\ Back(plain, n) \in Seq(Int)
  BY <1>1, <1>2, CutFact DEF Cuts
<1>7. Types'
  <2>1. got' \in Seq(Int)
    BY <1>1, <1>5, <1>6, IntSeqs DEF Closed
  <2> QED BY <1>1, <1>3, <1>6, <2>1 DEF Types
<1>8. NotifyLast' /\ CleanIsLast' /\ EofMeansAll'
  BY <1>3 DEF Inv, NotifyLast, CleanIsLast, EofMeansAll
<1>9. TlsInOrder'
  <2>1. ShiftAt(got, plain, n)
    BY <1>1, <1>2, ShiftFact DEF Shifts
  <2>2. got' \o plain' = got \o plain
    BY <1>3, <1>5, <2>1, Zenon DEF ShiftAt
  <2>3. wire' = wire /\ sent' = sent
    BY <1>3
  <2> QED BY <2>2, <2>3, Zenon DEF Inv, TlsInOrder
<1> QED BY <1>7, <1>8, <1>9 DEF Inv

\* Ok(0): the stream has ended, and C has all of it.
LEMMA CleanEndInv == ASSUME Inv, CleanEnd PROVE Inv'
<1>1. /\ UNCHANGED <<wire, plain, got, sent, peer, clean>> /\ len' = -1
      /\ plain = <<>> /\ clean
  BY DEF CleanEnd, Finish, Idle, serverVars, rustlsVars
<1>2. wire = <<>> /\ got \in Seq(Int) /\ sent \in Nat
  BY <1>1 DEF Inv, CleanIsLast, Types
<1>3. got \o plain \o Payload(wire) = got
  <2>1. Payload(wire) = <<>>
    BY <1>2, WithinEmpty DEF Payload
  <2> QED BY <1>1, <1>2, <2>1, ConcatEmptySeq
<1>4. got = Upto(sent)
  BY <1>3 DEF Inv, TlsInOrder, Upto
<1>5. Len(got) = sent
  BY <1>2, <1>4 DEF Upto
<1>6. Types' /\ NotifyLast' /\ CleanIsLast'
  BY <1>1 DEF Inv, Types, NotifyLast, CleanIsLast
<1>7. EofMeansAll'
  BY <1>1, <1>5 DEF EofMeansAll
<1>8. TlsInOrder'
  BY <1>1, Zenon DEF Inv, TlsInOrder
<1> QED BY <1>6, <1>7, <1>8 DEF Inv

\* A socket read, and the records that are whole with it.
LEMMA FetchInv == ASSUME Inv, Fetch PROVE Inv'
<1> DEFINE ends(k) == {i \in 1..k : Front(wire, k)[i] # Piece}
<1>1. /\ ~clean /\ plain = <<>> /\ UNCHANGED <<sent, peer, len, got, ret>>
      /\ \E k \in 1..Len(wire) :
           /\ wire' = Back(wire, k)
           /\ plain' = plain \o Payload(Front(wire, k))
           /\ clean' = \E i \in ends(k) : Front(wire, k)[i] = Notify
  BY DEF Fetch, WantsRead, serverVars, Front, Back
<1>2. PICK k \in 1..Len(wire) :
           /\ wire' = Back(wire, k)
           /\ plain' = plain \o Payload(Front(wire, k))
           /\ clean' = \E i \in ends(k) : Front(wire, k)[i] = Notify
  BY <1>1
<1>3. /\ wire \in Seq(Int) /\ plain \in Seq(Int) /\ got \in Seq(Int) /\ sent \in Nat /\ len \in Int
      /\ Len(wire) \in Nat /\ k \in 0..Len(wire)
  BY DEF Inv, Types
<1>4. /\ Payload(Front(wire, k)) \in Seq(Int) /\ Payload(Back(wire, k)) \in Seq(Int)
      /\ Payload(wire) = Payload(Front(wire, k)) \o Payload(Back(wire, k))
  BY <1>3, PayloadCut
<1>5. Back(wire, k) \in Seq(Int)
  BY <1>3, CutFact DEF Cuts
<1>6. Types'
  BY <1>1, <1>2, <1>3, <1>4, <1>5, ConcatFacts DEF Types, Closed
<1>7. TlsInOrder'
  <2> DEFINE f == Payload(Front(wire, k))
             b == Payload(Back(wire, k))
  <2>1. f \in Seq(Int) /\ b \in Seq(Int) /\ Payload(wire) = f \o b
    BY <1>4
  <2>2. got' = got /\ plain' = plain \o f /\ Payload(wire') = b /\ sent' = sent
    BY <1>1, <1>2
  <2> HIDE DEF f, b
  <2>3. got \o plain \in Seq(Int)
    BY <1>3, ConcatFacts DEF Closed
  <2>4. got \o (plain \o f) = (got \o plain) \o f
    BY <1>3, <2>1, Regroup
  <2>5. ((got \o plain) \o f) \o b = (got \o plain) \o (f \o b)
    BY <2>1, <2>3, Regroup
  <2>6. got' \o plain' \o Payload(wire') = got \o plain \o Payload(wire)
    BY ONLY <2>1, <2>2, <2>4, <2>5
  <2> QED BY <2>2, <2>6, Zenon DEF Inv, TlsInOrder
<1>8. /\ Len(wire') = Len(wire) - k
      /\ \A i \in 1..(Len(wire) - k) : wire'[i] = wire[k + i]
      /\ \A i \in 1..k : Front(wire, k)[i] = wire[i]
  BY <1>2, <1>3, <1>5 DEF Front, Back
<1>9. NotifyLast'
  <2>1. ASSUME NEW i \in 1..Len(wire'), wire'[i] = Notify
        PROVE  i = Len(wire') /\ peer' # "open"
    <3>1. i \in 1..(Len(wire) - k) /\ k + i \in 1..Len(wire) /\ wire[k + i] = Notify
      BY <1>3, <1>8, <2>1
    <3>2. k + i = Len(wire) /\ peer # "open"
      BY <3>1 DEF Inv, NotifyLast
    <3> QED BY <1>1, <1>3, <1>8, <3>1, <3>2
  <2> QED BY <2>1 DEF NotifyLast
<1>10. CleanIsLast'
  <2>1. SUFFICES ASSUME clean' PROVE wire' = <<>> /\ peer' # "open"
    BY DEF CleanIsLast
  <2>2. PICK i \in 1..k : Front(wire, k)[i] = Notify
    BY <1>2, <2>1
  <2>3. i \in 1..Len(wire) /\ wire[i] = Notify
    BY <1>3, <1>8, <2>2
  <2>4. i = Len(wire) /\ peer # "open"
    BY <2>3 DEF Inv, NotifyLast
  <2>5. Len(wire') = 0 /\ wire' \in Seq(Int)
    BY <1>2, <1>3, <1>5, <1>8, <2>4
  <2> QED BY <1>1, <2>4, <2>5, EmptySeq
<1>11. EofMeansAll'
  BY <1>1 DEF Inv, EofMeansAll
<1> QED BY <1>6, <1>7, <1>9, <1>10, <1>11 DEF Inv

\* Every step keeps the invariant.
LEMMA NextInv == ASSUME TlsAssumption, Inv, [Next]_tlsVars PROVE Inv'
<1>1. len \in Int /\ MaxLen \in Nat /\ sent \in Nat
  BY DEF Inv, Types, TlsAssumption
<1>2. CASE connect
  BY <1>1, <1>2, Untouched DEF connect, serverVars, rustlsVars, callVars
<1>3. CASE complete_io
  BY <1>1, <1>3, Untouched DEF complete_io, serverVars, rustlsVars, callVars
<1>4. CASE set_read_timeout
  BY <1>1, <1>4, Untouched DEF set_read_timeout, serverVars, rustlsVars, callVars
<1>5. CASE ServerPiece
  BY <1>1, <1>5, PushInv DEF ServerPiece, Piece, Notify
<1>6. CASE ServerData
  BY <1>1, <1>6, PushInv DEF ServerData
<1>7. CASE ServerTicket
  BY <1>1, <1>7, PushInv DEF ServerTicket, Ticket, Notify
<1>8. CASE ServerNotifies
  BY <1>1, <1>8, PushInv DEF ServerNotifies, Notify
<1>9. CASE ServerCloses
  BY <1>1, <1>9, Untouched DEF ServerCloses, rustlsVars, callVars
<1>10. CASE \E n \in 0..MaxLen : tls_read(n)
  <2>1. PICK n \in 0..MaxLen : tls_read(n)
    BY <1>10
  <2>2. /\ UNCHANGED <<wire, plain, got, sent, clean, peer>>
        /\ len' \in Int /\ ret' # "eof"
    BY <1>1, <2>1 DEF tls_read, serverVars, rustlsVars, Idle
  <2> QED BY <2>2, Untouched
<1>11. CASE Deliver
  BY <1>11, DeliverInv
<1>12. CASE CleanEnd
  BY <1>12, CleanEndInv
<1>13. CASE Fails
  BY <1>1, <1>13, Untouched DEF Fails, Failed, Finish, Idle, serverVars, rustlsVars
<1>14. CASE Fetch
  BY <1>14, FetchInv
<1>15. CASE Tick
  BY <1>1, <1>15, Untouched DEF Tick, serverVars, rustlsVars
<1>16. CASE UNCHANGED tlsVars
  BY <1>1, <1>16, Untouched DEF tlsVars
<1> QED BY <1>2, <1>3, <1>4, <1>5, <1>6, <1>7, <1>8, <1>9, <1>10, <1>11, <1>12, <1>13,
           <1>14, <1>15, <1>16 DEF Next

-----------------------------------------------------------------------------

\* The invariant holds in every state tls_read and its peers can reach.
THEOREM Invariance == Spec => []Inv
<1>1. Init => Inv
  BY InitInv
<1>2. Inv /\ [Next]_tlsVars => Inv'
  BY NextInv, TlsAssumption
<1> QED BY <1>1, <1>2, PTL DEF Spec

\* Whatever timeouts end a read of tls_read in the middle of a record, the units of
\* the stream reach C once and in order.
THEOREM StreamInOrder == Spec => []TlsInOrder
<1>1. Inv => TlsInOrder
  BY DEF Inv
<1> QED BY <1>1, Invariance, PTL

\* The zero count of tls_read, which C takes for the end of the stream, follows the
\* server's close_notify and the delivery of everything before it.
THEOREM EofIsTheEnd == Spec => []EofMeansAll
<1>1. Inv => EofMeansAll
  BY DEF Inv
<1> QED BY <1>1, Invariance, PTL
=============================================================================
