---------------------------- MODULE ReaderProofs ----------------------------
(***************************************************************************)
(* Proofs about the blocking transports (PosixIo) and the block reader     *)
(* (BlockReader) on top of them, for every I64Max, MaxNow, Timeouts,       *)
(* Units, ReadBuffer and MaxUnits.                                         *)
(***************************************************************************)
EXTENDS BlockReader, SeqLemmas

-----------------------------------------------------------------------------
(* The inductive invariant *)

Unit == Int \X Int

IoTypeOK ==
    /\ transport \in {"posix", "cancellable", "slice"}
    /\ sock \in Seq(Unit)
    /\ peer \in {"open", "closed"}
    /\ now \in Nat /\ deadline \in Nat
    /\ cancelled \in BOOLEAN
    /\ rd \in {"none", "called", "parked"}
    /\ armed \in Nat \cup {NoTimeout}
    /\ fetches \in Nat

ReaderTypeOK ==
    /\ reader \in {"none", "idle", "reading"}
    /\ buf \in Seq(Unit)
    /\ returned \in Seq(Int)
    /\ ended \in BOOLEAN
    /\ sent \in Nat
    /\ lost \in BOOLEAN

TypeOK == IoTypeOK /\ ReaderTypeOK

\* No fetch is counted before the cancellation, and a read that is parked was
\* let through before it.
FetchesCounted ==
    /\ ~cancelled => fetches = 0
    /\ rd = "parked" => fetches = 0
    /\ fetches <= 1

\* Without a reader nothing is buffered, and only a reader inside read is in
\* the read callback.
OneReader ==
    /\ reader = "none" => buf = <<>>
    /\ rd # "none" => reader = "reading"

\* The part of BlocksInOrder that makes it inductive: the blocks returned were
\* sent, so that the rest of the stream is as long as it should be.
StreamKept ==
    ~lost => /\ \A i \in DOMAIN returned : returned[i] = i
             /\ Units * Len(returned) <= sent
             /\ buf \o sock = Stream(Units * Len(returned), sent)

\* After None nothing more can come.
EndKept == ended /\ ~lost => peer = "closed" /\ sent = Units * Len(returned)

Inv == /\ TypeOK /\ DeadlineInForce /\ FetchesCounted
       /\ OneReader /\ StreamKept /\ EndKept

-----------------------------------------------------------------------------
(* The peer's stream *)

\* Unit number i of block k + 1.
LEMMA BlockUnit ==
    ASSUME NEW k \in Nat, NEW i \in 1..Units
    PROVE  UnitAt(Units * k + i) = <<k + 1, i>>
<1>1. (Units * k + i - 1) \div Units = k
  BY ReaderAssumption
<1>2. (Units * k + i - 1) % Units = i - 1
  BY ReaderAssumption
<1>3. Units * k + i - 1 = (Units * k + i) - 1
  BY ReaderAssumption
<1> QED BY <1>1, <1>2, <1>3 DEF UnitAt

\* A unit of the stream is a pair of integers.
LEMMA UnitType == ASSUME NEW i \in Nat \ {0} PROVE UnitAt(i) \in Unit
<1>1. (i - 1) \div Units \in Int /\ (i - 1) % Units \in Int
  BY ReaderAssumption
<1> QED BY <1>1 DEF UnitAt, Unit

\* What a stretch of the stream is.
LEMMA StreamType ==
    ASSUME NEW from \in Nat, NEW to \in Nat, from <= to
    PROVE  /\ Stream(from, to) \in Seq(Unit)
           /\ Len(Stream(from, to)) = to - from
           /\ \A i \in 1..(to - from) : Stream(from, to)[i] = UnitAt(from + i)
<1>1. to - from \in Nat
  OBVIOUS
<1>2. \A i \in 1..(to - from) : from + i \in Nat \ {0} /\ UnitAt(from + i) \in Unit
  BY UnitType
<1>3. Stream(from, to) \in [1..(to - from) -> Unit]
  BY <1>2 DEF Stream
<1>4. Stream(from, to) \in Seq(Unit)
  BY <1>1, <1>3, SeqDef
<1>5. DOMAIN Stream(from, to) = 1..(to - from)
  BY DEF Stream
<1>6. Len(Stream(from, to)) = to - from
  BY <1>1, <1>4, <1>5, LenProperties
<1> QED BY <1>4, <1>6 DEF Stream

\* The peer's next unit extends the stretch.
LEMMA StreamAppend ==
    ASSUME NEW from \in Nat, NEW to \in Nat, from <= to
    PROVE  Append(Stream(from, to), UnitAt(to + 1)) = Stream(from, to + 1)
<1> DEFINE s == Stream(from, to)
           t == Stream(from, to + 1)
           u == UnitAt(to + 1)
<1>1. /\ s \in Seq(Unit) /\ Len(s) = to - from
      /\ \A i \in 1..(to - from) : s[i] = UnitAt(from + i)
  BY StreamType
<1>2. /\ t \in Seq(Unit) /\ Len(t) = to + 1 - from
      /\ \A i \in 1..(to + 1 - from) : t[i] = UnitAt(from + i)
  BY StreamType, to + 1 \in Nat, from <= to + 1
<1>3. u \in Unit
  BY UnitType
<1>4. from + (to + 1 - from) = to + 1
  OBVIOUS
<1>5. t[to + 1 - from] = u
  BY <1>2, <1>4
<1> HIDE DEF s, t, u
<1>6. /\ Append(s, u) \in Seq(Unit) /\ Len(Append(s, u)) = to + 1 - from
      /\ \A i \in 1..(to - from) : Append(s, u)[i] = s[i]
      /\ Append(s, u)[to + 1 - from] = u
  BY <1>1, <1>3, AppendProperties
<1>7. \A i \in 1..Len(t) : Append(s, u)[i] = t[i]
  BY <1>1, <1>2, <1>5, <1>6
<1>8. Append(s, u) = t
  BY <1>2, <1>6, <1>7, SeqEqual
<1> QED BY <1>8 DEF s, t, u

\* Without its first n units a stretch starts n later.
LEMMA StreamBack ==
    ASSUME NEW from \in Nat, NEW to \in Nat, from <= to, NEW n \in 0..(to - from)
    PROVE  Back(Stream(from, to), n) = Stream(from + n, to)
<1> DEFINE s == Stream(from, to)
           t == Stream(from + n, to)
<1>1. /\ s \in Seq(Unit) /\ Len(s) = to - from
      /\ \A i \in 1..(to - from) : s[i] = UnitAt(from + i)
  BY StreamType
<1>2. /\ t \in Seq(Unit) /\ Len(t) = to - (from + n)
      /\ \A i \in 1..(to - (from + n)) : t[i] = UnitAt(from + n + i)
  BY StreamType, from + n \in Nat, from + n <= to
<1> HIDE DEF s, t
<1>3. /\ Back(s, n) \in Seq(Unit) /\ Len(Back(s, n)) = Len(s) - n
      /\ \A i \in 1..(Len(s) - n) : Back(s, n)[i] = s[n + i]
  BY <1>1, CutFact DEF Cuts, Back
<1>4. ASSUME NEW i \in 1..Len(t) PROVE Back(s, n)[i] = t[i]
  <2>1. Back(s, n)[i] = UnitAt(from + (n + i)) /\ t[i] = UnitAt(from + n + i)
    BY <1>1, <1>2, <1>3
  <2>2. from + (n + i) = from + n + i
    BY <1>2
  <2> QED BY <2>1, <2>2
<1>5. Len(Back(s, n)) = Len(t)
  BY <1>1, <1>2, <1>3
<1>6. Back(s, n) = t
  BY <1>2, <1>3, <1>4, <1>5, SeqEqual
<1> QED BY <1>6 DEF s, t

-----------------------------------------------------------------------------
(* Typing *)

\* A fetch moves typed units from the socket to the buffer.
LEMMA FetchType ==
    ASSUME TypeOK, NEW n \in 1..ReadBuffer, Fetch(n)
    PROVE  /\ n \in 0..Len(sock)
           /\ sock' = Back(sock, n) /\ sock' \in Seq(Unit)
           /\ buf' = buf \o Front(sock, n) /\ buf' \in Seq(Unit)
<1>1. n \in 0..Len(sock) /\ sock' = Back(sock, n) /\ buf' = buf \o Front(sock, n)
  BY LenProperties DEF Fetch, ReadReturns, Back, Front, TypeOK, IoTypeOK
<1>2. Front(sock, n) \in Seq(Unit) /\ Back(sock, n) \in Seq(Unit)
  BY <1>1, CutFact DEF Cuts, TypeOK, IoTypeOK
<1>3. buf \o Front(sock, n) \in Seq(Unit)
  BY <1>2, ConcatProperties DEF TypeOK, ReaderTypeOK
<1> QED BY <1>1, <1>2, <1>3

\* A decoded block is taken off the front of the buffer.
LEMMA DecodeType ==
    ASSUME TypeOK, Decode
    PROVE  /\ buf' \in Seq(Unit) /\ returned' \in Seq(Int)
           /\ Units \in 0..Len(buf) /\ 1 \in 1..Len(buf)
<1>1. Units \in 0..Len(buf) /\ 1 \in 1..Len(buf) /\ buf \in Seq(Unit)
  BY ReaderAssumption, LenProperties DEF Decode, TypeOK, ReaderTypeOK
<1>2. SubSeq(buf, Units + 1, Len(buf)) \in Seq(Unit)
  BY <1>1, CutFact DEF Cuts, Back
<1>3. buf[1][1] \in Int
  <2>1. buf[1] \in Unit
    BY <1>1, LenProperties
  <2> QED BY <2>1 DEF Unit
<1>4. Append(returned, buf[1][1]) \in Seq(Int)
  BY <1>3, AppendProperties DEF TypeOK, ReaderTypeOK
<1> QED BY <1>1, <1>2, <1>4 DEF Decode, TypeOK, ReaderTypeOK

\* The deadline computed for a timeout is a natural number.
LEMMA DeadlineType ==
    ASSUME now \in Nat, NEW d \in Nat
    PROVE  DeadlineFor(d) \in Nat
BY PosixAssumption DEF DeadlineFor, Saturated

\* Failing keeps the reader typed.
LEMMA FailsType == ASSUME ReaderTypeOK, Fails PROVE ReaderTypeOK'
BY EmptySeq DEF ReaderTypeOK, Fails

\* Every step keeps the state typed.
LEMMA TypeStep == ASSUME TypeOK, [Next]_vars PROVE TypeOK'
<1> USE DEF TypeOK
<1>1. ASSUME NEW t \in Timeouts \cup {NoTimeout}, SetReadTimeout(t) PROVE TypeOK'
  <2>1. CASE t = NoTimeout
    BY <1>1, <2>1 DEF SetReadTimeout, set_read_timeout, readerVars, IoTypeOK, ReaderTypeOK
  <2>2. CASE t # NoTimeout
    <3>1. t \in Nat /\ DeadlineFor(t) \in Nat /\ now + t \in Nat
      BY <2>2, PosixAssumption, DeadlineType DEF IoTypeOK
    <3> QED
      BY <1>1, <2>2, <3>1 DEF SetReadTimeout, set_read_timeout, readerVars, IoTypeOK, ReaderTypeOK
  <2> QED BY <2>1, <2>2
<1>2. CASE new \/ drop \/ read
  <2>1. lost' \in BOOLEAN /\ buf' \in Seq(Unit)
    BY <1>2, EmptySeq DEF new, drop, read, ReaderTypeOK
  <2>2. IoTypeOK'
    BY <1>2 DEF new, drop, read, ioVars, IoTypeOK
  <2> QED BY <1>2, <2>1, <2>2 DEF new, drop, read, ReaderTypeOK
<1>3. CASE Decode
  BY <1>3, DecodeType DEF Decode, ioVars, IoTypeOK, ReaderTypeOK
<1>4. CASE Refill
  BY <1>4 DEF Refill, CallRead, readerVars, IoTypeOK, ReaderTypeOK
<1>5. CASE Check
  <2>1. CASE CheckFlag("cancelled") /\ Fails
    BY <2>1, FailsType DEF CheckFlag, IoTypeOK
  <2>2. CASE CheckFlag("none") /\ UNCHANGED readerVars
    BY <2>2 DEF CheckFlag, readerVars, IoTypeOK, ReaderTypeOK
  <2> QED BY <1>5, <2>1, <2>2 DEF Check
<1>6. ASSUME NEW n \in 1..ReadBuffer, Fetch(n) PROVE TypeOK'
  <2>1. sock' \in Seq(Unit) /\ buf' \in Seq(Unit)
    BY <1>6, FetchType
  <2> QED BY <1>6, <2>1 DEF Fetch, ReadReturns, IoTypeOK, ReaderTypeOK
<1>7. CASE FetchEnds
  <2>1. IoTypeOK'
    BY <1>7 DEF FetchEnds, ReadReturns, IoTypeOK
  <2>2. ReaderTypeOK'
    BY <1>7, FailsType DEF FetchEnds, AtEof, ReaderTypeOK
  <2> QED BY <2>1, <2>2
<1>8. CASE (cancel \/ Tick) /\ UNCHANGED readerVars
  <2>1. now' \in Nat
    BY <1>8 DEF cancel, Tick, IoTypeOK
  <2>2. cancelled' \in BOOLEAN
    BY <1>8, Zenon DEF cancel, Tick, IoTypeOK
  <2> QED BY <1>8, <2>1, <2>2 DEF cancel, Tick, readerVars, IoTypeOK, ReaderTypeOK
<1>9. CASE PeerSends
  <2>1. sent' \in Nat /\ UnitAt(sent') \in Unit
    BY <1>9, UnitType DEF PeerSends, ReaderTypeOK
  <2>2. sock' \in Seq(Unit)
    BY <1>9, <2>1, AppendProperties DEF PeerSends, IoTypeOK
  <2> QED BY <1>9, <2>1, <2>2 DEF PeerSends, IoTypeOK, ReaderTypeOK
<1>10. CASE PeerCloses
  BY <1>10 DEF PeerCloses, readerVars, IoTypeOK, ReaderTypeOK
<1>11. CASE UNCHANGED vars
  BY <1>11 DEF vars, ioVars, readerVars, IoTypeOK, ReaderTypeOK
<1> QED BY <1>1, <1>2, <1>3, <1>4, <1>5, <1>6, <1>7, <1>8, <1>9, <1>10, <1>11
        DEF Next, Reading

-----------------------------------------------------------------------------
(* Timeouts and cancellation *)

\* Only set_read_timeout touches the deadline.
LEMMA DeadlineStep ==
    ASSUME TypeOK, DeadlineInForce, [Next]_vars
    PROVE  DeadlineInForce'
<1>1. ASSUME NEW t \in Timeouts \cup {NoTimeout}, SetReadTimeout(t) PROVE DeadlineInForce'
  <2>1. CASE t = NoTimeout
    BY <1>1, <2>1 DEF SetReadTimeout, set_read_timeout, DeadlineInForce
  <2>2. CASE t # NoTimeout
    <3>1. t \in Nat /\ now \in Nat /\ I64Max \in Nat \ {0}
      BY <2>2, PosixAssumption DEF TypeOK, IoTypeOK
    <3>2. deadline' = DeadlineFor(t) /\ armed' = now + t
      BY <1>1, <2>2 DEF SetReadTimeout, set_read_timeout
    <3>3. /\ DeadlineFor(t) > 0
          /\ DeadlineFor(t) >= now + t \/ DeadlineFor(t) = I64Max
          /\ DeadlineFor(t) <= now + t \/ DeadlineFor(t) = 1
      BY <3>1 DEF DeadlineFor, Saturated
    <3>4. armed' # NoTimeout
      BY <3>1, <3>2 DEF NoTimeout
    <3> QED BY <3>2, <3>3, <3>4 DEF DeadlineInForce
  <2> QED BY <2>1, <2>2
<1>2. CASE UNCHANGED <<transport, deadline, armed>>
  BY <1>2 DEF DeadlineInForce
<1>3. CASE \/ new \/ drop \/ read \/ Reading \/ PeerSends \/ PeerCloses
           \/ (cancel \/ Tick) /\ UNCHANGED readerVars
  <2>1. UNCHANGED <<transport, deadline, armed>>
    BY <1>3 DEF new, drop, read, Reading, Decode, Refill, Check, CheckFlag, Fetch, FetchEnds,
                ReadReturns, PeerSends, PeerCloses, cancel, Tick, ioVars
  <2> QED BY <1>2, <2>1
<1>4. CASE UNCHANGED vars
  BY <1>2, <1>4 DEF vars, ioVars
<1> QED BY <1>1, <1>3, <1>4 DEF Next

\* The flag is looked at on the way into the OS, so a fetch after the
\* cancellation is the one that was parked already.
LEMMA FetchStep ==
    ASSUME TypeOK, FetchesCounted, [Next]_vars
    PROVE  FetchesCounted'
<1> USE DEF FetchesCounted
<1>1. ASSUME NEW t \in Timeouts \cup {NoTimeout}, SetReadTimeout(t) PROVE FetchesCounted'
  BY <1>1 DEF SetReadTimeout, set_read_timeout
<1>2. CASE new \/ drop \/ read \/ Decode
  BY <1>2 DEF new, drop, read, Decode, ioVars
<1>3. CASE Refill
  BY <1>3 DEF Refill, CallRead
<1>4. CASE Check
  BY <1>4 DEF Check, CheckFlag
<1>5. ASSUME NEW n \in 1..ReadBuffer, Fetch(n) PROVE FetchesCounted'
  BY <1>5 DEF Fetch, ReadReturns, TypeOK, IoTypeOK
<1>6. CASE FetchEnds
  BY <1>6 DEF FetchEnds, ReadReturns
<1>7. CASE (cancel \/ Tick) /\ UNCHANGED readerVars
  BY <1>7 DEF cancel, Tick
<1>8. CASE PeerSends \/ PeerCloses
  BY <1>8 DEF PeerSends, PeerCloses
<1>9. CASE UNCHANGED vars
  BY <1>9 DEF vars, ioVars
<1> QED BY <1>1, <1>2, <1>3, <1>4, <1>5, <1>6, <1>7, <1>8, <1>9 DEF Next, Reading

-----------------------------------------------------------------------------
(* The stream *)

\* Every step keeps the buffer and the read callback inside one reader.
LEMMA OneReaderStep ==
    ASSUME TypeOK, OneReader, [Next]_vars
    PROVE  OneReader'
<1> USE DEF OneReader
<1>1. CASE \E t \in Timeouts \cup {NoTimeout} : SetReadTimeout(t)
  BY <1>1 DEF SetReadTimeout, set_read_timeout, readerVars
<1>2. CASE new \/ drop \/ read \/ Decode
  BY <1>2 DEF new, drop, read, Decode, ioVars
<1>3. CASE Refill \/ PeerSends \/ PeerCloses
  BY <1>3 DEF Refill, CallRead, PeerSends, PeerCloses, readerVars
<1>4. CASE (cancel \/ Tick) /\ UNCHANGED readerVars
  BY <1>4 DEF cancel, Tick, readerVars
<1>5. CASE Check \/ FetchEnds
  BY <1>5 DEF Check, CheckFlag, FetchEnds, ReadReturns, AtEof, Fails, readerVars
<1>6. ASSUME NEW n \in 1..ReadBuffer, Fetch(n) PROVE OneReader'
  BY <1>6 DEF Fetch, ReadReturns
<1>7. CASE UNCHANGED vars
  BY <1>7 DEF vars, ioVars, readerVars
<1> QED
  <2> HIDE DEF OneReader
  <2> QED BY <1>1, <1>2, <1>3, <1>4, <1>5, <1>6, <1>7 DEF Next, Reading

\* Taking a decoded block off an intact buffer leaves the stream after it, and
\* its number is the next one.
LEMMA DecodeStream ==
    ASSUME TypeOK, StreamKept, ~lost, Decode
    PROVE  /\ StreamKept'
           /\ Units * Len(returned) < sent
<1> DEFINE L == Len(returned)
           from == Units * L
<1>1. /\ sock \in Seq(Unit) /\ buf \in Seq(Unit) /\ returned \in Seq(Int)
      /\ sent \in Nat /\ L \in Nat /\ from \in Nat /\ from <= sent
  BY ReaderAssumption, LenProperties DEF TypeOK, IoTypeOK, ReaderTypeOK, StreamKept
<1>2. Units \in 0..Len(buf) /\ Units > 0 /\ Units \in Nat
  BY DecodeType, ReaderAssumption
<1>3. buf \o sock = Stream(from, sent)
  BY DEF StreamKept
<1>4. /\ Len(Stream(from, sent)) = sent - from
      /\ \A i \in 1..(sent - from) : Stream(from, sent)[i] = UnitAt(from + i)
  BY <1>1, StreamType
<1>5. Len(buf) \in Nat /\ Len(buf \o sock) = Len(buf) + Len(sock) /\ Len(sock) \in Nat
  BY <1>1, ConcatProperties, LenProperties
<1>6. from + Units <= sent /\ from < sent
  BY <1>1, <1>2, <1>3, <1>4, <1>5
<1>7. CASE ~FrontIntact
  <2>1. lost' = TRUE
    BY <1>7 DEF Decode
  <2> QED BY <2>1, <1>6 DEF StreamKept
<1>8. CASE FrontIntact
  <2>1. buf[1] = <<L + 1, 1>>
    <3>1. buf[1] = (buf \o sock)[1]
      BY <1>1, <1>2, <1>5, ConcatProperties
    <3>2. (buf \o sock)[1] = UnitAt(from + 1)
      BY <1>1, <1>3, <1>4, <1>6
    <3>3. 1 \in 1..Units
      BY <1>2
    <3>4. UnitAt(from + 1) = <<L + 1, 1>>
      BY <1>1, <3>3, BlockUnit
    <3> QED BY <3>1, <3>2, <3>4
  <2>2. returned' = Append(returned, L + 1)
    BY <1>8, <2>1 DEF Decode
  <2>3. /\ Len(returned') = L + 1
        /\ \A i \in DOMAIN returned' : returned'[i] = i
    <3>1. /\ Len(returned') = L + 1 /\ DOMAIN returned' = 1..(L + 1)
          /\ \A i \in 1..L : returned'[i] = returned[i]
          /\ returned'[L + 1] = L + 1
      BY <1>1, <2>2, AppendProperties, LenProperties
    <3>2. \A i \in 1..L : returned[i] = i
      BY <1>1, LenProperties DEF StreamKept
    <3> QED BY <1>1, <3>1, <3>2
  <2>4. Units * (L + 1) = from + Units
    BY <1>1, <1>2
  <2>5. buf' = Back(buf, Units) /\ sock' = sock /\ sent' = sent
    BY <1>8 DEF Decode, Back, ioVars
  <2>6. buf' \o sock' = Back(buf \o sock, Units)
    BY <1>1, <1>2, <2>5, DropFact DEF Drops, DropAt
  <2>7. Back(Stream(from, sent), Units) = Stream(from + Units, sent)
    BY <1>1, <1>2, <1>6, StreamBack
  <2>8. buf' \o sock' = Stream(Units * Len(returned'), sent')
    BY <1>3, <2>3, <2>4, <2>5, <2>6, <2>7
  <2>9. Units * Len(returned') <= sent'
    BY <1>6, <2>3, <2>4, <2>5
  <2> QED BY <1>6, <2>3, <2>8, <2>9 DEF StreamKept
<1> QED BY <1>7, <1>8

\* What is unchanged, or discarded and recorded as lost.
LEMMA StreamUnchanged ==
    ASSUME StreamKept, UNCHANGED <<returned, sent, sock>>,
           UNCHANGED <<buf, lost>> \/ lost'
    PROVE  StreamKept'
BY DEF StreamKept

\* Every step keeps the blocks returned and the units that follow them in order.
LEMMA StreamStep ==
    ASSUME TypeOK, OneReader, StreamKept, [Next]_vars
    PROVE  StreamKept'
<1>1. CASE \E t \in Timeouts \cup {NoTimeout} : SetReadTimeout(t)
  BY <1>1, StreamUnchanged DEF SetReadTimeout, set_read_timeout, readerVars
<1>2. CASE new
  BY <1>2, StreamUnchanged DEF new, ioVars, OneReader
<1>3. CASE drop
  BY <1>3, StreamUnchanged DEF drop, ioVars, TypeOK, ReaderTypeOK
<1>4. CASE read \/ Refill \/ PeerCloses
  BY <1>4, StreamUnchanged DEF read, Refill, PeerCloses, ioVars, readerVars
<1>5. CASE Decode
  <2>1. CASE lost
    <3>1. lost'
      BY <1>5, <2>1 DEF Decode
    <3> QED BY <3>1 DEF StreamKept
  <2> QED BY <1>5, <2>1, DecodeStream
<1>6. CASE Check \/ FetchEnds
  BY <1>6, StreamUnchanged
     DEF Check, CheckFlag, FetchEnds, ReadReturns, AtEof, Fails, readerVars
<1>7. ASSUME NEW n \in 1..ReadBuffer, Fetch(n) PROVE StreamKept'
  <2>1. /\ n \in 0..Len(sock) /\ sock' = Back(sock, n) /\ buf' = buf \o Front(sock, n)
        /\ sock \in Seq(Unit) /\ buf \in Seq(Unit)
    BY <1>7, FetchType DEF TypeOK, IoTypeOK, ReaderTypeOK
  <2>2. buf' \o sock' = buf \o sock
    BY <2>1, ShiftFact DEF Shifts, ShiftAt
  <2>3. UNCHANGED <<returned, sent, lost>>
    BY <1>7 DEF Fetch
  <2> QED BY <2>2, <2>3 DEF StreamKept
<1>8. CASE (cancel \/ Tick) /\ UNCHANGED readerVars
  BY <1>8, StreamUnchanged DEF cancel, Tick, readerVars
<1>9. CASE PeerSends
  <2>1. CASE lost
    <3>1. lost'
      BY <1>9, <2>1 DEF PeerSends
    <3> QED BY <3>1 DEF StreamKept
  <2>2. CASE ~lost
    <3> DEFINE from == Units * Len(returned)
    <3>1. /\ sock \in Seq(Unit) /\ buf \in Seq(Unit) /\ sent \in Nat
          /\ from \in Nat /\ from <= sent /\ sent + 1 \in Nat \ {0}
      BY <2>2, ReaderAssumption, LenProperties
         DEF TypeOK, IoTypeOK, ReaderTypeOK, StreamKept
    <3>2. /\ sock' = Append(sock, UnitAt(sent + 1)) /\ sent' = sent + 1
          /\ UNCHANGED <<buf, returned, lost>>
      BY <1>9 DEF PeerSends
    <3>3. UnitAt(sent + 1) \in Unit
      BY <3>1, UnitType
    <3>4. buf \o Append(sock, UnitAt(sent + 1)) = Append(buf \o sock, UnitAt(sent + 1))
      BY <3>1, <3>3
    <3>5. buf \o sock = Stream(from, sent)
      BY <2>2 DEF StreamKept
    <3>6. buf' \o sock' = Stream(from, sent')
      BY <3>1, <3>2, <3>4, <3>5, StreamAppend
    <3>7. Units * Len(returned') <= sent'
      BY <3>1, <3>2
    <3> QED BY <2>2, <3>2, <3>6, <3>7 DEF StreamKept
  <2> QED BY <2>1, <2>2
<1>10. CASE UNCHANGED vars
  BY <1>10, StreamUnchanged DEF vars, ioVars, readerVars
<1> QED BY <1>1, <1>2, <1>3, <1>4, <1>5, <1>6, <1>7, <1>8, <1>9, <1>10 DEF Next, Reading

\* None needs a closed peer, an empty socket and an empty buffer, so the stream
\* ended at a block boundary; after it there is nothing left to decode.
LEMMA EndStep ==
    ASSUME TypeOK, StreamKept, EndKept, [Next]_vars
    PROVE  EndKept'
<1>1. CASE UNCHANGED <<peer, ended, sent, returned>> /\ (lost => lost')
  BY <1>1 DEF EndKept
<1>2. CASE Decode
  <2>1. UNCHANGED <<peer, ended, sent>> /\ (lost => lost')
    BY <1>2 DEF Decode, ioVars
  <2>2. CASE ~lost /\ ended
    <3>1. Units * Len(returned) < sent /\ sent = Units * Len(returned) /\ sent \in Nat
      BY <1>2, <2>2, DecodeStream DEF EndKept, TypeOK, ReaderTypeOK
    <3> QED BY <3>1
  <2> QED BY <2>1, <2>2 DEF EndKept
<1>3. CASE ReadReturns(0, "eof") /\ AtEof
  <2>1. CASE buf # <<>> /\ Fails
    BY <1>1, <1>3, <2>1 DEF ReadReturns, Fails
  <2>2. CASE buf = <<>> /\ UNCHANGED <<buf, returned, sent, lost>>
    <3>1. sock = <<>> /\ peer = "closed" /\ peer' = peer
      BY <1>3 DEF ReadReturns
    <3>2. CASE ~lost
      <4>1. /\ Units * Len(returned) \in Nat /\ sent \in Nat
            /\ Units * Len(returned) <= sent
            /\ buf \o sock = Stream(Units * Len(returned), sent)
        BY <3>2, ReaderAssumption, LenProperties DEF StreamKept, TypeOK, ReaderTypeOK
      <4>2. Len(buf \o sock) = 0
        BY <2>2, <3>1
      <4>3. Len(buf \o sock) = sent - Units * Len(returned)
        BY <4>1, StreamType
      <4>4. sent = Units * Len(returned)
        BY <4>1, <4>2, <4>3
      <4> QED BY <2>2, <3>1, <4>4 DEF EndKept
    <3> QED BY <2>2, <3>2 DEF EndKept
  <2> QED BY <1>3, <2>1, <2>2 DEF AtEof
<1>4. CASE ReadReturns(0, "timeout") /\ Fails
  BY <1>1, <1>4 DEF ReadReturns, Fails
<1>5. CASE PeerSends
  BY <1>5 DEF PeerSends, EndKept
<1>6. CASE PeerCloses
  BY <1>6 DEF PeerCloses, readerVars, EndKept
<1>7. CASE \E t \in Timeouts \cup {NoTimeout} : SetReadTimeout(t)
  BY <1>1, <1>7 DEF SetReadTimeout, set_read_timeout, readerVars
<1>8. CASE new \/ drop \/ read \/ Refill
  BY <1>1, <1>8 DEF new, drop, read, Refill, ioVars, readerVars
<1>9. CASE Check
  BY <1>1, <1>9 DEF Check, CheckFlag, Fails, readerVars
<1>10. CASE \E n \in 1..ReadBuffer : Fetch(n)
  BY <1>1, <1>10 DEF Fetch, ReadReturns
<1>11. CASE (cancel \/ Tick) /\ UNCHANGED readerVars
  BY <1>1, <1>11 DEF cancel, Tick, readerVars
<1>12. CASE UNCHANGED vars
  BY <1>1, <1>12 DEF vars, ioVars, readerVars
<1> QED BY <1>2, <1>3, <1>4, <1>5, <1>6, <1>7, <1>8, <1>9, <1>10, <1>11, <1>12
        DEF Next, Reading, FetchEnds

-----------------------------------------------------------------------------
(* The theorems *)

\* The invariant holds at the start: a slice holds the whole stream already.
LEMMA InitInv == Init => Inv
<1> SUFFICES ASSUME Init PROVE Inv
  OBVIOUS
<1>1. sent \in Nat /\ 0 <= sent
  <2>1. 0..MaxUnits \subseteq Nat
    BY ReaderAssumption
  <2> QED BY <2>1 DEF Init
<1>2. sock \in Seq(Unit) /\ sock = Stream(0, sent)
  BY <1>1, StreamType DEF Init
<1>3. Units * Len(returned) = 0
  BY ReaderAssumption, EmptySeq DEF Init
<1>4. TypeOK
  <2>1. IoTypeOK
    <3>1. now \in Nat
      BY DEF Init, IoInit
    <3>2. cancelled \in BOOLEAN
      BY Zenon DEF Init, IoInit
    <3>3. peer \in {"open", "closed"}
      BY DEF Init
    <3> QED BY <1>2, <3>1, <3>2, <3>3 DEF Init, IoInit, IoTypeOK
  <2>2. ReaderTypeOK
    <3>1. ended \in BOOLEAN /\ lost \in BOOLEAN
      BY DEF Init
    <3>2. buf \in Seq(Unit) /\ returned \in Seq(Int)
      BY EmptySeq DEF Init
    <3> QED BY <1>1, <3>1, <3>2 DEF Init, ReaderTypeOK
  <2> QED BY <2>1, <2>2 DEF TypeOK
<1>5. buf \o sock = sock
  BY <1>2, ConcatEmptySeq DEF Init
<1>6. StreamKept
  BY <1>1, <1>2, <1>3, <1>5 DEF Init, StreamKept
<1> QED BY <1>4, <1>6 DEF Inv, Init, IoInit, DeadlineInForce, FetchesCounted, OneReader, EndKept

\* The invariant is inductive.
LEMMA Invariance == Spec => []Inv
<1>1. Inv /\ [Next]_vars => Inv'
  BY TypeStep, DeadlineStep, FetchStep, OneReaderStep, StreamStep, EndStep DEF Inv
<1> QED BY InitInv, <1>1, PTL DEF Spec

\* However short or long the timeout given to set_read_timeout, the deadline
\* that reaches C is in force and is the moment asked for, as far as an i64 and
\* C's reserved zero allow.
THEOREM ReadTimeoutInForce == Spec => []DeadlineInForce
<1>1. Inv => DeadlineInForce
  BY DEF Inv
<1> QED BY Invariance, <1>1, PTL

\* After CancelToken::cancel at most the read that was already parked in the OS
\* still fetches bytes, whatever the order of the two threads' steps.
THEOREM CancelStopsReads == Spec => []AtMostParkedRead
<1>1. Inv => AtMostParkedRead
  BY DEF Inv, FetchesCounted, AtMostParkedRead, TypeOK, IoTypeOK
<1> QED BY Invariance, <1>1, PTL

\* BlockReader::read returns the peer's blocks in order, none twice, and what
\* follows them waits in the buffer and the socket without a gap, for every
\* block size, buffer size and way of cutting the stream into reads.
THEOREM ReadsInOrder == Spec => []BlocksInOrder
<1>1. Inv => BlocksInOrder
  BY DEF Inv, StreamKept, BlocksInOrder
<1> QED BY Invariance, <1>1, PTL

\* BlockReader::read returns None only at a block boundary, after every block
\* the peer sent.
THEOREM NoneAtBoundary == Spec => []EndAtBoundary
<1>1. Inv => EndAtBoundary
  BY DEF Inv, EndKept, EndAtBoundary
<1> QED BY Invariance, <1>1, PTL
=============================================================================
