----------------------------- MODULE BlockReader -----------------------------
(***************************************************************************)
(* The reader of consecutive Native blocks of src/src/block.rs on top of   *)
(* the transports of PosixIo.  It owns a C input buffer that runs ahead of *)
(* the block being decoded and keeps what is left for the next call.       *)
(*                                                                         *)
(* Block b of the peer's stream is the units <<b, 1>> .. <<b, Units>>; the *)
(* peer can stop in the middle of one.                                     *)
(***************************************************************************)
EXTENDS PosixIo

CONSTANTS
    Units,          \* units per block: where a read can cut it
    ReadBuffer,     \* read_buffer_bytes, in units
    MaxUnits        \* bound: units the peer sends in all

ASSUME ReaderAssumption ==
    Units \in Nat \ {0} /\ ReadBuffer \in Nat \ {0} /\ MaxUnits \in Nat

VARIABLES
    reader,     \* "none", "idle" or "reading" (inside read)
    buf,        \* fetched and not decoded
    returned,   \* history: blocks read returned
    ended,      \* history: read returned None
    sent,       \* history: units the peer has sent
    lost        \* history: a failed read or a dropped reader discarded units

readerVars == <<reader, buf, returned, ended, sent, lost>>
vars == <<ioVars, readerVars>>

\* The i-th unit of the peer's stream.
UnitAt(i) == <<((i - 1) \div Units) + 1, ((i - 1) % Units) + 1>>
Stream(from, to) == [i \in 1..(to - from) |-> UnitAt(from + i)]

\* A slice holds its bytes from the start; a socket's peer sends them later.
Init ==
    /\ IoInit
    /\ reader = "none" /\ buf = <<>> /\ returned = <<>>
    /\ ended = FALSE /\ lost = FALSE
    /\ sent \in IF transport = "slice" THEN 0..MaxUnits ELSE {0}
    /\ sock = Stream(0, sent)
    /\ peer = IF transport = "slice" THEN "closed" ELSE "open"

-----------------------------------------------------------------------------
(* The peer *)

PeerSends ==
    /\ peer = "open" /\ sent < MaxUnits
    /\ sent' = sent + 1
    /\ sock' = Append(sock, UnitAt(sent'))
    /\ UNCHANGED <<transport, peer, now, deadline, cancelled, rd, armed, fetches,
                   reader, buf, returned, ended, lost>>

PeerCloses ==
    /\ peer = "open"
    /\ peer' = "closed"
    /\ UNCHANGED <<transport, sock, now, deadline, cancelled, rd, armed, fetches,
                   readerVars>>

-----------------------------------------------------------------------------
(* The reader *)

\* BlockReader::new; a failed allocation of the buffer leaves nothing behind.
new ==
    /\ reader = "none"
    /\ reader' = "idle" /\ buf' = <<>>
    /\ UNCHANGED <<ioVars, returned, ended, sent, lost>>

\* The borrow of the transport ends; what was buffered ahead is gone.
drop ==
    /\ reader = "idle"
    /\ reader' = "none" /\ buf' = <<>>
    /\ lost' = (lost \/ buf # <<>>)
    /\ UNCHANGED <<ioVars, returned, ended, sent>>

\* The reader holds the transport exclusively, so the deadline is set before
\* it is made.
SetReadTimeout(t) ==
    /\ reader = "none"
    /\ set_read_timeout(t)
    /\ UNCHANGED readerVars

\* Mutant: every call starts with an empty buffer.
read_fresh ==
    /\ reader = "idle"
    /\ reader' = "reading" /\ buf' = <<>>
    /\ UNCHANGED <<ioVars, returned, ended, sent, lost>>

\* read is called.
read ==
    /\ reader = "idle"
    /\ reader' = "reading"
    /\ UNCHANGED <<ioVars, buf, returned, ended, sent, lost>>

FrontIntact == \A i \in 1..Units : buf[i] = <<buf[1][1], i>>

\* A whole block is buffered: no read of the transport is needed.  After a loss
\* the units at the front may not be a block; decoding them fails.
Decode ==
    /\ reader = "reading" /\ rd = "none" /\ Len(buf) >= Units
    /\ reader' = "idle"
    /\ \/ /\ FrontIntact
          /\ returned' = Append(returned, buf[1][1])
          /\ buf' = SubSeq(buf, Units + 1, Len(buf))
          /\ UNCHANGED lost
       \/ /\ ~FrontIntact
          /\ lost' = TRUE
          /\ UNCHANGED <<returned, buf>>
    /\ UNCHANGED <<ioVars, ended, sent>>

Refill ==
    /\ reader = "reading" /\ Len(buf) < Units
    /\ CallRead
    /\ UNCHANGED <<transport, sock, peer, now, deadline, cancelled, armed, fetches,
                   readerVars>>

\* read returns an error; C may have used up the start of the block.
Fails ==
    /\ reader' = "idle"
    /\ \/ UNCHANGED <<buf, lost>>
       \/ buf # <<>> /\ buf' = <<>> /\ lost' = TRUE
    /\ UNCHANGED <<returned, ended, sent>>

Check ==
    \/ CheckFlag("cancelled") /\ Fails
    \/ CheckFlag("none") /\ UNCHANGED readerVars

\* Mutant: the end of the stream is taken for the end of the data.
AtEof_anywhere ==
    /\ ended' = TRUE
    /\ reader' = "idle"
    /\ UNCHANGED <<buf, returned, sent, lost>>

\* None at a block boundary, an error inside a block.
AtEof ==
    \/ /\ buf = <<>>
       /\ ended' = TRUE
       /\ reader' = "idle"
       /\ UNCHANGED <<buf, returned, sent, lost>>
    \/ buf # <<>> /\ Fails

\* slice_read copies as much as fits; read(2) may return less.
Fetch(n) ==
    /\ n <= ReadBuffer
    /\ transport = "slice" => n = ReadBuffer \/ n = Len(sock)
    /\ ReadReturns(n, "ok")
    /\ buf' = buf \o SubSeq(sock, 1, n)
    /\ UNCHANGED <<reader, returned, ended, sent, lost>>

FetchEnds ==
    \/ ReadReturns(0, "eof") /\ AtEof
    \/ ReadReturns(0, "timeout") /\ Fails

-----------------------------------------------------------------------------

Reading == Decode \/ Refill \/ Check \/ (\E n \in 1..ReadBuffer : Fetch(n)) \/ FetchEnds

Next ==
    \/ \E t \in Timeouts \cup {NoTimeout} : SetReadTimeout(t)
    \/ new \/ drop \/ read \/ Reading
    \/ (cancel /\ UNCHANGED readerVars) \/ (Tick /\ UNCHANGED readerVars)
    \/ PeerSends \/ PeerCloses

Spec == Init /\ [][Next]_vars

\* The reading thread runs and the clock advances; nothing is asked of the peer,
\* of the application or of the threads that may cancel.
FairSpec == Spec /\ WF_vars(Reading) /\ WF_vars(Tick /\ UNCHANGED readerVars)

-----------------------------------------------------------------------------
(* Properties *)

\* As long as nothing was discarded, the blocks returned are the peer's, in
\* order and none twice, and what follows them is in the buffer and the socket
\* without a gap - across short reads, timeouts, cancelled calls and calls
\* served from the buffer.
BlocksInOrder ==
    ~lost => /\ \A i \in DOMAIN returned : returned[i] = i
             /\ buf \o sock = Stream(Units * Len(returned), sent)

\* None is returned only at a block boundary with every block returned before; a
\* stream cut inside a block is an error (BlockReader::read).
EndAtBoundary == ended /\ ~lost => sent = Units * Len(returned)

\* A read with a deadline returns, also when the peer stays silent, when the
\* timeout was zero or beyond an i64, and when the token is cancelled while
\* the read is parked; a read from a closed peer returns in any case.
ReadEnds ==
    (reader = "reading" /\ (deadline # 0 \/ peer = "closed")) ~> reader # "reading"
=============================================================================
