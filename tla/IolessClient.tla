---------------------------- MODULE IolessClient ----------------------------
(***************************************************************************)
(* The transport-independent protocol client of src/src/ioless.rs: two     *)
(* byte buffers and the state of the Hello exchange, all of them held by   *)
(* the C object `raw`, and the methods that move them.                     *)
(*                                                                         *)
(* A message or a packet travels as `Units` units <<m, 1>> .. <<m, Units>> *)
(* (a unit stands for a run of bytes), so a write or a read can cut one in *)
(* two.  What the C library does with a complete message is modelled from  *)
(* how this crate uses it.                                                 *)
(***************************************************************************)
EXTENDS Integers, Sequences

CONSTANT Units      \* units per message: where a transfer can be cut

ASSUME UnitsAssumption == Units \in Nat \ {0}

\* What the client sends.  Addendum is what C queues once Hello is answered.
ClientMessage == {"Hello", "Addendum", "Select", "Insert", "Data", "DataEnd"}

\* What the server sends.  Header is the empty Data block that answers an
\* INSERT, Progress every packet that comes beside the rows; Unknown decodes in
\* C but is no PacketKind of this crate.
ServerPacket ==
    {"ServerHello", "Data", "Header", "Progress", "EndOfStream", "Exception", "Unknown"}

Unit(M) == M \X (1..Units)

Encode(m) == [i \in 1..Units |-> <<m, i>>]

VARIABLES
    outq,       \* chc_async_pending_out: queued, not yet accepted by a write
    inbuf,      \* bytes submitted and not yet decoded
    hs,         \* Hello exchange: "new", "sent" or "done"
    queued,     \* history: every unit ever queued
    eaten,      \* history: every unit ever decoded
    decoded     \* history: every packet recv_event returned

coreVars == <<outq, inbuf, hs, queued, eaten, decoded>>

CoreTypeOK ==
    /\ outq \in Seq(Unit(ClientMessage))
    /\ inbuf \in Seq(Unit(ServerPacket))
    /\ hs \in {"new", "sent", "done"}
    /\ queued \in Seq(Unit(ClientMessage))
    /\ eaten \in Seq(Unit(ServerPacket))
    /\ decoded \in Seq(ServerPacket)

\* IolessClient::new: nothing queued, nothing submitted, Hello not sent yet.
new ==
    /\ outq = <<>> /\ inbuf = <<>> /\ hs = "new"
    /\ queued = <<>> /\ eaten = <<>> /\ decoded = <<>>

-----------------------------------------------------------------------------
(* Buffers *)

\* Mutant: removes what the transport accepted, except the last unit.
consume_out_short(n) == outq' = SubSeq(outq, n, Len(outq))

\* Removes the first n queued units; a larger n removes all of them.
consume_out(n) == outq' = SubSeq(outq, n + 1, Len(outq))

\* Mutant: the new bytes replace what has not been decoded yet.
submit_over(bytes) == inbuf' = bytes

\* Copies received bytes behind those not decoded yet.
submit(bytes) == inbuf' = inbuf \o bytes

\* The C encoder appends a whole message to the output queue.
QueueOut(m) ==
    /\ outq' = outq \o Encode(m)
    /\ queued' = queued \o Encode(m)

-----------------------------------------------------------------------------
(* Decoding.  Bytes lost between two submits leave units of different     *)
(* packets side by side: the decoder reports them as a protocol error.    *)

WouldBlock == Len(inbuf) < Units
FrontPacket == inbuf[1][1]
FrontIntact == \A i \in 1..Units : inbuf[i] = <<FrontPacket, i>>

DecodeFront ==
    /\ inbuf' = SubSeq(inbuf, Units + 1, Len(inbuf))
    /\ eaten' = eaten \o SubSeq(inbuf, 1, Units)

-----------------------------------------------------------------------------
(* Methods.  Each returns the outcome in `res`: "NeedsInput", "Ready" or  *)
(* "Err".                                                                 *)

\* First call queues Hello; the ServerHello queues the addendum and ends the
\* exchange; an Exception packet is the server's rejection.
handshake(res) ==
    \/ /\ hs = "new"
       /\ QueueOut("Hello")
       /\ hs' = "sent"
       /\ res = "NeedsInput"
       /\ UNCHANGED <<inbuf, eaten, decoded>>
    \/ /\ hs = "sent" /\ WouldBlock
       /\ res = "NeedsInput"
       /\ UNCHANGED coreVars
    \/ /\ hs = "sent" /\ ~WouldBlock /\ FrontIntact /\ FrontPacket = "ServerHello"
       /\ DecodeFront
       /\ QueueOut("Addendum")
       /\ hs' = "done"
       /\ res = "Ready"
       /\ UNCHANGED decoded
    \/ /\ hs = "sent" /\ ~WouldBlock /\ FrontIntact /\ FrontPacket = "Exception"
       /\ DecodeFront          \* take_handshake_exception
       /\ res = "Err"
       /\ UNCHANGED <<outq, queued, hs, decoded>>
    \/ /\ hs = "sent" /\ ~WouldBlock
       /\ ~(FrontIntact /\ FrontPacket \in {"ServerHello", "Exception"})
       /\ res = "Err"
       /\ UNCHANGED coreVars

\* send_query, send_data and send_data_end queue one message.
send(m) ==
    /\ QueueOut(m)
    /\ UNCHANGED <<inbuf, hs, eaten, decoded>>

\* A packet that from_raw does not know is decoded and cleared all the same;
\* the caller gets an error and the stream stays in step.
recv_event(res) ==
    \/ /\ WouldBlock
       /\ res = "NeedsInput"
       /\ UNCHANGED coreVars
    \/ /\ ~WouldBlock /\ ~FrontIntact
       /\ res = "Err"
       /\ UNCHANGED coreVars
    \/ /\ ~WouldBlock /\ FrontIntact /\ FrontPacket = "Unknown"
       /\ DecodeFront
       /\ res = "Err"
       /\ UNCHANGED <<outq, hs, queued, decoded>>
    \/ /\ ~WouldBlock /\ FrontIntact /\ FrontPacket # "Unknown"
       /\ DecodeFront
       /\ decoded' = Append(decoded, FrontPacket)
       /\ res = "Ready"
       /\ UNCHANGED <<outq, hs, queued>>
=============================================================================
