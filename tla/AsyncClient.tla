----------------------------- MODULE AsyncClient -----------------------------
(***************************************************************************)
(* The Tokio client of src/src/async_client.rs: a byte pump between the    *)
(* IolessClient core and an AsyncTransport.                                *)
(*                                                                         *)
(* Each async method is a future that the application polls.  It can be    *)
(* dropped at every point where it awaits the transport - a write, a flush *)
(* or a read - and the client stays usable afterwards: the next method     *)
(* call finds the core's buffers as the dropped future left them.  Code    *)
(* between two awaits runs without interruption.                           *)
(*                                                                         *)
(* The transport and the server are the environment.  A transport may      *)
(* accept part of a write, and may hold accepted bytes back until it is    *)
(* flushed, as a TLS stream does with a partial record; it makes progress  *)
(* only while it is polled.                                                *)
(***************************************************************************)
EXTENDS IolessClient, FiniteSets

CONSTANTS
    ReadBuf,      \* units that fit in read_buf
    UpCap,        \* units the wire to the server holds
    DownCap,      \* units the wire to the client holds
    MaxCalls,     \* how often the application makes each call
    MaxFaults,    \* dropped futures and transport errors in one behaviour
    FaultKinds,   \* which of them happen
    Disciplined   \* the application follows the query protocol

SendOp == {"Select", "Insert", "Data", "DataEnd"}

ASSUME AsyncAssumption ==
    /\ ReadBuf \in Nat \ {0} /\ UpCap \in Nat \ {0} /\ DownCap \in Nat \ {0}
    /\ MaxFaults \in Nat
    /\ FaultKinds \subseteq {"drop", "io", "zero", "oom", "close"}
    /\ MaxCalls \in [SendOp -> Nat]
    /\ Disciplined \in BOOLEAN

VARIABLES
    \* the future being polled
    op,       \* the method: "handshake", "recv", a SendOp, or "none"
    pc,       \* where it is: see Pc
    cont,     \* what drain_out's caller does next: see Cont
    wrote,    \* drain_out's local of that name
    held,     \* recv_event's local `event`, as a sequence of at most one
    \* the transport
    tbuf,     \* accepted by write, held back until flushed
    up,       \* on the wire to the server
    down,     \* on the wire to the client
    \* the server
    srv,      \* "greeting", "addendum", "idle", "insert" or "closed"
    todo,     \* packets it has still to send
    \* the application, and history
    calls,    \* calls made so far
    faults,   \* faults so far
    events,   \* events recv_event returned
    got,      \* units the server has read
    sent,     \* units the server has sent
    cut,      \* drain_out was cut short and none has flushed since
    lost      \* a submit failed after its bytes were read

taskVars == <<op, pc, cont, wrote, held>>
netVars == <<tbuf, up, down>>
srvVars == <<srv, todo, got, sent>>
histVars == <<calls, faults, events, cut, lost>>
vars == <<coreVars, taskVars, netVars, srvVars, histVars>>

\* "write", "flush" and "read" await the transport.
Await == {"write", "flush", "read"}
Pc == Await \cup {"idle", "drain", "gone"}

\* pre: queue the message; post: return; top: run the step; ready: return the
\* step's result; need: read more.
Cont == {"none", "pre", "post", "top", "ready", "need"}

TaskTypeOK ==
    /\ op \in {"none", "handshake", "recv"} \cup SendOp
    /\ pc \in Pc /\ cont \in Cont /\ wrote \in BOOLEAN
    /\ held \in Seq(ServerPacket) /\ events \in Seq(ServerPacket)
    /\ cont = "pre" => op \in SendOp

NetTypeOK ==
    /\ tbuf \in Seq(Unit(ClientMessage)) /\ up \in Seq(Unit(ClientMessage))
    /\ down \in Seq(Unit(ServerPacket))

SrvTypeOK ==
    /\ srv \in {"greeting", "addendum", "idle", "insert", "closed"}
    /\ todo \in Seq(ServerPacket)
    /\ got \in Seq(Unit(ClientMessage)) /\ sent \in Seq(Unit(ServerPacket))

HistTypeOK ==
    /\ calls \in [SendOp -> Nat] /\ faults \in Nat
    /\ cut \in BOOLEAN /\ lost \in BOOLEAN

\* The type of every variable; the message a send method queues is its own.
TypeOK == CoreTypeOK /\ TaskTypeOK /\ NetTypeOK /\ SrvTypeOK /\ HistTypeOK

\* handshake_on has built the client and polls pump_until_ready.
Init ==
    /\ new
    /\ op = "handshake" /\ pc = "drain" /\ cont = "top"
    /\ wrote = FALSE /\ held = <<>>
    /\ tbuf = <<>> /\ up = <<>> /\ down = <<>>
    /\ srv = "greeting" /\ todo = <<>> /\ got = <<>> /\ sent = <<>>
    /\ calls = [o \in SendOp |-> 0] /\ faults = 0
    /\ events = <<>> /\ cut = FALSE /\ lost = FALSE

-----------------------------------------------------------------------------
(* Entering and leaving drain_out and the methods *)

\* A call of drain_out; `next` is what its caller does afterwards.
Drain(next) ==
    /\ pc' = "drain"
    /\ cont' = next
    /\ wrote' = FALSE

\* The method returns Ok; recv_event hands its event to the application.
ReturnOk ==
    /\ pc' = "idle" /\ op' = "none" /\ cont' = "none" /\ wrote' = FALSE
    /\ events' = events \o held
    /\ held' = <<>>

\* The method returns Err or its future is dropped: its locals are gone.  The
\* handshake owns the client, so the client goes with it.
Abandon ==
    /\ pc' = IF op = "handshake" THEN "gone" ELSE "idle"
    /\ op' = "none" /\ cont' = "none" /\ wrote' = FALSE
    /\ held' = <<>>
    /\ UNCHANGED events

Fault(kind) ==
    /\ kind \in FaultKinds
    /\ faults < MaxFaults
    /\ faults' = faults + 1

-----------------------------------------------------------------------------
(* The application starts a method *)

Made(m) == Cardinality({i \in DOMAIN queued : queued[i] = <<m, Units>>})
Seen(S) == Cardinality({i \in DOMAIN events : events[i] \in S})

\* Queries sent, and queries whose last event has been received.
Asked == Made("Select") + Made("Insert")
Answered == Seen({"EndOfStream", "Exception"})

\* One query at a time; rows only between an INSERT's header and its end.
Follows(o) ==
    \/ o \in {"Select", "Insert"} /\ Asked = Answered
    \/ o \in {"Data", "DataEnd"} /\ Seen({"Header"}) > Made("DataEnd")
    \/ o = "recv" /\ Asked > Answered /\ Seen({"Header"}) = Made("DataEnd")

MayCall(o) == Disciplined => Follows(o)

CountCall(o) ==
    /\ calls[o] < MaxCalls[o]
    /\ calls' = [calls EXCEPT ![o] = @ + 1]

\* send_query, send_data or send_data_end is first polled.
CallSend(o) ==
    /\ pc = "idle" /\ MayCall(o) /\ CountCall(o)
    /\ op' = o /\ Drain("pre")
    /\ UNCHANGED <<coreVars, held, netVars, srvVars, faults, events, cut, lost>>

\* Mutant: recv_event goes through the drain of the send methods.
CallRecv_send ==
    /\ pc = "idle" /\ MayCall("recv")
    /\ op' = "recv" /\ Drain("pre")
    /\ UNCHANGED <<coreVars, held, netVars, srvVars, histVars>>

\* recv_event is first polled.
CallRecv ==
    /\ pc = "idle" /\ MayCall("recv")
    /\ op' = "recv" /\ Drain("top")
    /\ UNCHANGED <<coreVars, held, netVars, srvVars, histVars>>

\* The application queues through core() and leaves the pumping to the next call of
\* an async method.  It uses core() for nothing else: it takes no event, submits no
\* input and consumes no output behind the pump's back.
CoreSend(o) ==
    /\ pc = "idle" /\ MayCall(o) /\ CountCall(o)
    /\ send(o)
    /\ UNCHANGED <<taskVars, netVars, srvVars, faults, events, cut, lost>>

-----------------------------------------------------------------------------
(* drain_out *)

\* The loop head with bytes queued: poll the write.
DrainWrite ==
    /\ pc = "drain" /\ outq # <<>>
    /\ pc' = "write"
    /\ UNCHANGED <<coreVars, op, cont, wrote, held, netVars, srvVars, histVars>>

\* The write has accepted n units; the transport puts k of those it holds on
\* the wire.
AcceptWrite(n, k) ==
    /\ pc = "write"
    /\ n \in 1..Len(outq)
    /\ LET t == tbuf \o SubSeq(outq, 1, n) IN
        /\ k \in 0..Len(t) /\ Len(up) + k <= UpCap
        /\ up' = up \o SubSeq(t, 1, k)
        /\ tbuf' = SubSeq(t, k + 1, Len(t))
    /\ consume_out(n)
    /\ pc' = "drain"
    /\ UNCHANGED <<inbuf, hs, queued, eaten, decoded, op, cont, held, down,
                   srvVars, histVars>>

\* Mutant: the loop forgets that it wrote, so nothing is flushed.
WriteDone_unmarked(n, k) == AcceptWrite(n, k) /\ UNCHANGED wrote

\* The write completes: consume_out(n), and the loop goes round.
WriteDone(n, k) == AcceptWrite(n, k) /\ wrote' = TRUE

\* The peer has closed, and the transport reports it.
PeerGone == srv = "closed" /\ UNCHANGED faults

\* The write reports an error, or zero bytes, which is made an error.
WriteFails ==
    /\ pc = "write"
    /\ Fault("io") \/ Fault("zero") \/ PeerGone
    /\ Abandon
    /\ cut' = TRUE
    /\ UNCHANGED <<coreVars, netVars, srvVars, calls, lost>>

\* Mutant: one write instead of a loop; what it left stays queued.
DrainFlush_once ==
    /\ pc = "drain" /\ wrote
    /\ pc' = "flush"
    /\ UNCHANGED <<coreVars, op, cont, wrote, held, netVars, srvVars, histVars>>

\* The queue is empty and something was written: poll the flush.
DrainFlush ==
    /\ pc = "drain" /\ outq = <<>> /\ wrote
    /\ pc' = "flush"
    /\ UNCHANGED <<coreVars, op, cont, wrote, held, netVars, srvVars, histVars>>

\* The pending flush puts one more unit on the wire.
FlushSome ==
    /\ pc = "flush" /\ tbuf # <<>> /\ Len(up) < UpCap
    /\ up' = up \o SubSeq(tbuf, 1, 1)
    /\ tbuf' = SubSeq(tbuf, 2, Len(tbuf))
    /\ UNCHANGED <<coreVars, taskVars, down, srvVars, histVars>>

FlushFails ==
    /\ pc = "flush" /\ (Fault("io") \/ PeerGone)
    /\ Abandon
    /\ cut' = TRUE
    /\ UNCHANGED <<coreVars, netVars, srvVars, calls, lost>>

\* The synchronous code that follows drain_out, up to the next await.  The
\* caller of AfterDrain says what becomes of `cut`.
AfterDrain ==
    \/ /\ cont = "pre"
       /\ send(op)
       /\ Drain("post")
       /\ UNCHANGED <<op, held, events>>
    \/ /\ cont = "pre" /\ "oom" \in FaultKinds    \* the core refuses the message
       /\ Abandon
       /\ UNCHANGED coreVars
    \/ /\ cont \in {"post", "ready"}
       /\ ReturnOk
       /\ UNCHANGED coreVars
    \/ /\ cont = "top" /\ op = "handshake"
       /\ \/ handshake("NeedsInput") /\ Drain("need") /\ UNCHANGED <<op, held, events>>
          \/ handshake("Ready") /\ Drain("ready") /\ UNCHANGED <<op, held, events>>
          \/ handshake("Err") /\ Abandon
    \/ /\ cont = "top" /\ op = "recv"
       /\ \/ /\ recv_event("NeedsInput")
             /\ Drain("need") /\ UNCHANGED <<op, held, events>>
          \/ /\ recv_event("Ready")
             /\ held' = <<FrontPacket>>
             /\ Drain("ready") /\ UNCHANGED <<op, events>>
          \/ recv_event("Err") /\ Abandon
    \/ /\ cont = "need"
       /\ pc' = "read"
       /\ UNCHANGED <<coreVars, op, cont, wrote, held, events>>

\* Nothing was written: drain_out returns without a flush.
DrainNothing ==
    /\ pc = "drain" /\ outq = <<>> /\ ~wrote
    /\ AfterDrain
    /\ UNCHANGED <<netVars, srvVars, calls, faults, cut, lost>>

\* The flush completes, which it does only with nothing held back.
FlushDone ==
    /\ pc = "flush" /\ tbuf = <<>>
    /\ AfterDrain
    /\ cut' = FALSE
    /\ UNCHANGED <<netVars, srvVars, calls, faults, lost>>

-----------------------------------------------------------------------------
(* read_more *)

ReadDone(n) ==
    /\ pc = "read"
    /\ n \in 1..Len(down) /\ n <= ReadBuf
    /\ down' = SubSeq(down, n + 1, Len(down))
    /\ \/ /\ submit(SubSeq(down, 1, n))
          /\ Drain("top")
          /\ UNCHANGED <<op, held, events, faults, lost>>
       \/ /\ Fault("oom")          \* submit fails: the bytes are gone
          /\ Abandon
          /\ lost' = TRUE
          /\ UNCHANGED inbuf
    /\ UNCHANGED <<outq, hs, queued, eaten, decoded, tbuf, up, srvVars, calls, cut>>

\* Mutant: zero bytes are submitted like any others and the pump goes on.
ReadEof_ignored ==
    /\ pc = "read" /\ srv = "closed" /\ todo = <<>> /\ down = <<>>
    /\ Drain("top")
    /\ UNCHANGED <<coreVars, op, held, netVars, srvVars, histVars>>

\* End of stream, reported as ErrorKind::Eof.
ReadEof ==
    /\ pc = "read" /\ srv = "closed" /\ todo = <<>> /\ down = <<>>
    /\ Abandon
    /\ UNCHANGED <<coreVars, netVars, srvVars, calls, faults, cut, lost>>

ReadFails ==
    /\ pc = "read" /\ Fault("io")
    /\ Abandon
    /\ UNCHANGED <<coreVars, netVars, srvVars, calls, cut, lost>>

\* The application drops the future at an await.
DropFuture ==
    /\ pc \in Await /\ Fault("drop")
    /\ Abandon
    /\ cut' = (cut \/ pc \in {"write", "flush"})
    /\ UNCHANGED <<coreVars, netVars, srvVars, calls, lost>>

-----------------------------------------------------------------------------
(* The server *)

\* The messages its state lets the server expect.
Expects(m) ==
    \/ srv = "greeting" /\ m = "Hello"
    \/ srv = "addendum" /\ m = "Addendum"
    \/ srv = "idle" /\ m \in {"Select", "Insert"}
    \/ srv = "insert" /\ m \in {"Data", "DataEnd"}

\* It answers a complete message with `packets` and moves to state `next`.
Answer(packets, next) == todo' = packets /\ srv' = next

\* What it may answer; a message it does not expect ends the connection.
React(m) ==
    IF ~Expects(m) THEN Answer(<<"Exception">>, "closed") ELSE
    \/ m = "Hello" /\ Answer(<<"ServerHello">>, "addendum")
    \/ m = "Hello" /\ Answer(<<"Exception">>, "closed")
    \/ m = "Addendum" /\ Answer(<<>>, "idle")
    \/ m = "Select" /\ Answer(<<"Data", "EndOfStream">>, "idle")
    \/ m = "Select" /\ Answer(<<"Unknown", "EndOfStream">>, "idle")
    \/ m = "Select" /\ Answer(<<"Exception">>, "idle")
    \/ m = "Insert" /\ Answer(<<"Header">>, "insert")
    \/ m = "Data" /\ Answer(<<>>, "insert")
    \/ m = "Data" /\ Answer(<<"Progress">>, "insert")
    \/ m = "DataEnd" /\ Answer(<<"EndOfStream">>, "idle")

ServerReads ==
    /\ srv # "closed" /\ todo = <<>> /\ up # <<>>
    /\ got' = got \o SubSeq(up, 1, 1)
    /\ up' = SubSeq(up, 2, Len(up))
    /\ IF up[1][2] = Units THEN React(up[1][1]) ELSE UNCHANGED <<todo, srv>>
    /\ UNCHANGED <<coreVars, taskVars, tbuf, down, sent, histVars>>

ServerSends ==
    /\ todo # <<>> /\ Len(down) + Units <= DownCap
    /\ down' = down \o Encode(todo[1])
    /\ sent' = sent \o Encode(todo[1])
    /\ todo' = SubSeq(todo, 2, Len(todo))
    /\ UNCHANGED <<coreVars, taskVars, tbuf, up, srv, got, histVars>>

\* The peer goes away between two messages or in the middle of one.
ServerCloses ==
    /\ srv # "closed" /\ todo = <<>> /\ Fault("close")
    /\ srv' = "closed"
    /\ UNCHANGED <<coreVars, taskVars, netVars, todo, got, sent, calls, events, cut, lost>>

-----------------------------------------------------------------------------

Application ==
    \/ \E o \in SendOp : CallSend(o) \/ CoreSend(o)
    \/ CallRecv
    \/ DropFuture

Task ==
    \/ DrainWrite \/ DrainFlush \/ DrainNothing
    \/ \E n \in 1..Len(outq) : \E k \in 0..(Len(tbuf) + n) : WriteDone(n, k)
    \/ FlushSome \/ FlushDone
    \/ \E n \in 1..ReadBuf : ReadDone(n)
    \/ ReadEof

TransportFault == WriteFails \/ FlushFails \/ ReadFails

Server == ServerReads \/ ServerSends \/ ServerCloses

Next == Application \/ Task \/ TransportFault \/ Server

Spec == Init /\ [][Next]_vars

\* The executor polls a task whose wait is over, the network carries bytes and
\* reports a peer that has closed, the server answers, and the application goes on
\* calling.
Fairness ==
    /\ WF_vars(Task)
    /\ WF_vars(srv = "closed" /\ (WriteFails \/ FlushFails))
    /\ WF_vars(ServerReads \/ ServerSends)
    /\ WF_vars(CallRecv)
    /\ WF_vars(CallSend("DataEnd"))

FairSpec == Spec /\ Fairness

-----------------------------------------------------------------------------
(* The abstract connection this client implements *)

\* The packets that begin in a unit sequence starting at a packet boundary.
PacketsOf(s) == [i \in 1..(Len(s) \div Units) |-> s[(i - 1) * Units + 1][1]]

Abstract == INSTANCE Connection WITH
    Encode <- Encode,
    Requests <- SendOp,
    Packets <- ServerPacket,
    phase <- IF pc = "gone" THEN "gone"
             ELSE IF op = "handshake" THEN "greeting" ELSE "open",
    outbox <- up \o tbuf \o outq,
    received <- got,
    inbox <- held \o PacketsOf(inbuf \o down),
    delivered <- events

-----------------------------------------------------------------------------
(* Properties *)

\* The byte pump implements the two reliable channels of Connection until a
\* submit runs out of memory: dropped futures, partial writes and transport
\* errors show up neither in what the server receives nor in the events.
ImplementsConnection ==
    Abstract!ConnInit /\ [][lost' \/ Abstract!ConnNext]_(Abstract!connVars)

\* Every unit the core ever queued is, exactly once and in order, with the
\* server, on the wire, held by the transport, or still queued - whatever was
\* written in part, dropped or failed in between (drain_out, consume_out).
OutboundIntegrity == got \o up \o tbuf \o outq = queued

\* Unless a submit failed, every unit the server sent is, exactly once and in
\* order, decoded, submitted, or still on the wire: a dropped or failed read
\* loses none and repeats none (read_more, submit).
InboundIntegrity == ~lost => eaten \o inbuf \o down = sent

\* Every event the core decoded reaches the application, in order.  recv_event
\* keeps the event in a local across pump_until_ready's last drain_out; a
\* drop or an error there would lose it, so that drain must never await.
NoEventLost == decoded = events \o held

\* The pump waits for input only when the core's queue is empty, and with
\* nothing held back in the transport unless an earlier drain_out was cut
\* short (dropped or failed) and none has flushed since.
FlushBeforeRead == pc = "read" => outq = <<>> /\ (cut \/ tbuf = <<>>)

\* The unconditional form, which the documentation of the pump asks for:
\* "Flushing before the read is not optional" (src/docs/index.mdx:544).
FlushedBeforeEveryRead == pc = "read" => outq = <<>> /\ tbuf = <<>>

\* The wire to the client holds whatever the server says while it takes the rows of
\* an INSERT.  drain_out never reads (async_client.rs:116), so without this room a
\* server that has to write before it reads on, and a client that has to write before
\* it reads, wait for each other for ever.
InsertFits == DownCap >= Units * MaxCalls["Data"]

\* Where an INSERT's replies fit, every method of a disciplined application returns,
\* also when the server goes away, and the handshake ends.
MethodReturns == InsertFits => (pc \notin {"idle", "gone"} ~> pc \in {"idle", "gone"})

\* Where they fit, every query is answered by an event that ends it, unless the server
\* is gone: what the server waits for is always flushed, what it sent is always read.
QueryAnswered == InsertFits => (Asked > Answered ~> (Asked = Answered \/ srv = "closed"))
=============================================================================
