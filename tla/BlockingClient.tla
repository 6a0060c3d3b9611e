--------------------------- MODULE BlockingClient ---------------------------
(***************************************************************************)
(* The blocking Client of src/src/client.rs on a connection whose two      *)
(* directions hold a bounded number of bytes.  Every call runs its         *)
(* transport callbacks to the end: a send returns when the whole message   *)
(* is written (and flushed, on TLS), a receive when a whole packet is in.  *)
(*                                                                         *)
(* A message is <<kind, tag>>, the tag numbering the query or ping it      *)
(* belongs to, and travels as units <<kind, tag, i>>, so that a write can  *)
(* be cut.  The C encoder and decoder and the server are external.         *)
(***************************************************************************)
EXTENDS SeqFilter

CONSTANTS
    BlockUnits,     \* units of a Data block; every other message has one
    UpCap, DownCap, \* units each direction of the connection holds
    MaxTag,         \* bound on queries and pings
    MaxData,        \* bound on Data blocks of one INSERT
    Stream,         \* packets a SELECT produces before its end
    Burst,          \* progress packets an INSERT produces before its end
    Breakable       \* whether the network and the server may fail

\* A message without rows fits into the connection, and so does everything the
\* server says of an INSERT before it has read all of it: its progress and one
\* exception.  Without the second both sides can end up blocked in a write.
ASSUME BlockingAssumption ==
    /\ BlockUnits \in Nat \ {0} /\ UpCap \in Nat \ {0} /\ DownCap \in Nat \ {0}
    /\ MaxTag \in Nat /\ MaxData \in Nat /\ Stream \in Nat /\ Burst \in Nat
    /\ Breakable \in BOOLEAN
    /\ DownCap >= Burst + 1

\* A Select stands for the query and the empty block that follows it.
ClientKind == {"Hello", "Addendum", "Select", "Insert", "Data", "DataEnd", "Cancel", "Ping"}

\* Header is the block that answers an INSERT; Progress stands for every packet
\* that neither carries result rows nor ends the query.
ServerKind == {"ServerHello", "Data", "Header", "Progress", "EndOfStream", "Exception",
               "Pong", "Unknown"}

Size(kind) == IF kind = "Data" THEN BlockUnits ELSE 1

Encode(kind, t) == [i \in 1..Size(kind) |-> <<kind, t, i>>]

VARIABLES
    tls,        \* TlsIo or PosixIo
    pc,         \* the caller: "idle", in a callback, "failed" or "dropped"
    stage,      \* what the application is doing: "hello", "addendum" (in init), "free",
                \* "reading", "stopping" (a SELECT, without and with a Cancel), "header",
                \* "inserting", "finishing" (an INSERT), "pinged" (waiting for the pong)
    tag,        \* the query or ping it is doing it for
    blocks,     \* Data blocks sent in this INSERT
    left,       \* what the write callback has not handed on yet
    sealed,     \* records rustls holds and has not written to the socket
    inb,        \* bytes read and not decoded
    up, down,   \* the connection
    broken,     \* the network failed
    srv, todo,  \* server: its state, and packets it may still produce
    serving,    \* server: the tag of the message it took last
    got, sout,  \* server: the part of a message it has; what it is writing
    received,   \* history: every unit the server read
    events      \* history: the kinds recv_event returned

clientVars == <<pc, stage, tag, blocks, left, sealed, inb, events>>
wireVars == <<up, down, broken>>
serverVars == <<srv, todo, serving, got, sout, received>>
vars == <<tls, clientVars, wireVars, serverVars>>

\* Client::init has its transport.
Init ==
    /\ tls \in BOOLEAN
    /\ pc = "start" /\ stage = "hello" /\ tag = 0 /\ blocks = 0
    /\ left = <<>> /\ sealed = <<>> /\ inb = <<>>
    /\ up = <<>> /\ down = <<>> /\ broken = FALSE
    /\ srv = "greet" /\ todo = 0 /\ serving = 0 /\ got = <<>> /\ sout = <<>>
    /\ received = <<>> /\ events = <<>>

Drop(n, s) == SubSeq(s, n + 1, Len(s))
Take(n, s) == SubSeq(s, 1, n)

-----------------------------------------------------------------------------
(* Sends *)

\* The options are good, and C writes Hello; or they are reported as a usage
\* error and nothing is written.
init ==
    /\ pc = "start"
    /\ \/ pc' = "write" /\ left' = Encode("Hello", 0)
       \/ pc' = "failed" /\ UNCHANGED left
    /\ UNCHANGED <<tls, stage, tag, blocks, sealed, inb, events, wireVars, serverVars>>

\* The C encoder has the message; the write callback starts.
Send(kind, t, next) ==
    /\ pc = "idle"
    /\ pc' = "write" /\ left' = Encode(kind, t) /\ stage' = next /\ tag' = t
    /\ UNCHANGED <<tls, sealed, inb, events, wireVars, serverVars>>

send_query ==
    /\ stage = "free" /\ tag < MaxTag
    /\ Send("Select", tag + 1, "reading") \/ Send("Insert", tag + 1, "header")
    /\ blocks' = 0

\* send_data with a builder, once the header told the structure.
send_data ==
    /\ stage = "inserting" /\ blocks < MaxData
    /\ Send("Data", tag, "inserting")
    /\ blocks' = blocks + 1

\* send_data without one ends the input.
send_data_end ==
    /\ stage = "inserting"
    /\ Send("DataEnd", tag, "finishing")
    /\ UNCHANGED blocks

\* Mutant: the query counts as over once its Cancel is sent.
send_cancel_over ==
    /\ stage = "reading"
    /\ Send("Cancel", tag, "free")
    /\ UNCHANGED blocks

\* The caller goes on receiving until the end of the stream.
send_cancel ==
    /\ stage = "reading"
    /\ Send("Cancel", tag, "stopping")
    /\ UNCHANGED blocks

send_ping ==
    /\ stage = "free" /\ tag < MaxTag
    /\ Send("Ping", tag + 1, "pinged")
    /\ UNCHANGED blocks

\* A write callback hands on part of what it has: PosixIo's to the socket,
\* rustls' Write to the records it holds.
WriteSome(n) ==
    /\ pc = "write" /\ n \in 1..Len(left)
    /\ left' = Drop(n, left)
    /\ IF tls THEN sealed' = sealed \o Take(n, left) /\ UNCHANGED up
       ELSE Len(up) + n <= UpCap /\ up' = up \o Take(n, left) /\ UNCHANGED sealed
    /\ UNCHANGED <<tls, pc, stage, tag, blocks, inb, events, down, broken, serverVars>>

\* rustls writes records to the socket, during a write and while flushing.
WriteRecords(n) ==
    /\ pc \in {"write", "flush"} /\ n \in 1..Len(sealed) /\ Len(up) + n <= UpCap
    /\ sealed' = Drop(n, sealed) /\ up' = up \o Take(n, sealed)
    /\ UNCHANGED <<tls, pc, stage, tag, blocks, left, inb, events, down, broken, serverVars>>

\* Client::init goes on to wait for the server's Hello; every other call returns.
AfterSend ==
    IF stage = "hello" THEN pc' = "read" /\ UNCHANGED stage
    ELSE /\ pc' = "idle"
         /\ stage' = IF stage = "addendum" THEN "free" ELSE stage

\* Mutant: a short write counts as a whole one.
WriteDone_short ==
    /\ pc = "write" /\ \A i \in 1..Len(left) : left[i][3] > 1
    /\ left' = <<>>
    /\ IF tls THEN pc' = "flush" /\ UNCHANGED stage ELSE AfterSend
    /\ UNCHANGED <<tls, tag, blocks, sealed, inb, events, wireVars, serverVars>>

\* Mutant: tls_write returns without a flush.
WriteDone_unflushed ==
    /\ pc = "write" /\ left = <<>>
    /\ AfterSend
    /\ UNCHANGED <<tls, tag, blocks, left, sealed, inb, events, wireVars, serverVars>>

\* Everything is handed on; tls_write still has to flush.
WriteDone ==
    /\ pc = "write" /\ left = <<>>
    /\ IF tls THEN pc' = "flush" /\ UNCHANGED stage ELSE AfterSend
    /\ UNCHANGED <<tls, tag, blocks, left, sealed, inb, events, wireVars, serverVars>>

FlushDone ==
    /\ pc = "flush" /\ sealed = <<>>
    /\ AfterSend
    /\ UNCHANGED <<tls, tag, blocks, left, sealed, inb, events, wireVars, serverVars>>

\* The callback reports an error, with any part of the message on its way.
WriteFails ==
    /\ pc \in {"write", "flush"} /\ (broken \/ srv = "gone")
    /\ pc' = "failed"
    /\ UNCHANGED <<tls, stage, tag, blocks, left, sealed, inb, events, wireVars, serverVars>>

-----------------------------------------------------------------------------
(* Receives *)

recv_event ==
    /\ pc = "idle" /\ stage \in {"reading", "stopping", "header", "finishing", "pinged"}
    /\ pc' = "read"
    /\ UNCHANGED <<tls, stage, tag, blocks, left, sealed, inb, events, wireVars, serverVars>>

Complete == inb # <<>> /\ Len(inb) >= Size(inb[1][1])

\* One read callback.
ReadSome(n) ==
    /\ pc = "read" /\ ~Complete /\ n \in 1..Len(down)
    /\ inb' = inb \o Take(n, down) /\ down' = Drop(n, down)
    /\ UNCHANGED <<tls, pc, stage, tag, blocks, left, sealed, events, up, broken, serverVars>>

\* What an event of this kind means for the query it belongs to.
NextStage(kind) ==
    IF kind \in {"EndOfStream", "Exception", "Pong"} THEN "free"
    ELSE IF kind = "Header" THEN "inserting" ELSE stage

Decode == inb' = Drop(Size(inb[1][1]), inb)

\* C reads the server's Hello and writes the addendum, in the same call.
Greeted ==
    /\ pc = "read" /\ stage = "hello" /\ Complete /\ inb[1][1] = "ServerHello"
    /\ Decode
    /\ pc' = "write" /\ stage' = "addendum" /\ left' = Encode("Addendum", 0)
    /\ UNCHANGED <<tls, tag, blocks, sealed, events, wireVars, serverVars>>

\* take_handshake_exception: there is no client.
Rejected ==
    /\ pc = "read" /\ stage = "hello" /\ Complete /\ inb[1][1] = "Exception"
    /\ Decode
    /\ pc' = "failed"
    /\ UNCHANGED <<tls, stage, tag, blocks, left, sealed, events, wireVars, serverVars>>

\* Mutant: a packet that is no event stays where it is.
EventReturned_kept ==
    /\ pc = "read" /\ stage # "hello" /\ Complete
    /\ pc' = "idle"
    /\ IF inb[1][1] = "Unknown" THEN UNCHANGED <<inb, stage, events>>
       ELSE Decode /\ stage' = NextStage(inb[1][1]) /\ events' = Append(events, inb[1][1])
    /\ UNCHANGED <<tls, tag, blocks, left, sealed, wireVars, serverVars>>

\* The packet is converted and cleared.  One of an unknown kind is an error for
\* the caller, who may go on receiving.
EventReturned ==
    /\ pc = "read" /\ stage # "hello" /\ Complete
    /\ Decode /\ pc' = "idle"
    /\ IF inb[1][1] = "Unknown" THEN UNCHANGED <<stage, events>>
       ELSE stage' = NextStage(inb[1][1]) /\ events' = Append(events, inb[1][1])
    /\ UNCHANGED <<tls, tag, blocks, left, sealed, wireVars, serverVars>>

\* Nothing more will come, or the read fails.
ReadFails ==
    /\ pc = "read" /\ ~Complete /\ down = <<>> /\ (broken \/ (srv = "gone" /\ sout = <<>>))
    /\ pc' = "failed"
    /\ UNCHANGED <<tls, stage, tag, blocks, left, sealed, inb, events, wireVars, serverVars>>

\* An error ends the use of the client, as `?` does in every example.
DropClient ==
    /\ pc \in {"idle", "failed"}
    /\ pc' = "dropped"
    /\ UNCHANGED <<tls, stage, tag, blocks, left, sealed, inb, events, wireVars, serverVars>>

-----------------------------------------------------------------------------
(* The server.  It reads nothing while it writes. *)

Reply(kind, t, next) == sout' = Encode(kind, t) /\ srv' = next
Quiet(next) == srv' = next /\ UNCHANGED sout

\* A complete message <<k, t>>.
React(k, t) ==
    \/ srv = "greet" /\ k = "Hello" /\ UNCHANGED todo
       /\ (Reply("ServerHello", t, "addendum") \/ Reply("Exception", t, "gone"))
    \/ srv = "addendum" /\ k = "Addendum" /\ Quiet("idle") /\ UNCHANGED todo
    \/ srv = "idle" /\ k = "Select" /\ Quiet("select") /\ todo' = Stream
    \/ srv = "idle" /\ k = "Insert"
       /\ \/ Reply("Header", t, "insert") /\ todo' = Burst
          \/ Reply("Exception", t, "idle") /\ UNCHANGED todo
    \/ srv = "idle" /\ k = "Ping" /\ Reply("Pong", t, "idle") /\ UNCHANGED todo
    \/ srv = "idle" /\ k = "Cancel" /\ Quiet("idle") /\ UNCHANGED todo    \* came too late
    \/ srv = "select" /\ k = "Cancel" /\ Reply("EndOfStream", t, "idle") /\ UNCHANGED todo
    \/ srv = "insert" /\ k = "Data"
       /\ \/ Quiet("insert") /\ UNCHANGED todo
          \/ todo > 0 /\ Reply("Progress", t, "insert") /\ todo' = todo - 1
          \/ Reply("Exception", t, "skip") /\ UNCHANGED todo
    \/ srv = "insert" /\ k = "DataEnd" /\ Reply("EndOfStream", t, "idle") /\ UNCHANGED todo
    \/ srv = "skip" /\ k = "Data" /\ Quiet("skip") /\ UNCHANGED todo
    \/ srv = "skip" /\ k = "DataEnd" /\ Quiet("idle") /\ UNCHANGED todo

\* In state v the server has a meaning for messages of kind k.
Expects(v, k) ==
    \/ v = "greet" /\ k = "Hello"
    \/ v = "addendum" /\ k = "Addendum"
    \/ v = "idle" /\ k \in {"Select", "Insert", "Ping", "Cancel"}
    \/ v = "select" /\ k = "Cancel"
    \/ v \in {"insert", "skip"} /\ k \in {"Data", "DataEnd"}

\* The server can take what it has for a message, or for the start of one.
Sensible ==
    /\ got = Take(Len(got), Encode(got[1][1], got[1][2]))
    /\ Expects(srv, got[1][1])

Whole == got # <<>> /\ Len(got) >= Size(got[1][1])

ServerReads ==
    /\ up # <<>> /\ sout = <<>> /\ ~Whole /\ srv \notin {"gone", "garbled"}
    /\ up' = Tail(up) /\ received' = Append(received, Head(up)) /\ got' = Append(got, Head(up))
    /\ UNCHANGED <<tls, clientVars, down, broken, srv, todo, serving, sout>>

ServerActs ==
    /\ Whole /\ srv \notin {"gone", "garbled"}
    /\ IF Sensible
       THEN got' = <<>> /\ serving' = got[1][2] /\ React(got[1][1], got[1][2])
       ELSE srv' = "garbled" /\ UNCHANGED <<todo, serving, got, sout>>
    /\ UNCHANGED <<tls, clientVars, wireVars, received>>

\* The next packet of a SELECT, its end, or the exception that ends it.
ServerProduces ==
    /\ srv = "select" /\ sout = <<>> /\ ~Whole
    /\ \/ todo > 0 /\ todo' = todo - 1
          /\ \E k \in {"Data", "Progress", "Unknown"} : Reply(k, serving, "select")
       \/ todo = 0 /\ UNCHANGED todo /\ Reply("EndOfStream", serving, "idle")
       \/ UNCHANGED todo /\ Reply("Exception", serving, "idle")
    /\ UNCHANGED <<tls, clientVars, wireVars, serving, got, received>>

ServerWrites ==
    /\ sout # <<>> /\ Len(down) < DownCap
    /\ down' = Append(down, Head(sout)) /\ sout' = Tail(sout)
    /\ UNCHANGED <<tls, clientVars, up, broken, srv, todo, serving, got, received>>

\* The server sees the end of the connection, or goes away by itself.
ServerCloses ==
    /\ srv # "gone" /\ sout = <<>>
    /\ (Breakable /\ pc # "start") \/ (up = <<>> /\ pc = "dropped")
    /\ srv' = "gone"
    /\ UNCHANGED <<tls, clientVars, wireVars, todo, serving, got, sout, received>>

NetworkBreaks ==
    /\ Breakable /\ ~broken /\ pc \notin {"start", "dropped"}
    /\ broken' = TRUE
    /\ UNCHANGED <<tls, clientVars, up, down, serverVars>>

Over == pc = "dropped" /\ UNCHANGED vars
-----------------------------------------------------------------------------

Application ==
    \/ init \/ send_query \/ send_data \/ send_data_end \/ send_cancel \/ send_ping
    \/ recv_event \/ DropClient \/ Over

Callbacks ==
    \/ \E n \in 1..BlockUnits : WriteSome(n) \/ WriteRecords(n)
    \/ \E n \in 1..DownCap : ReadSome(n)
    \/ WriteDone \/ FlushDone \/ WriteFails
    \/ Greeted \/ Rejected \/ EventReturned \/ ReadFails

Server == ServerReads \/ ServerActs \/ ServerProduces \/ ServerWrites

Next == Application \/ Callbacks \/ Server \/ ServerCloses \/ NetworkBreaks

Spec == Init /\ [][Next]_vars

\* A thread inside a call keeps running its callbacks, and the server goes on with
\* its work.
FairSpec == Spec /\ WF_vars(Callbacks) /\ WF_vars(Server)

\* So does an application that, having asked, receives until the end of the query,
\* as send_cancel and the examples have it.  It need not ask anything.
ReceivingSpec == FairSpec /\ WF_vars(recv_event)

-----------------------------------------------------------------------------
(* The abstract connection this client implements *)

Untagged(s) == [i \in 1..Len(s) |-> <<s[i][1], s[i][3]>>]

\* The packets whose last unit is in s.
LastUnit == {u \in ServerKind \X Nat \X Nat : u[3] = Size(u[1])}
Kinds(s) == [i \in 1..Len(s) |-> s[i][1]]
PacketsOf(s) == Kinds(Within(s, LastUnit))

AbstractEncode(k) == Untagged(Encode(k, 0))

Abstract == INSTANCE Connection WITH
    Encode <- AbstractEncode,
    Requests <- ClientKind,
    Packets <- ServerKind,
    phase <- IF stage \in {"hello", "addendum"}
             THEN IF pc \in {"failed", "dropped"} THEN "gone" ELSE "greeting"
             ELSE "open",
    outbox <- Untagged(up \o sealed \o left),
    received <- Untagged(received),
    inbox <- PacketsOf(inb \o down \o sout),
    delivered <- events

-----------------------------------------------------------------------------
(* Properties *)

\* The client's calls and its server see two reliable first-in first-out
\* channels, as with the Tokio client: a call that fails cuts the outgoing one
\* and loses, repeats and reorders nothing (client.rs:280, client.rs:361).
ImplementsConnection == Abstract!ConnInit /\ [][Abstract!ConnNext]_(Abstract!connVars)

\* An event belongs to the query or ping the application is waiting for, also
\* after a Cancel that crossed the end of its query and with packets still in
\* flight (client.rs:345).
EventsInStep ==
    [][events' # events => inb[1][2] = tag /\ stage \notin {"free", "inserting"}]_vars

\* The server never reads a message it cannot make sense of where it stands: what
\* the application sends arrives whole, and in an order the protocol has.  This
\* holds for a message cut by a failed write too (tls.rs:151, io.rs:36).
ServerNeverConfused == srv # "garbled"

\* Every call returns, even with both directions of the connection full, as long
\* as what the server says during an INSERT fits (client.rs:333, client.rs:361).
CallsReturn == pc \in {"write", "flush", "read"} ~> pc \in {"idle", "failed", "dropped"}

\* A query that is asked, or cancelled, ends for an application that goes on
\* receiving, whatever packets come before its end (client.rs:345, client.rs:565).
QueriesEnd ==
    stage \in {"reading", "stopping", "header", "finishing", "pinged"}
        ~> (stage \in {"free", "inserting"} \/ pc \in {"failed", "dropped"})
=============================================================================
