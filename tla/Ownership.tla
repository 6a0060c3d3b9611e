------------------------------ MODULE Ownership ------------------------------
(***************************************************************************)
(* Who owns what between C and Rust, for the blocking Client of            *)
(* src/src/client.rs and the IolessClient of src/src/ioless.rs: the C      *)
(* connection and the parts whose addresses it retains, and the blocks and *)
(* exceptions that C allocates, hands over in a packet or as a handshake   *)
(* exception, and that the application keeps as events.                    *)
(*                                                                         *)
(* A client is used from one thread at a time, but events are Send: the    *)
(* application drops them in any order, on other threads, during a call    *)
(* and after the client is gone.  Addresses are reused once released, so a *)
(* stale pointer hits somebody else's block.                               *)
(***************************************************************************)
CONSTANTS Obj,      \* addresses for blocks and exceptions
          NoObj     \* the null pointer

ASSUME OwnershipAssumption == NoObj \notin Obj

Pointer == Obj \cup {NoObj}

\* The packet kinds, by what they carry; "unknown" is none of PacketKind's.
Kind == {"block", "exception", "plain", "unknown"}

VARIABLES
    blocking,   \* a Client (TRUE) or an IolessClient (FALSE)
    given,      \* what the application passed in: codec and transport
    parts,      \* of `given` and the boxed allocator, what is still there
    conn,       \* C connection: "none", "open" or "closed"
    pc,         \* where the client's thread is: see Pc
    heap,       \* objects allocated and not freed
    kind, payload,  \* recv_event's local `raw`: a chc_packet
    exc,        \* handshake's local `exc`
    held,       \* payload of the event from_raw returned
    app,        \* payloads of the application's events
    bad         \* something was freed that was not allocated

ownVars == <<blocking, given, parts, conn, pc, heap, kind, payload, exc, held, app, bad>>

\* new and init: before, during and after the C call; greeting: a new
\* IolessClient; idle: between calls; failed, convert, clear: in recv_event.
Pc == {"start", "init", "rejected", "greeting", "idle", "failed", "convert", "clear",
       "drop", "gone"}

\* The type of every variable.
OwnTypeOK ==
    /\ blocking \in BOOLEAN /\ bad \in BOOLEAN
    /\ given \subseteq {"codec", "io"} /\ parts \subseteq {"alloc", "codec", "io"}
    /\ conn \in {"none", "open", "closed"} /\ pc \in Pc
    /\ heap \subseteq Obj /\ app \subseteq Obj
    /\ kind \in Kind
    /\ payload \in Pointer /\ exc \in Pointer /\ held \in Pointer

OwnInit ==
    /\ blocking \in BOOLEAN
    /\ given \in {p \in SUBSET {"codec", "io"} : "io" \in p <=> blocking}
    /\ parts = given
    /\ conn = "none" /\ pc = "start"
    /\ heap = {} /\ app = {} /\ bad = FALSE
    /\ kind = "plain" /\ payload = NoObj /\ exc = NoObj /\ held = NoObj

-----------------------------------------------------------------------------
(* C's allocator *)

Unallocated == Obj \ heap

\* p is null, or a new object.
MayAllocate(p) ==
    \/ p = NoObj /\ UNCHANGED heap
    \/ p \in Unallocated /\ heap' = heap \cup {p}

\* Frees an object; null is ignored.
Free(p) ==
    /\ heap' = heap \ {p}
    /\ bad' = (bad \/ p \notin heap \cup {NoObj})

-----------------------------------------------------------------------------
(* Client::init, IolessClient::new and the handshake *)

\* validate_codec or to_raw reports a usage error; the arguments are dropped.
Refused ==
    /\ pc = "start"
    /\ pc' = "gone" /\ parts' = {}
    /\ UNCHANGED <<blocking, given, conn, heap, kind, payload, exc, held, app, bad>>

BoxAllocator ==
    /\ pc = "start"
    /\ pc' = "init" /\ parts' = parts \cup {"alloc"}
    /\ UNCHANGED <<blocking, given, conn, heap, kind, payload, exc, held, app, bad>>

\* The C call succeeds; the blocking client has been through the handshake.
InitOk ==
    /\ pc = "init"
    /\ conn' = "open"
    /\ pc' = IF blocking THEN "idle" ELSE "greeting"
    /\ UNCHANGED <<blocking, given, parts, heap, kind, payload, exc, held, app, bad>>

\* The C call fails and leaves no connection behind.
InitFails ==
    /\ pc = "init"
    /\ pc' = "gone" /\ parts' = {}
    /\ UNCHANGED <<blocking, given, conn, heap, kind, payload, exc, held, app, bad>>

\* The server rejects the handshake: C hands over the exception.
HandshakeRejected ==
    /\ (pc = "init" /\ blocking) \/ pc = "greeting"
    /\ exc' \in Unallocated /\ heap' = heap \cup {exc'}
    /\ pc' = "rejected"
    /\ UNCHANGED <<blocking, given, parts, conn, kind, payload, held, app, bad>>

\* The exception becomes an Error and is dropped.  A Client was never built; an
\* IolessClient stays with its owner.
take_handshake_exception ==
    /\ pc = "rejected"
    /\ Free(exc) /\ exc' = NoObj
    /\ IF blocking THEN pc' = "gone" /\ parts' = {} ELSE pc' = "greeting" /\ UNCHANGED parts
    /\ UNCHANGED <<blocking, given, conn, kind, payload, held, app>>

\* IolessClient::handshake is Ready.
HandshakeReady ==
    /\ pc = "greeting"
    /\ pc' = "idle"
    /\ UNCHANGED <<blocking, given, parts, conn, heap, kind, payload, exc, held, app, bad>>

-----------------------------------------------------------------------------
(* recv_event *)

\* The C call fails; it may have filled in a payload before.
RecvFails ==
    /\ pc = "idle"
    /\ kind' \in {"block", "exception", "plain"}
    /\ payload' \in IF kind' = "plain" THEN {NoObj} ELSE Pointer
    /\ MayAllocate(payload')
    /\ pc' = "failed"
    /\ UNCHANGED <<blocking, given, parts, conn, exc, held, app, bad>>

\* The C call succeeds; that a block or exception is there is checked later.
RecvOk ==
    /\ pc = "idle"
    /\ kind' \in Kind
    /\ payload' \in IF kind' \in {"block", "exception"} THEN Pointer ELSE {NoObj}
    /\ MayAllocate(payload')
    /\ pc' = "convert"
    /\ UNCHANGED <<blocking, given, parts, conn, exc, held, app, bad>>

\* Mutant: the packet keeps its pointer to the block.
from_raw_shared ==
    /\ pc = "convert"
    /\ held' = payload
    /\ pc' = "clear"
    /\ UNCHANGED <<blocking, given, parts, conn, heap, kind, payload, exc, app, bad>>

\* Event::from_raw: take_block and take_exception move the payload out of the
\* packet; a null one, and an unknown kind, is an error.
from_raw ==
    /\ pc = "convert"
    /\ IF kind \in {"block", "exception"} THEN held' = payload /\ payload' = NoObj
       ELSE UNCHANGED <<held, payload>>
    /\ pc' = "clear"
    /\ UNCHANGED <<blocking, given, parts, conn, heap, kind, exc, app, bad>>

\* Mutant: the error path returns without clearing the packet.
packet_clear_skipped ==
    /\ pc \in {"failed", "clear"}
    /\ IF pc = "clear" THEN Free(payload) ELSE UNCHANGED <<heap, bad>>
    /\ kind' = "plain" /\ payload' = NoObj
    /\ app' = app \cup ({held} \ {NoObj}) /\ held' = NoObj
    /\ pc' = "idle"
    /\ UNCHANGED <<blocking, given, parts, conn, exc>>

\* chc_packet_clear on the error path or after from_raw, and the return.
packet_clear ==
    /\ pc \in {"failed", "clear"}
    /\ Free(payload)
    /\ kind' = "plain" /\ payload' = NoObj
    /\ app' = app \cup ({held} \ {NoObj}) /\ held' = NoObj
    /\ pc' = "idle"
    /\ UNCHANGED <<blocking, given, parts, conn, exc>>

-----------------------------------------------------------------------------
(* Drop *)

\* Block::drop or Exception::drop, on whichever thread has the event.
DropEvent ==
    \E o \in app :
        /\ Free(o) /\ app' = app \ {o}
        /\ UNCHANGED <<blocking, given, parts, conn, pc, kind, payload, exc, held>>

\* Mutant: the connection is left to be closed after its parts.
drop_late ==
    /\ pc \in {"greeting", "idle"}
    /\ pc' = "drop"
    /\ UNCHANGED <<blocking, given, parts, conn, heap, kind, payload, exc, held, app, bad>>

\* The client's drop closes the C connection; Rust then drops the fields.
drop ==
    /\ pc \in {"greeting", "idle"}
    /\ conn' = "closed" /\ pc' = "drop"
    /\ UNCHANGED <<blocking, given, parts, heap, kind, payload, exc, held, app, bad>>

\* In the order of their declaration.
DropField ==
    /\ pc = "drop"
    /\ \/ "alloc" \in parts /\ parts' = parts \ {"alloc"} /\ UNCHANGED pc
       \/ /\ "alloc" \notin parts /\ "codec" \in parts
          /\ parts' = parts \ {"codec"} /\ UNCHANGED pc
       \/ /\ "alloc" \notin parts /\ "codec" \notin parts
          /\ parts' = {} /\ pc' = "gone"
    /\ UNCHANGED <<blocking, given, conn, heap, kind, payload, exc, held, app, bad>>

OwnNext ==
    \/ Refused \/ BoxAllocator \/ InitOk \/ InitFails
    \/ HandshakeRejected \/ take_handshake_exception \/ HandshakeReady
    \/ RecvFails \/ RecvOk \/ from_raw \/ packet_clear
    \/ DropEvent \/ drop \/ DropField

OwnSpec == OwnInit /\ [][OwnNext]_ownVars

-----------------------------------------------------------------------------
(* Properties *)

\* Every object allocated has exactly one owner - the packet, the handshake's
\* local, the event about to be returned or one event of the application - and
\* every owner's object is allocated: nothing leaks on any error path, and
\* nothing the application still has is freed under it.
SingleOwner ==
    /\ heap = ({payload, exc, held} \ {NoObj}) \cup app
    /\ \A p \in {payload, exc, held} : p \notin app
    /\ payload # NoObj => payload # exc /\ payload # held
    /\ exc # NoObj => exc # held

\* Nothing is freed twice, whichever thread drops its event first.
NoBadFree == ~bad

\* As long as the C connection can use them, the allocator, the codec and the
\* transport whose addresses it retains are there; and a client that is gone
\* has left none of them and no connection behind.
PartsOutliveConnection ==
    /\ conn = "open" => parts = given \cup {"alloc"}
    /\ pc = "gone" => conn # "open" /\ parts = {}
=============================================================================
