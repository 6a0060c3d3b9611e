# A verification of clickhouse-c-rs in TLA+

`clickhouse-c-rs` is a safe Rust interface to the C library `clickhouse-c`: a
client of ClickHouse's native protocol, blocking or asynchronous, and a reader
and a writer of Native blocks.  The wire format is C's.  What this crate adds,
and what can go wrong in it, is everything around C: who owns an object and for
how long, which lengths C may trust, which bytes are between which two buffers
when a call is given up half-way, and how long a call may take.  The modules in
this directory model that part, TLC checks them on small instances, and TLAPS
proves every safety property of the passing runs for all instances.

## The system

| Component | Source | State | Operations | What makes it correct |
|---|---|---|---|---|
| `AsyncClient` | `async_client.rs` | core, transport, read buffer; the locals of a future that is pending | `connect*`, `send_*`, `recv_event`, `core`; inside them `drain_out`, `read_more`, `pump_until_ready`; the drop of a future at any await | no byte lost, repeated or reordered; no decoded event lost; nothing left unsent while waiting for an answer; calls return |
| `IolessClient` | `ioless.rs` | C object with an input and an output buffer and the state of the Hello exchange | `new`, `submit`, `pending_out`, `consume_out`, `handshake`, `send_*`, `recv_event`, drop | the buffers are FIFO; a packet that fails leaves the stream in step |
| `Client`, `Event`, `Exception` | `client.rs` | C connection, boxed allocator, codec, transport; events with owned payloads | `init`, `send_query*`, `send_data`, `send_cancel`, `send_ping`, `recv_event`, `set_read_timeout`, drop | what is reported as sent is sent, whole; an event belongs to the query that is open; calls return; one owner for every payload on every path; parts outlive the connection |
| `Allocator` | `alloc.rs` | none of its own: C's counts and Rust's layouts | `alloc`, `realloc`, `free` callbacks | every layout valid and the one the block was granted with |
| `PosixIo`, `SliceIo`, `CancelToken` | `io.rs`, `wrapper.c` | descriptor, absolute deadline, shared flag; slice and position | `set_read_timeout`, `cancel`, read callbacks | a timeout that was asked for is in force; at most one read after a cancel |
| `TlsIo` | `tls.rs` | rustls connection and socket, pinned, with the callback table that points back to them | `connect` (with the TLS handshake), `set_read_timeout`, read callback, write callback (which writes all and flushes) | no short write taken for a full one; the error of a callback reaches the caller |
| `BlockReader`, `Block`, `Column` | `block.rs` | C input buffer; block; borrowed views | `new`, `read`, drop; accessors | blocks in order, end only at a boundary; views in bounds |
| `ColumnBuilder`, `BlockBuilder` | `builder.rs` | column tree, vector of columns, raw block that points into it | `fixed`, `string`, `nullable`, `array`, `low_cardinality`, `tuple`, `append*` | the writer, which checks nothing, reads inside every slab |
| `Codec` | `codec.rs` | table of callbacks in a pinned box | `empty`, `lz4`, `zstd`, `from_raw`, `raw_mut`, `supports` | C never calls a callback that is not installed |
| `QueryOpts`, `ClientOpts` | `query.rs`, `client.rs` | settings, parameters; owned C strings and arrays of pointers to them | `RawQueryOpts::new`, `to_raw`, drop | C reads what the application asked for, each value with its own name |
| `TypeAst`, `TypeRef` | `types.rs` | owned C type tree, borrowed views | `parse`, accessors | children borrowed from a live root |
| `Error` | `error.rs` | the buffer of `chc_err` during one call | `check`, the transports' error writers, conversion of an exception | the message is this call's, the rejection's is whole |
| build script, parity tests | `build.rs`, `parity.rs`, `sys.rs`, `layout_probe.c` | none at run time | header scan, generated constants, tests that compare | the crate's constants and lists are the header's; an unknown code is never taken for a known one |

How they interact.  `AsyncClient` owns an `IolessClient` and a Tokio transport
and moves bytes between them; the core never does I/O.  `Client` hands C the
addresses of its allocator, its codec and its transport, and C calls back
through them.  `recv_event` of both clients receives a C packet, converts it
with `Event::from_raw` into an event that owns a block or an exception, and
clears the packet.  Events are `Send` and outlive the client.  A `CancelToken`
is the one thing two threads share during a call.  `BlockReader` borrows a
transport exclusively for as long as it lives.

What is hard here: futures dropped at every await while the client stays in use
(`async_client.rs:175-219`); a transport that accepts bytes without sending
them; a peer that stops between or inside messages; payloads freed on one thread
while a call runs on another; a packet whose conversion fails half-way; corrupt
counts handed to the allocator; a cancel that races a read parked in the OS;
deadlines at the ends of an `i64`, with zero reserved; sums and products of
lengths at the ends of a `usize`; a vector that moves under a raw pointer; two
sides that both write and do not read; a Cancel that crosses the end of its query;
a TLS read that times out inside a record; offsets and keys from the wire used as
indexes; a header of another version than the crate's.
`PROJECT.json` lists these hazards one by one with their lines and the
properties that cover them, or the reason why none does.

## The modules

| Module | Models | Notes |
|---|---|---|
| `IolessClient` | `ioless.rs` | buffers and the methods as operators; C's encoder and decoder are external |
| `AsyncClient` | `async_client.rs`, with a transport and a server | extends `IolessClient`; one action per stretch of code between two awaits |
| `Connection` | what a client promises: two reliable FIFO channels | abstract; `AsyncClient` and `BlockingClient` implement it |
| `SeqFilter` | `Within`: the elements of a sequence that are in a set | `SelectSeq` as a recursive function over positions, which can be proved about; used by `BlockingClient` and `TlsIo` |
| `Allocator` | the callbacks of `alloc.rs` against a `GlobalAlloc` | C's use of them is external |
| `Ownership` | construction, `recv_event`, events and drop of `Client` and `IolessClient` | |
| `PosixIo` | transports, deadline and cancel token of `io.rs` | operators and state for the next module |
| `BlockReader` | `BlockReader` on a `PosixIo` or `SliceIo` | extends `PosixIo` |
| `BlockBuilder` | `builder.rs` | ends with what C's writer reads, as the reference |
| `BlockingClient` | sends, receives and drop of `client.rs` over `PosixIo` or `TlsIo`, with a server | implements `Connection` too |
| `TlsIo` | `connect`, `set_read_timeout`, `tls_read` of `tls.rs` | rustls and the socket are external |
| `ColumnView` | `Block::validate`, `column` and the getters of `Column` in `block.rs` | the read side's counterpart of `BlockBuilder` |
| `CStrings` | `cstring` of `query.rs`, and a heap that reuses addresses | operators for the next two |
| `QueryOptions` | `RawQueryOpts` of `query.rs` from `new` to drop | extends `CStrings` |
| `ClientOptions` | `to_raw`, `validate_codec`, `init` of `client.rs`, and `codec.rs` | extends `CStrings` |
| `ErrorText` | `error.rs`, `set_err`, `slice_write`, `From<Exception>`, `TypeRef::format` | |
| `HeaderEnums` | `parse_enum_body`, the generated constants, the `from_raw` conversions, `parity.rs` | |
| `Boundary` | the last four, one at a time | the module TLC checks them in |
| `MCAsyncClient`, `MCBlockBuilder`, `MCBoundary` | instances for TLC | |
| `SeqLemmas` | lemmas on sequences | cutting, joining and filtering, by elements and as wholes |
| `AsyncClientProofs`, `BlockingProofs` | proofs about the two clients | each ends with the refinement of `Connection` |
| `ReaderProofs`, `TlsProofs` | proofs about `PosixIo` and `BlockReader`, and about `TlsIo` | |
| `BuilderProofs` | proofs about `BlockBuilder` | |
| `MemoryProofs` | proofs about `Allocator`, `Ownership` and `ColumnView` | one part for each |
| `BoundaryProofs` | proofs about `Boundary`, and so about the four modules in it | one part for each |

### AsyncClient on IolessClient

A message or a packet is `Units` units, so that a transfer can be cut inside
one.  The state of the core is `outq` (what `pending_out` shows), `inbuf` (what
was submitted and not decoded) and `hs`.  The state of the pending future is the
method (`op`), the await it is at (`pc`), what `drain_out`'s caller does next
(`cont`) and the locals `wrote` and `held` (the event that `recv_event` keeps
across the last `drain_out` of `pump_until_ready`).  An action runs from one
await to the next, as the code does: `DrainNothing` and `FlushDone` include the
core's step and the entry into the next `drain_out`.  `DropFuture` is enabled at
every await and keeps the core and the transport, as Rust does; the handshake
owns its client, so dropping it drops the client.  The transport (`tbuf`, `up`,
`down`) may accept any part of a write and hold any part of what it accepted
until it is flushed.  Both directions have a capacity, and the server does not read
while it has something to write.  The server follows the query protocol, answers a message
it does not expect with an exception, and may go away at any time.

`queued`, `eaten`, `decoded`, `events`, `got`, `sent`, `cut` and `lost` are
history.  `Disciplined` restricts the application to one query at a time; it is
`TRUE` only in the runs about liveness and in the one about the flush.

What the model takes apart that a reader may not expect:
* A send future that is dropped after its message was queued has sent it: a
  retry sends a second copy.  The model allows both calls, and the properties
  are about bytes.
* A `submit` that fails for lack of memory loses the bytes that were read
  (`lost`); the decoder may then see a packet with a hole.  `InboundIntegrity`
  excludes that case, and `ImplementsConnection` speaks of the steps before it.
* The core may refuse a message (`AfterDrain`, second disjunct): the method
  returns an error and nothing is queued.
* `core()` gives the application the whole `IolessClient`.  The model uses it to queue
  messages (`CoreSend`); an application that takes events, submits input or consumes
  output through it works behind the pump's back, and nothing is said of that.
* `drain_out` never reads.  A server that has to write before it reads on, and a client
  that has to write before it reads, wait for each other for ever once both directions
  are full.  The liveness properties are therefore stated under `InsertFits`: what the
  server may say while it takes the rows of an INSERT fits on its wire.  With `DownCap
  = 2` in `AsyncLiveness.cfg`, and so room for one progress packet of two, TLC finds the
  deadlock when that condition is taken out of the properties.

### Allocator

`kept` is the count that C remembers for each of its blocks, `granted` the size
of the layout that the block has on the Rust side.  A count of zero becomes a
layout of one byte, and a count that has no layout is refused by `alloc` and
ignored by `free`.  `CorruptSizes` are counts that C may pass in place of its
own; they are limited to counts without a layout, since no code can tell another
one from the true one.

### Ownership

One client of either kind from construction to drop.  `heap` is what C has
allocated for it; `payload`, `exc`, `held` and `app` are the places that can own
one of these objects.  `DropEvent` may happen between any two steps of a call,
because events are `Send`.  Addresses are reused, so a stale pointer frees
somebody else's object.

### PosixIo and BlockReader

The deadline is an absolute `i64` of microseconds in which zero means none, and
`DeadlineFor` keeps the saturation and the `max(1)` of `set_read_timeout`.  The
cancel flag is looked at before a read is handed to the OS and not while it is
parked there.  The flag is `Relaxed` in the code; the model makes a store visible
at once, so `AtMostParkedRead` counts from the moment the store is seen.
A read that fails inside a block may or may not have used up the start of that
block (this is C's decision): `lost` records it, and the properties about blocks
hold until then.

### BlockBuilder

The constructors are the guards of the code on lengths, offsets, keys and row
counts; `UsizeMax`, `IsizeMax` and `ByteBase` are parameters, so the
overflow and the saturation happen in a small instance too.  A tuple has two
children.  `ReadsInBounds` states, independently of those guards, what C reads
for an accepted column.  `append` pushes a column built here, `append_column` one that
was decoded: it lies in C's memory, and the builder looks at its row count only.  The
bounds of what C reads of a decoded column are therefore C's, and `WriterStaysInBounds`
is about the columns of `ColumnBuilder`; `RawBlockCurrent` is about both.

### BlockingClient

A call runs its transport callbacks to the end, so the state of the caller is one
`pc` and the unfinished message `left`; on TLS `sealed` is what rustls took and has
not written to the socket.  `stage` is the application's place in the protocol.  The
application is one that follows it, as the code itself does not check it: one query
at a time, rows only after the header, receiving up to the end also after a Cancel,
and no further use of a client whose call failed on the transport, which is what `?`
does with it in every example.  The code does not enforce this last point, timeouts and
cancels included, after which an application might well go on: what the server makes of
such a client is not modelled.  Messages carry the number of their query, so
that `EventsInStep` can tell whose packet an event was.  The server streams, does
not read while it writes, may report progress during an INSERT, reject, fail and go
away.

The two directions hold few units.  `BlockingAssumption` asks that what the server
says during an INSERT before it has read all of it fits into the connection.  This
is needed: the client does not read during a send, and with `DownCap = 1`,
`Burst = 1` and `MaxData = 3` TLC finds both sides blocked in a write.  The same
holds for the async client, whose first `drain_out` waits in the same way (`UpCap =
1` with room for only one of two progress packets; see `InsertFits` above).  No text of the repository
promises more, so this is a limit to know and not a finding.

### TlsIo

The socket delivers pieces of records, rustls keeps an incomplete record across a
failed read, and one socket read can complete several records, a session ticket
without payload included.  The timeout is the socket's: relative, started again
by every socket read of one `tls_read`, and `Some(0)` is refused by the standard
library.  `tls_write` is `WriteSome`, `WriteRecords`, `WriteDone` and `FlushDone` of
`BlockingClient`.

### ColumnView

A column is a layout, a row count, a width, the size of its slab (or none), what its
offsets or keys say, and the rows of its child.  C is trusted for the slabs, as
`slice_or_none`'s contract says, and not for what is in them.  `UsizeMax` is smaller
than `U64Max`, as on a 32-bit target.  The `debug_assert`s of the getters are a debug
build's and left out.  A null pointer, the offsets of a string column included, makes a
getter return `None` (`NoView`).

### CStrings, QueryOptions and ClientOptions

A heap of addresses that are given out again, so a pointer kept too long reads
somebody else's bytes.  In `QueryOptions` the C arrays and the frame that holds the
raw structure are on that heap too, since the structure is moved to the caller after
the addresses were taken.  `ClientOptions` follows the callback table through the
hands of the application (`raw_mut`, `from_raw`) into the client, and C's calls
through it for the rest of the client's life.

### ErrorText

One call at a time, in which the buffer may be written more than once.  A text is a
sequence of bytes, two of which form one character, so that `from_utf8_lossy` of a
text that was cut has something to replace.  A transport that is given no error slot
writes none.

### HeaderEnums

An enum of a header is taken through `parse_enum_body`, the compiler (which refuses a
missing constant, and two variants with one discriminant), the conversions and the
parity tests.  The header may know fewer entries than the crate, more, or other values.

An initializer is its form, its sign and its digits, so that `parse_c_integer` and the C
compiler each give it the number they read: `0x` literals in base 16, everything else in
base 10 for the one and octal literals in base 8 for the other.  They differ for an
octal literal of more than one digit (`010` is 8 in C and 10 in the constants), a negative
`0x` literal and an expression (both skipped); `Misread` names these.  Enumerators are
integers without bound, as C's fit an `int` and the scan's an `i64`.  `Arms` are the
variants of the crate in the order of its matches, of which the first that fits wins.

### Boundary

`QueryOptions`, `ClientOptions`, `ErrorText` and `HeaderEnums` share no state beyond the
call in progress: a client makes one call at a time, and the enums are fixed when it is
built.  So a behaviour of `Boundary` follows one of the four, chosen in the initial state,
and the states add up instead of multiplying.  Its properties are theirs.

## The runs

| Run | Configuration | Checks | Shows |
|---|---|---|---|
| `async_safety` | `AsyncSafety` | `TypeOK`, `OutboundIntegrity`, `InboundIntegrity`, `NoEventLost`, `FlushBeforeRead`, `ImplementsConnection` | with any two faults and no discipline, no byte and no event is lost; the byte pump implements the two channels of `Connection` |
| `async_liveness` | `AsyncLiveness` | `MethodReturns`, `QueryAnswered` | every call returns and every query ends, also when the server goes away, where an INSERT's replies fit |
| `async_lost_flush` | `AsyncLostFlush` | `FlushedBeforeEveryRead`, violated | finding 1 |
| `alloc_safety` | `AllocSafety` | `BooksAgree`, `NoInvalidLayout` | layouts are valid and match while C's resizes have a layout |
| `alloc_corrupt_growth` | `AllocCorruptGrowth` | `NoInvalidLayout`, violated | finding 2 |
| `ownership` | `Ownership` | `SingleOwner`, `NoBadFree`, `PartsOutliveConnection` | no leak, no double free, no part dropped too early |
| `reader` | `Reader` | `DeadlineInForce`, `AtMostParkedRead`, `BlocksInOrder`, `EndAtBoundary`, `ReadEnds` | blocks arrive in order, timeouts fire, a cancel ends the next read |
| `builder` | `Builder` | `WriterStaysInBounds`, `RowsFitSlice`, `RawBlockCurrent` | no composition of constructors makes C read out of bounds, and the raw block never points to a vector that moved |
| `blocking` | `Blocking` | `ServerNeverConfused`, `EventsInStep`, `ImplementsConnection`, `CallsReturn`, `QueriesEnd` | messages arrive whole and in step, also over a network that breaks; the client implements `Connection`; no deadlock with full wires, and a cancelled query ends |
| `tls` | `Tls` | `TlsInOrder`, `EofMeansAll`, `TimedReadsReturn` | timeouts inside a record lose nothing, a cut stream is no clean end, a timeout that was accepted ends every read |
| `views` | `Views` | `ViewWithinSlab`, `EveryRowInView`, `CheckedIndexInRange` | views stay in their slabs; validated indexes lead to rows |
| `boundary` | `MCBoundary`, `Boundary.cfg` | `SeenAsAsked`, `HelloAsAsked`, `CalledAreInstalled`, `MessageIsThisCalls`, `LongTextIsWhole`, `LiteralValuesMatchC`, `NeverAnotherVariant`, `PassedMeansCovered` | C reads what was asked, after all moves; no call of a missing callback; every text is its own call's and as whole as its buffer; enum values are C's as far as the scan reads them, and where it reads all, conversions are safe against older and newer headers |

Bounds.  Two units per message are enough to cut one in every way that matters:
before, inside and after.  One call of each kind gives an INSERT with a block, its
end, and a SELECT in any order, and lets a call find the remains of each other one;
two faults give a fault during the recovery from a fault.  In the liveness run two
SELECTs exercise a second query on a used connection.  The allocator has more
addresses than C needs for a move next to a live block, and counts on both sides of
every limit (0, 1, the largest with a layout, the smallest without).  Three objects
let a payload be received while two events live.  The reader gets two and a half
blocks through a buffer that holds one and a half, timeouts of zero, two and more
than an `i64`, and a clock that reaches the end of its range.  The builder has nodes
three deep, two appends, offsets beyond `usize`, and slabs on both sides of what is required.
The blocking client has wires of one unit up and two down and blocks of two units,
so that every block is cut and both directions get full; two queries or pings show
what the first leaves behind, and two blocks of an INSERT, or a block and the end of
a SELECT, are more than the wires hold.  TLS records have up to three pieces on a
wire of three, with timeouts of zero, one and two ticks.  Views have products and
offsets on both sides of the largest `usize`.  Two settings and a parameter are the
least that can be paired wrongly in each way.  Error texts are up to one byte longer
than the buffer.  Three entries of an enum hold an initializer of any of the eight kinds
(none, decimal and octal of one digit, octal of two, negative decimal, hexadecimal of
either sign, an expression), one counted on from it, and another whose value clashes with
one of the two; the five names are two the crate knows, one that it leaves out, one that it does not
know and a sentinel.  The runs turn the deadlock check off where
the bounds end the behaviour, and in `ownership`, where a client that is gone with
all its events dropped has nothing left to do; the allocator, which has no such
bound, is checked for deadlock.

Fairness.  `AsyncClient` assumes that a task whose wait is over is polled (Tokio
promises it), that the network carries bytes, the server answers, a write to a peer
that has closed fails in the end, and that the application keeps calling
`recv_event` and ends its INSERT; it does not assume that the server stays, nor that
anything else is called.  Besides fairness it needs `InsertFits` (above), which
`AsyncLiveness.cfg` satisfies with nothing to spare.  `BlockReader` assumes that the reading thread runs and
that the clock advances; it assumes nothing of the peer, and so the property is
limited to reads that have a deadline or a closed peer.  `BlockingClient`
(`ReceivingSpec`) assumes that a thread inside a call runs its callbacks, that the
server goes on with its work or is gone, and that an application that asked
something calls `recv_event`; it need not ask, send more rows, or cancel.  `TlsIo`
assumes that the socket's timer runs and that a socket read which can return does;
it assumes nothing of the server.

Every property was tried against a plausible bug in the code it is about; those
variants stand next to the definition they replace, marked *Mutant*, and none of
them is used by a specification.

## Findings

1. *A flush that was cut short is not made up for* (`async_client.rs:191`).
   `drain_out` flushes only if it wrote something itself.  A future dropped while
   it flushes leaves the queue empty and bytes in the transport; the next
   `recv_event` writes nothing, therefore flushes nothing, and reads.  The
   documentation says "Flushing before the read is not optional" (`docs/index.mdx:544`).
   With a TLS transport the peer may never get the rest of the request, and the
   read waits for an answer to it.  `FlushBeforeRead` states what the code does
   guarantee, `FlushedBeforeEveryRead` what the documentation asks for.
2. *A resize to a count without a layout reaches the allocator* (`alloc.rs`,
   `realloc`).  The old count is checked with `layout`, the new one is
   passed to `GlobalAlloc::realloc` as it is.  A test comment says "A corrupt length
   field must reach the OOM path, not an invalid layout" (`alloc.rs:286`); `alloc`
   keeps to that, growth does not.
Two more disagreements were met while modelling and are part of the models, not of a run:

* `parse_enum_body` skips an enumerator whose value is an expression and does not count it
  (`build.rs:451`), and `parse_c_integer` reads an octal literal as a decimal one
  (`build.rs:470`); that entry or the implicit ones behind it get values other than C's.
  The constants and the parity tests both come from this scan, so the tests pass, while
  `docs/index.mdx:686` says an upstream bump "fails the build rather than corrupting memory
  at the boundary".  `LiteralValuesMatchC` says how far such an initializer reaches, and the
  other two properties are about headers without one.
* A query identifier with a null byte is passed by pointer and length as it is
  (`query.rs:161`), while the module's documentation says "Strings containing null bytes
  return `ErrorKind::Usage`" (`query.rs:4`).  `SeenAsAsked` shows that C reads it as given.

## The proofs

Every invariant of a passing run, the action property `EventsInStep` and both refinements
of `Connection` are theorems.  A theorem has the name below and is in the module above it.

| Theorem | Statement | Argument |
|---|---|---|
| **`AsyncClientProofs`** | | |
| `Typing` | `[]TypeOK` | by action; `TypeOK` says also that a future in the first drain of a send has the method of a send, without which the queue could hold something else |
| `OutboundSafe`, `InboundSafe` | `[]OutboundIntegrity`, `[]InboundIntegrity` | inductive with `TypeOK`; moving the front of one sequence to the end of the one before it keeps the concatenation (`SeqLemmas`) |
| `NoEventLostSafe` | `[]NoEventLost` | needs `PumpInv`: an event is in hand only in the last drain of `recv_event`, with the queue empty and nothing written, so that drain never awaits |
| `FlushSafe` | `[]FlushBeforeRead` | needs the rest of `PumpInv`: after a drain that wrote, and unless it was cut short, the transport holds nothing back |
| `Refinement` | `ImplementsConnection` | below |
| **`BlockingProofs`** | | |
| `NeverConfused` | `[]ServerNeverConfused` | from `Inv`, below |
| `EventsCurrent` | `EventsInStep` | from `Inv` |
| `Refinement` | `ImplementsConnection` | below |
| **`ReaderProofs`** | | |
| `ReadTimeoutInForce` | `[]DeadlineInForce` | by cases on the ends of an `i64`: the sum saturates, the result is at least one |
| `CancelStopsReads` | `[]AtMostParkedRead` | needs `FetchesCounted`: nothing is counted before the cancel, and a parked read was let through before it |
| `ReadsInOrder` | `[]BlocksInOrder` | needs `StreamKept`: the blocks returned were sent, so the rest of the stream is as long as it should be; and `OneReader`: without a reader nothing is buffered |
| `NoneAtBoundary` | `[]EndAtBoundary` | needs `EndKept`: after the end the peer is closed, so nothing can be sent that was not returned |
| **`TlsProofs`** | | |
| `StreamInOrder` | `[]TlsInOrder` | the payload of a concatenation is that of its parts (`WithinConcat`), so a piece may move from the wire to rustls inside a record |
| `EofIsTheEnd` | `[]EofMeansAll` | needs `NotifyLast` and `CleanIsLast`: the server sends nothing behind its close_notify, and nothing is left once rustls has processed it |
| **`BuilderProofs`** | | |
| `WriterSafe` | `[]WriterStaysInBounds` | every accepted node passes `Reads` with the nodes of its time; later nodes do not change it.  That monotone offsets stay below the last one is `LastOfRun` |
| `RowsSafe` | `[]RowsFitSlice` | part of `NodesOK` |
| `RawBlockSafe` | `[]RawBlockCurrent` | inductive: `append` refreshes the pointer in the same step |
| **`MemoryProofs`** | | |
| `BooksSafe` | `[]BooksAgree` | inductive with types and with `AllHaveLayouts`: every count C keeps has a layout, so `free` is never ignored for a true count |
| `LayoutSafe` | `[]NoInvalidLayout` | from the same invariant, if every resize has a layout |
| `SingleOwnerSafe` | `[]SingleOwner` | inductive with `LocalsInUse`: which locals can be non-null at which point of a call |
| `NoBadFreeSafe` | `[]NoBadFree` | every free is of an object its owner holds |
| `PartsSafe` | `[]PartsOutliveConnection` | needs `Lifecycle`, which ties the phases of construction and drop to the parts |
| `SlicesFit`, `SlicesWhole` | `[]ViewWithinSlab`, `[]EveryRowInView` | needs that a column looked at is one C published, with its slab (`ColOK`) |
| `ValidatedIndices` | `[]CheckedIndexInRange` | needs `CheckedOK`: a block that passed has no bad column, and neither has the column looked at; `LastOfRun` again for offsets |
| **`BoundaryProofs`** | | |
| `OptionsAsAsked` | `[]SeenAsAsked` | needs `QueryInv`: the strings copied so far are the ones given, at addresses of their own, each array leads to its own strings, and the frame of the raw structure is none of these, so moving it disturbs nothing |
| `HelloIsAsAsked` | `[]HelloAsAsked` | needs `HelloInv`: the fields before the one `to_raw` is at are carried by copies still owned, the others are null |
| `CallbacksInstalled` | `[]CalledAreInstalled` | needs `CodecInv`: past `validate_codec` the table supports the method that was chosen, and nobody changes it |
| `MessagesCurrent` | `[]MessageIsThisCalls` | needs `MessageInv`: while the call runs the buffer holds the last report and a terminator where there is room, and only its last byte can be torn |
| `LongTexts` | `[]LongTextIsWhole` | needs `LongInv`: what the exception of a call can be |
| `ValuesMatchC` | `[]LiteralValuesMatchC` | needs `EnumInv`: the scan counts in step with C from every literal it reads as C does to the next initializer it misreads (`InStep`), and what it found is what it read (`Sound`, `Complete`) |
| `NoOtherVariant`, `PassedCovers` | `[]NeverAnotherVariant`, `[]PassedMeansCovered` | from `EnumInv`, with the names of an enum distinct, where the scan misreads none |

*The invariant of `BlockingClient`.*  What the server can take and what an event belongs to
depend on everything between the two ends, so `Inv` looks at each direction as one
sequence: `Up` is what the server has of a message, the wire, the records rustls holds and
what the callback has left; `Dn` is what the client has buffered, the wire and what the
server is writing.  The callbacks change where units are and neither sequence.  Both are
sequences of whole messages (`Aligned`).  `PhaseOK` then says, for each stage of the
application, in which states the server can be and what can be on its way: with a SELECT
that was cancelled, for instance, either the query is still on its way up with the Cancel
behind it, or the server works on it and no end is on its way down, or the end is on its
way and the Cancel will be ignored.  `EventsInStep` is inductive only with all of that.  A
server that is gone is asked for nothing.

*The refinements.*  Both follow the mapping of the specification (`Phase`, `Outbox`, `Got`,
`Inbox`).  One lemma per abstract action says what a step must do to be that action, one
lemma per concrete action shows that it does that or changes nothing visible.  For the
async client the mapping needs that packets arrive whole (`Aligned`), that only
`recv_event` holds an event (`HeldIsEvent`), and that a handshake's future is not left
behind (`HandshakeOver`).  For the blocking client `Inv` is enough: decoding takes the first
message off `Dn`, which is its first packet because every packet has one last unit, and a
write callback keeps `Outbox` because it keeps `Up` and does not touch what the server has.

*Induction over data.*  The induction theorems of the library take an operator and cannot
be used here.  Where a proof needs induction, it takes the least counterexample in a set of
naturals (`NatMin`): the last of a run of offsets is the largest, a recursive function over
positions exists and does what its definition says (`KeptExists` and `KeptFacts` for
`Within`, `CountedExists` for C's values of an enum), and filtering distributes over
concatenation.

*Assumptions.*  The theorems hold for every value of the constants that satisfies the
assumptions the modules name: `UnitsAssumption`, `AsyncAssumption`, `BlockingAssumption`,
`PosixAssumption`, `ReaderAssumption`, `TlsAssumption`, `BuilderAssumption`,
`AllocatorAssumption`, `OwnershipAssumption`, `ViewAssumption`, `TextAssumption`,
`BoundaryAssumption` and `EnumAssumption`.  They are about ranges and about model values being different from
data.  Five say more: `BlockingAssumption` that what the server says during an INSERT fits
into the connection (needed for liveness and not used by the proofs);
`BoundaryAssumption` that the enums are the five that are converted (the names, initializers
and variants, `EnumAssumption`, are any);
`AllocatorAssumption` that a corrupted count is one that has no layout (the case the
callbacks check for);
`BuilderAssumption` and `ViewAssumption` how `usize`, `isize` and `u64` relate.
`LayoutSafe` alone has a hypothesis besides: no resize asks for a count without
a layout, which finding 2 shows to be needed.

*Only model-checked:* liveness (`MethodReturns`, `QueryAnswered`, `ReadEnds`, `CallsReturn`,
`QueriesEnd`, `TimedReadsReturn`), because fairness is outside the prover, and the two
properties that are violated.

## Not modelled

* `Allocator::stdlib` and the C library itself: external.  The decoder, the
  encoder and the read loop appear as far as the crate's use and tests fix them.
* Accessors of the type tree (`types.rs`): they read a C tree that never changes, and
  that a `TypeRef` does not outlive its `TypeAst` is checked by the borrow checker.
  Kinds, units and `format` are modelled.
* `sys.rs` and `layout_probe.c`: declarations, and a layout comparison made when
  the tests are built.
* `build.rs`: the scans of the header's text (`strip_comments`, `scan_declared_functions`,
  `extract_enums`, `extract_define`, `scan_rust_items`), which are pure functions of one
  string, the search for include paths and the call of the C compiler.
* `default_client_config` of `tls.rs`, the builders of option structs, `Debug` and
  `Display`: values without state.
* Memory ordering of the cancel flag beyond "a store is seen eventually".

## Plan

All safety properties of the runs are proved.  What is left for the proofs is to make them
shorter: the lemmas about units of messages in `BlockingProofs` and `AsyncClientProofs` have
much in common, and `BoundaryProofs` could be read more easily with the heap's facts in one
place.  The statements to add next to the theorems are the type invariants of `Allocator`,
`Ownership` and `ColumnView` by themselves, which so far are parts of larger invariants.
