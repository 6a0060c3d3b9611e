--------------------------- MODULE ClientOptions ---------------------------
(***************************************************************************)
(* What the application hands to Client::init and IolessClient::new: the   *)
(* Hello strings of ClientOpts (src/src/client.rs) and the callback table  *)
(* of Codec (src/src/codec.rs).                                            *)
(*                                                                         *)
(* C reads the strings during the call, through pointers collected while   *)
(* the vector that owns them is still being filled; it keeps the address   *)
(* of the table and calls through it, without a check, for as long as the  *)
(* client lives.  The codec is a pinned box the client takes over, so the  *)
(* application can change the table only before.                           *)
(***************************************************************************)
EXTENDS CStrings

CONSTANT MaxPackets     \* packets sent and received in a client's life

Fields == <<"client_name", "database", "user", "password">>
FieldSet == {Fields[i] : i \in DOMAIN Fields}

Compression == {"None", "Lz4", "Zstd"}
Lz4 == {"lz4_compress", "lz4_decompress", "lz4_bound"}
Zstd == {"zstd_compress", "zstd_decompress", "zstd_bound"}
Callbacks == Lz4 \cup Zstd

NoFields == [f \in FieldSet |-> Absent]
NoPointers == [f \in FieldSet |-> None]

VARIABLES
    codec,      \* the table's callbacks, and who has the box: "none", "app", "client"
    opts,       \* ClientOpts: the four strings
    compression,\* ClientOpts: the algorithm; C keeps it in the client
    stage,      \* "idle", "fields" (in to_raw), "calling" (in C), "open"
    at,         \* the field to_raw is at
    heap,       \* allocated buffers by address
    owned,      \* _owned: the copies
    raw,        \* pointers to_raw has collected
    hello,      \* the strings C put in the Hello
    called,     \* callbacks C has called
    packets,    \* how many packets C has framed
    result      \* what the last call returned

optVars == <<codec, opts, compression, stage, at, heap, owned, raw, hello, called,
             packets, result>>

NoCodec == [who |-> "none", has |-> {}]

Init ==
    /\ codec = NoCodec
    /\ opts = NoFields /\ compression = "None"
    /\ stage = "idle" /\ at = 1
    /\ heap = <<>> /\ owned = <<>> /\ raw = NoPointers
    /\ hello = NoFields /\ called = {} /\ packets = 0
    /\ result = "none"

-----------------------------------------------------------------------------
(* Codec *)

Table(has) ==
    /\ stage = "idle"
    /\ codec' = [who |-> "app", has |-> has]
    /\ UNCHANGED <<opts, compression, stage, at, heap, owned, raw, hello, called,
                   packets, result>>

empty == Table({})
\* chc_lz4_codec_init and chc_zstd_codec_init fill an empty table.
lz4 == Table(Lz4)
zstd == Table(Zstd)
from_raw == stage = "idle" /\ \E table \in SUBSET Callbacks : Table(table)

\* The table is the application's until the box is moved into init.
raw_mut ==
    /\ codec.who = "app"
    /\ \E c \in Callbacks : Table(codec.has \cup {c}) \/ Table(codec.has \ {c})

\* Mutant: a table that cannot tell how large a frame may become.
supports_unbounded(comp) ==
    CASE comp = "None" -> TRUE
      [] comp = "Lz4" -> {"lz4_compress", "lz4_decompress"} \subseteq codec.has
      [] comp = "Zstd" -> {"zstd_compress", "zstd_decompress"} \subseteq codec.has

supports(comp) ==
    CASE comp = "None" -> TRUE
      [] comp = "Lz4" -> Lz4 \subseteq codec.has
      [] comp = "Zstd" -> Zstd \subseteq codec.has

-----------------------------------------------------------------------------
(* Client::init, IolessClient::new *)

validate_codec(comp) == comp = "None" \/ (codec.who # "none" /\ supports(comp))

\* An error drops what init took over, the codec and the copies.
Refuse(kind) ==
    /\ codec' = NoCodec
    /\ heap' = Free(heap, Buffers(owned)) /\ owned' = <<>> /\ raw' = NoPointers
    /\ opts' = NoFields /\ compression' = "None"
    /\ stage' = "idle" /\ at' = 1 /\ result' = kind
    /\ UNCHANGED <<called, packets>>

init ==
    /\ stage = "idle"
    /\ \E o \in [FieldSet -> Given \cup {Absent}], comp \in Compression :
          \/ /\ validate_codec(comp)
             /\ opts' = o /\ compression' = comp
             /\ codec' = IF codec.who = "app" THEN [codec EXCEPT !.who = "client"] ELSE codec
             /\ stage' = "fields" /\ result' = "none"
             /\ UNCHANGED <<at, heap, owned, raw, called, packets>>
          \/ ~validate_codec(comp) /\ Refuse("Usage")
    /\ hello' = NoFields

\* Mutant: the address of the last copy is taken before the push.
Field_before(f) ==
    /\ heap' = Store(heap, opts[f])
    /\ owned' = Append(owned, Fresh(heap))
    /\ raw' = [raw EXCEPT ![f] = IF owned = <<>> THEN None ELSE owned[Len(owned)]]

\* owned.push(cstring(..)?) and as_ptr() of what was pushed.
Field(f) ==
    /\ heap' = Store(heap, opts[f])
    /\ owned' = Append(owned, Fresh(heap))
    /\ raw' = [raw EXCEPT ![f] = Fresh(heap)]

to_raw ==
    /\ stage = "fields" /\ at <= Len(Fields)
    /\ LET f == Fields[at]
       IN  \/ /\ opts[f] = Absent
              /\ UNCHANGED <<heap, owned, raw>>
           \/ /\ opts[f] # Absent /\ cstring(opts[f]) = "Ok"
              /\ Field(f)
    /\ at' = at + 1
    /\ UNCHANGED <<codec, opts, compression, stage, hello, called, packets, result>>

to_raw_fails ==
    /\ stage = "fields" /\ at <= Len(Fields)
    /\ opts[Fields[at]] # Absent /\ cstring(opts[Fields[at]]) = "Usage"
    /\ Refuse("Usage") /\ UNCHANGED hello

\* C reads the strings before it returns: raw_opts is dropped with this call, whether
\* the handshake succeeds or not.
chc_client_init ==
    /\ stage = "fields" /\ at > Len(Fields)
    /\ hello' = [f \in FieldSet |-> IF raw[f] = None THEN Absent ELSE Load(heap, raw[f])]
    /\ stage' = "calling"
    /\ UNCHANGED <<codec, opts, compression, at, heap, owned, raw, called, packets, result>>

Opened ==
    /\ stage = "calling"
    /\ stage' = "open" /\ at' = 1 /\ result' = "Ok"
    /\ heap' = Free(heap, Buffers(owned)) /\ owned' = <<>> /\ raw' = NoPointers
    /\ UNCHANGED <<codec, opts, compression, hello, called, packets>>

HandshakeFails ==
    /\ stage = "calling"
    /\ \E kind \in {"Server", "Io", "Protocol"} : Refuse(kind)
    /\ hello' = NoFields

-----------------------------------------------------------------------------
(* The client's life: frames are compressed and decompressed through the table *)

Frame(callbacks) ==
    /\ stage = "open" /\ packets < MaxPackets
    /\ packets' = packets + 1
    /\ called' = called \cup callbacks
    /\ UNCHANGED <<codec, opts, compression, stage, at, heap, owned, raw, hello, result>>

PlainFrame == compression = "None" /\ Frame({})
CompressFrame ==
    \/ compression = "Lz4" /\ Frame({"lz4_bound", "lz4_compress"})
    \/ compression = "Zstd" /\ Frame({"zstd_bound", "zstd_compress"})
DecompressFrame ==
    \/ compression = "Lz4" /\ Frame({"lz4_decompress"})
    \/ compression = "Zstd" /\ Frame({"zstd_decompress"})

\* chc_client_close, and then the codec's box.
Drop ==
    /\ stage = "open"
    /\ stage' = "idle" /\ codec' = NoCodec /\ called' = {} /\ packets' = 0
    /\ opts' = NoFields /\ compression' = "None" /\ hello' = NoFields
    /\ UNCHANGED <<at, heap, owned, raw, result>>

Next ==
    \/ empty \/ lz4 \/ zstd \/ from_raw \/ raw_mut
    \/ init \/ to_raw \/ to_raw_fails \/ chc_client_init \/ Opened \/ HandshakeFails
    \/ PlainFrame \/ CompressFrame \/ DecompressFrame \/ Drop

Spec == Init /\ [][Next]_optVars

-----------------------------------------------------------------------------
(* Properties *)

\* The Hello carries each of the four strings in its own place, and nothing in the
\* place of one that was not given, whichever of the four are missing.
HelloAsAsked == stage \in {"calling", "open"} => hello = opts

\* C, which calls through the table without looking, never calls a callback that is
\* not installed, for any table and in the whole life of the client.
CalledAreInstalled == called \subseteq codec.has
=============================================================================
