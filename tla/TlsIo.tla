-------------------------------- MODULE TlsIo --------------------------------
(***************************************************************************)
(* The read side of the rustls transport of src/src/tls.rs: connect,       *)
(* set_read_timeout and the tls_read callback, over a socket that delivers *)
(* records in pieces.  rustls and the socket are external and modelled     *)
(* from how tls_read uses them: a read takes what is decrypted, or else    *)
(* reads the socket until a record with data is whole, the stream ends, or *)
(* a socket read fails; pieces of a record survive a failed read.          *)
(*                                                                         *)
(* Unlike the deadline of PosixIo, the timeout is the socket's: it is      *)
(* relative, and starts again with each socket read of one tls_read.       *)
(* The write side is part of BlockingClient.                               *)
(***************************************************************************)
EXTENDS SeqFilter

CONSTANTS
    MaxSent,    \* payload units the server sends
    MaxPieces,  \* pieces of a record before its last one
    WireCap,    \* pieces the network holds
    Timeouts,   \* read timeouts the application asks for
    MaxLen      \* units C asks for in one read

ASSUME TlsAssumption ==
    /\ MaxSent \in Nat /\ MaxPieces \in Nat /\ MaxLen \in Nat
    /\ WireCap \in Nat \ {0} /\ Timeouts \subseteq Nat

VARIABLES
    stage,      \* "tcp", "handshake", "up", "failed"
    sent,       \* payload units the server has sent; the n-th has value n
    pieces,     \* pieces the server has sent of the record it is at
    wire,       \* pieces in the network
    peer,       \* "open", "notified" (close_notify sent), "closed", "reset"
    held,       \* rustls: pieces of a record that is not whole
    plain,      \* rustls: decrypted payload
    clean,      \* rustls: close_notify processed
    timeout,    \* the socket's read timeout; 0 is none
    waited,     \* how long the socket read has been parked
    len,        \* the size of the read in progress, -1 when there is none
    got,        \* what C was given
    ret,        \* how the last read ended: "none", "ok", "eof", "Io"
    armed       \* history: one more than the timeout last accepted, Off for None

tlsVars == <<stage, sent, pieces, wire, peer, held, plain, clean, timeout, waited, len,
             got, ret, armed>>
serverVars == <<sent, pieces, peer>>
rustlsVars == <<held, plain, clean>>
callVars == <<waited, len, got, ret>>

Idle == -1
Off == 0
Piece == 0                  \* any but the last piece of a record
Notify == -1                \* close_notify
Ticket == -2                \* last piece of a record without payload

Init ==
    /\ stage = "tcp" /\ sent = 0 /\ pieces = 0 /\ wire = <<>> /\ peer = "open"
    /\ held = 0 /\ plain = <<>> /\ clean = FALSE
    /\ timeout = Off /\ armed = Off
    /\ waited = 0 /\ len = Idle /\ got = <<>> /\ ret = "none"

-----------------------------------------------------------------------------
(* connect, and the timeout *)

\* A name rustls cannot use is a usage error, and nothing has been sent.
connect ==
    /\ stage = "tcp"
    /\ stage' \in {"failed", "handshake"}
    /\ UNCHANGED <<serverVars, wire, rustlsVars, timeout, callVars, armed>>

\* complete_io: only a stream whose handshake is done is ever handed to C.
complete_io ==
    /\ stage = "handshake"
    /\ stage' \in {"failed", "up"}
    /\ UNCHANGED <<serverVars, wire, rustlsVars, timeout, callVars, armed>>

\* The standard library refuses Some(0).
Accepts(t) == t \in Timeouts \ {0}

\* `None` is Off here.  A refused timeout leaves the old one in force.
set_read_timeout ==
    /\ stage = "up" /\ len = Idle
    /\ \/ \E t \in Timeouts : Accepts(t) /\ timeout' = t /\ armed' = t + 1
       \/ timeout' = Off /\ armed' = Off
    /\ UNCHANGED <<stage, serverVars, wire, rustlsVars, callVars>>

-----------------------------------------------------------------------------
(* The server and the network *)

Push(piece) ==
    /\ stage = "up" /\ peer = "open" /\ Len(wire) < WireCap
    /\ wire' = Append(wire, piece)
    /\ UNCHANGED <<stage, rustlsVars, timeout, callVars, armed>>

ServerPiece == pieces < MaxPieces /\ Push(Piece) /\ pieces' = pieces + 1 /\ UNCHANGED <<sent, peer>>
ServerData == sent < MaxSent /\ Push(sent + 1) /\ sent' = sent + 1 /\ pieces' = 0 /\ UNCHANGED peer
\* A record rustls keeps for itself; the server sends one before any data.
ServerTicket == sent = 0 /\ pieces = MaxPieces /\ Push(Ticket) /\ pieces' = MaxPieces + 1 /\ UNCHANGED <<sent, peer>>
ServerNotifies == Push(Notify) /\ peer' = "notified" /\ UNCHANGED <<sent, pieces>>

\* The connection is closed, or breaks, with or without a close_notify before.
ServerCloses ==
    /\ stage = "up" /\ peer \in {"open", "notified"}
    /\ peer' \in {"closed", "reset"}
    /\ UNCHANGED <<stage, sent, pieces, wire, rustlsVars, timeout, callVars, armed>>

-----------------------------------------------------------------------------
(* tls_read *)

Least(a, b) == IF a < b THEN a ELSE b

Finish(outcome) == len' = Idle /\ ret' = outcome /\ waited' = 0

\* C's read callback.  A request for nothing is answered before the stream, or even
\* the callback's context, is looked at.
tls_read(n) ==
    /\ stage = "up" /\ len = Idle
    /\ waited' = 0
    /\ \/ n = 0 /\ ret' = "ok" /\ len' = Idle
       \/ n > 0 /\ ret' = "none" /\ len' = n
    /\ UNCHANGED <<stage, serverVars, wire, rustlsVars, timeout, got, armed>>

\* rustls reads the socket only when it has nothing decrypted and no close_notify.
WantsRead == len > 0 /\ plain = <<>> /\ ~clean

\* Mutant: the size of the buffer is reported in place of the count.
Count_requested == len

Count == Least(len, Len(plain))

\* Ok(n).  What lies in the buffer beyond what was read is whatever was there.
Deliver ==
    /\ len > 0 /\ plain # <<>>
    /\ got' = got \o [i \in 1..Count |-> IF i <= Len(plain) THEN plain[i] ELSE 0]
    /\ plain' = SubSeq(plain, Least(Count, Len(plain)) + 1, Len(plain))
    /\ Finish("ok")
    /\ UNCHANGED <<stage, serverVars, wire, held, clean, timeout, armed>>

\* Ok(0): the stream has ended cleanly, and C takes the count for EOF.
CleanEnd ==
    /\ len > 0 /\ plain = <<>> /\ clean
    /\ Finish("eof")
    /\ UNCHANGED <<stage, serverVars, wire, rustlsVars, timeout, got, armed>>

\* Mutant: a failed read is reported as a count of zero.
Failed_zero == Finish("eof")

\* Mutant: the callback tries a failed read again.
Failed_retried == waited' = 0 /\ UNCHANGED <<len, ret>>

\* Err(e) becomes CHC_ERR_IO: a stream cut off, a connection that broke, a timeout.
Failed == Finish("Io")

Expired == timeout # Off /\ waited >= timeout

Fails ==
    /\ WantsRead
    /\ \/ wire = <<>> /\ peer = "closed"
       \/ peer = "reset"
       \/ wire = <<>> /\ Expired
    /\ Failed
    /\ UNCHANGED <<stage, serverVars, wire, rustlsVars, timeout, got, armed>>

Payload(taken) == Within(taken, Nat \ {0})

\* One socket read takes some of what has arrived, and rustls processes every record
\* that is now whole.  The timeout starts again with the next socket read.
Fetch ==
    /\ WantsRead /\ wire # <<>> /\ peer # "reset"
    /\ \E k \in 1..Len(wire) :
          LET taken == SubSeq(wire, 1, k)
              ends == {i \in 1..k : taken[i] # Piece}
          IN  /\ wire' = SubSeq(wire, k + 1, Len(wire))
              /\ held' = IF ends = {} THEN held + k
                         ELSE k - (CHOOSE i \in ends : \A j \in ends : i >= j)
              /\ plain' = plain \o Payload(taken)
              /\ clean' = \E i \in ends : taken[i] = Notify
    /\ waited' = 0
    /\ UNCHANGED <<stage, serverVars, timeout, len, got, ret, armed>>

\* Time passes while the socket read is parked.
Longest == CHOOSE t \in Timeouts \cup {0} : \A u \in Timeouts : t >= u

Tick ==
    /\ WantsRead /\ waited < Longest
    /\ waited' = waited + 1
    /\ UNCHANGED <<stage, serverVars, wire, rustlsVars, timeout, len, got, ret, armed>>

-----------------------------------------------------------------------------

Callback == Deliver \/ CleanEnd \/ Fails \/ Fetch

Next ==
    \/ connect \/ complete_io \/ set_read_timeout
    \/ ServerPiece \/ ServerData \/ ServerTicket \/ ServerNotifies \/ ServerCloses
    \/ \E n \in 0..MaxLen : tls_read(n)
    \/ Deliver \/ CleanEnd \/ Fails \/ Fetch \/ Tick

Spec == Init /\ [][Next]_tlsVars

\* The socket's timer runs, and a socket read that can return does.
FairSpec == Spec /\ WF_tlsVars(Callback) /\ WF_tlsVars(Tick)

-----------------------------------------------------------------------------
(* Properties *)

\* Every unit the server sent is given to C, decrypted or still on its way, once and
\* in order, however often a timeout ended a read in the middle of a record.
TlsInOrder == got \o plain \o Payload(wire) = [i \in 1..sent |-> i]

\* A zero count, which C takes for the end of the stream, is reported only when the
\* server ended the stream itself and C has everything sent before.
EofMeansAll == ret = "eof" => clean /\ Len(got) = sent

\* With a timeout accepted, a read returns even if the server falls silent, be it in
\* the middle of a record: what restarts the timer is finite, as a record is.
TimedReadsReturn == (len > 0 /\ armed # Off) ~> len = Idle
=============================================================================
