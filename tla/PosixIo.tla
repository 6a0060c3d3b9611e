------------------------------- MODULE PosixIo -------------------------------
(***************************************************************************)
(* The blocking transports of src/src/io.rs as C uses them: PosixIo, with  *)
(* its cancel token and its absolute deadline, and SliceIo.  One thread    *)
(* reads at a time; any thread may cancel.  The read(2) loop itself is C's *)
(* and is modelled from how the crate sets it up and from its tests.       *)
(*                                                                         *)
(* Time is counted in microseconds of the monotonic clock, an i64.         *)
(***************************************************************************)
EXTENDS Integers, Sequences

CONSTANTS
    I64Max,         \* largest i64
    MaxNow,         \* bound on the clock
    Timeouts        \* durations the application asks for

ASSUME PosixAssumption ==
    /\ I64Max \in Nat \ {0}
    /\ MaxNow \in 0..I64Max
    /\ Timeouts \subseteq Nat

VARIABLES
    transport,  \* "posix" or "cancellable" (with a token), or "slice"
    sock,       \* units the peer sent, or the slice holds, not fetched yet
    peer,       \* "open" or "closed"
    now,        \* chc_rs_monotonic_us()
    deadline,   \* chc_posix_io.deadline_us; 0 means none
    cancelled,  \* the token's flag
    rd,         \* the read callback: "none", "called", or "parked" in the OS
    armed,      \* history: what the last set_read_timeout asked for, if Some
    fetches     \* history: fetches since the token was cancelled

ioVars == <<transport, sock, peer, now, deadline, cancelled, rd, armed, fetches>>

NoTimeout == -1

IoInit ==
    /\ transport \in {"posix", "cancellable", "slice"}
    /\ now \in {0, 1} /\ deadline = 0 /\ armed = NoTimeout
    /\ cancelled = FALSE /\ rd = "none" /\ fetches = 0

-----------------------------------------------------------------------------
(* set_read_timeout *)

Saturated(n) == IF n > I64Max THEN I64Max ELSE n

\* Mutant: zero reaches C, which takes it for "no deadline".
DeadlineFor_zero(d) == Saturated(now + Saturated(d))

\* Mutant: the sum is not brought back into an i64.
DeadlineFor_unsaturated(d) == LET sum == now + d IN IF sum < 1 THEN 1 ELSE sum

\* The absolute deadline for Some(d).
DeadlineFor(d) ==
    LET sum == Saturated(now + Saturated(d)) IN IF sum < 1 THEN 1 ELSE sum

\* A slice transport has no read timeout and reports a usage error.
set_read_timeout(timeout) ==
    /\ transport # "slice" /\ rd = "none"
    /\ deadline' = IF timeout = NoTimeout THEN 0 ELSE DeadlineFor(timeout)
    /\ armed' = IF timeout = NoTimeout THEN NoTimeout ELSE now + timeout
    /\ UNCHANGED <<transport, sock, peer, now, cancelled, rd, fetches>>

-----------------------------------------------------------------------------
(* Other threads, the clock and the peer *)

\* Any holder of a clone of the token.
cancel ==
    /\ transport = "cancellable" /\ ~cancelled
    /\ cancelled' = TRUE
    /\ UNCHANGED <<transport, sock, peer, now, deadline, rd, armed, fetches>>

Tick ==
    /\ now < MaxNow
    /\ now' = now + 1
    /\ UNCHANGED <<transport, sock, peer, deadline, cancelled, rd, armed, fetches>>

-----------------------------------------------------------------------------
(* The read callback.  `res` is "cancelled", "timeout", "eof" or "ok" *)

Expired == deadline # 0 /\ now >= deadline

\* C calls read on the transport.
CallRead ==
    /\ rd = "none"
    /\ rd' = "called"

\* Mutant: the token is looked at only when nothing is waiting to be read.
CheckFlag_lazy(res) ==
    /\ rd = "called"
    /\ \/ cancelled /\ sock = <<>> /\ rd' = "none" /\ res = "cancelled"
       \/ ~(cancelled /\ sock = <<>>) /\ rd' = "parked" /\ res = "none"
    /\ UNCHANGED <<transport, sock, peer, now, deadline, cancelled, armed, fetches>>

\* check_cancel_flag, before each read.
CheckFlag(res) ==
    /\ rd = "called"
    /\ \/ cancelled /\ rd' = "none" /\ res = "cancelled"
       \/ ~cancelled /\ rd' = "parked" /\ res = "none"
    /\ UNCHANGED <<transport, sock, peer, now, deadline, cancelled, armed, fetches>>

\* The wait in the OS is not interrupted by the token: it ends with bytes, with
\* the end of the stream, or at the deadline.
ReadReturns(n, res) ==
    /\ rd = "parked"
    /\ \/ /\ n \in 1..Len(sock) /\ res = "ok"
          /\ sock' = SubSeq(sock, n + 1, Len(sock))
          /\ fetches' = IF cancelled THEN fetches + 1 ELSE fetches
       \/ /\ n = 0 /\ sock = <<>> /\ peer = "closed" /\ res = "eof"
          /\ UNCHANGED <<sock, fetches>>
       \/ /\ n = 0 /\ Expired /\ res = "timeout"
          /\ UNCHANGED <<sock, fetches>>
    /\ rd' = "none"
    /\ UNCHANGED <<transport, peer, now, deadline, cancelled, armed>>

-----------------------------------------------------------------------------
(* Properties *)

\* A timeout that was asked for is in force, and its deadline is the moment asked
\* for, as far as an i64 and C's reserved zero allow: no timeout, however short
\* or long, disables the deadline or lets it fire early (io.rs:165).
DeadlineInForce ==
    transport # "slice" =>
        IF armed = NoTimeout THEN deadline = 0
        ELSE /\ deadline > 0
             /\ deadline >= armed \/ deadline = I64Max
             /\ deadline <= armed \/ deadline = 1

\* Once cancelled, at most the read already parked in the OS still fetches bytes;
\* every read that starts later fails without touching the socket.
AtMostParkedRead == fetches <= 1 /\ (fetches = 1 => rd # "parked")
=============================================================================
