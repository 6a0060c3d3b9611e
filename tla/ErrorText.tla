----------------------------- MODULE ErrorText -----------------------------
(***************************************************************************)
(* How an error's text reaches the application: the fixed buffer of        *)
(* chc_err, written by C and by the transports' callbacks during one call, *)
(* read by check() when the call returns (src/src/error.rs); the exception *)
(* of a rejected handshake, which comes beside it (src/src/client.rs); and *)
(* the size-then-fill protocol of TypeRef::format (src/src/types.rs).      *)
(*                                                                         *)
(* A call may write the buffer more than once: a callback reports why a    *)
(* read failed, and C reports what it was doing; C may also leave text     *)
(* behind and succeed.  Bytes are numbers, 0 is the terminator; Lead and   *)
(* Trail are a character of two bytes, which a cut can tear apart.         *)
(***************************************************************************)
EXTENDS Integers, Sequences

CONSTANTS
    Cap,        \* CHC_ERR_MSG_LEN
    Bytes,      \* bytes of a text
    Lead, Trail,
    MaxText,    \* longest text
    MaxWrites   \* times one call writes the buffer

\* What the server sends is any bytes; what the crate and C report is UTF-8.
RawTexts == UNION {[1..n -> Bytes] : n \in 0..MaxText}
Torn(text, i) ==
    \/ text[i] = Lead /\ (i = Len(text) \/ text[i + 1] # Trail)
    \/ text[i] = Trail /\ (i = 1 \/ text[i - 1] # Lead)
Utf8(text) == \A i \in DOMAIN text : ~Torn(text, i)
Texts == {text \in RawTexts : Utf8(text)}
NoText == <<>>
NoError == [kind |-> "Ok", message |-> NoText, server_name |-> NoText, server_code |-> 0]
Null == [null |-> TRUE, text |-> NoText]
Fields == {Null} \cup [null : {FALSE}, text : RawTexts]
NoException == [name |-> Null, display_text |-> Null, code |-> 0]

VARIABLES
    stage,      \* "idle", "running" (in C), "returned"
    msg,        \* chc_err.msg
    exc,        \* the exception C handed over
    result,     \* what the call returned
    writes,     \* times this call has written the buffer
    told        \* history: what this call last reported, as much as fits

errVars == <<stage, msg, exc, result, writes, told>>

Slots == 1..Cap
Least(a, b) == IF a < b THEN a ELSE b
Cut(text, n) == SubSeq(text, 1, Least(n, Len(text)))

Init ==
    /\ stage = "idle" /\ msg = [i \in Slots |-> 0] /\ exc = NoException
    /\ result = NoError /\ writes = 0 /\ told = NoText

-----------------------------------------------------------------------------
(* The buffer *)

zeroed == [i \in Slots |-> 0]

\* Mutant: the terminator is left out.
Copy_unterminated(text) ==
    LET n == Least(Len(text), Cap - 1)
    IN  [i \in Slots |-> IF i <= n THEN text[i] ELSE msg[i]]

\* set_err and slice_write: as much as fits before a terminator.
Copy(text) ==
    LET n == Least(Len(text), Cap - 1)
    IN  [i \in Slots |-> IF i <= n THEN text[i] ELSE IF i = n + 1 THEN 0 ELSE msg[i]]

\* U+FFFD, in place of a byte that is no character.
Replacement == -1
from_utf8_lossy(text) == [i \in DOMAIN text |-> IF Torn(text, i) THEN Replacement ELSE text[i]]

\* Up to the terminator, or all of the buffer when there is none.
cstr_array_to_string(buf) ==
    LET ends == {i \in DOMAIN buf : buf[i] = 0}
        end == IF ends = {} THEN Cap ELSE (CHOOSE i \in ends : \A j \in ends : i <= j) - 1
    IN  from_utf8_lossy(SubSeq(buf, 1, end))

-----------------------------------------------------------------------------
(* One call into C *)

Call ==
    /\ stage \in {"idle", "returned"}
    /\ stage' = "running" /\ msg' = zeroed
    /\ exc' = NoException /\ writes' = 0 /\ told' = NoText /\ result' = NoError

\* A transport callback fails.  C may have passed it no error slot, and then nothing
\* is reported.
set_err ==
    /\ stage = "running" /\ writes < MaxWrites
    /\ \/ \E text \in Texts : msg' = Copy(text) /\ told' = Cut(text, Cap - 1)
       \/ UNCHANGED <<msg, told>>
    /\ writes' = writes + 1
    /\ UNCHANGED <<stage, exc, result>>

\* C's own message may fill the last byte too.
CSetsErr ==
    /\ stage = "running" /\ writes < MaxWrites
    /\ \E text \in Texts :
          /\ msg' = [i \in Slots |-> IF i <= Len(text) THEN text[i]
                                     ELSE IF i = Len(text) + 1 THEN 0 ELSE msg[i]]
          /\ told' = Cut(text, Cap)
    /\ writes' = writes + 1
    /\ UNCHANGED <<stage, exc, result>>

\* The server rejected the handshake: C leaves the buffer empty and hands over an
\* exception, any text of which may be missing.
Rejected ==
    /\ stage = "running" /\ writes = 0 /\ exc = NoException
    /\ \E text \in Fields, name \in {Null} \cup [null : {FALSE}, text : {<<b>> : b \in Bytes}] :
          exc' = [name |-> name, display_text |-> text, code |-> 1]
    /\ UNCHANGED <<stage, msg, result, writes, told>>

\* No text is an empty one.
cstr_bytes(field) == IF field.null THEN NoText ELSE field.text

\* Mutant: the server's text goes through the buffer, as every other error does.
From_Exception_cut(e) ==
    [kind |-> "Server", message |-> from_utf8_lossy(Cut(cstr_bytes(e.display_text), Cap)),
     server_name |-> from_utf8_lossy(cstr_bytes(e.name)), server_code |-> e.code]

From_Exception(e) ==
    [kind |-> "Server", message |-> from_utf8_lossy(cstr_bytes(e.display_text)),
     server_name |-> from_utf8_lossy(cstr_bytes(e.name)), server_code |-> e.code]

check(rc) ==
    IF rc = "Ok" THEN NoError
    ELSE [kind |-> rc, message |-> cstr_array_to_string(msg), server_name |-> NoText,
          server_code |-> 0]

\* The exception is looked at before the return code.
Return ==
    /\ stage = "running"
    /\ \/ exc # NoException /\ result' = From_Exception(exc)
       \/ exc = NoException /\ \E rc \in {"Ok", "Io"} : result' = check(rc)
    /\ stage' = "returned"
    /\ UNCHANGED <<msg, exc, writes, told>>

-----------------------------------------------------------------------------
(* TypeRef::format *)

\* chc_type_format: fills what fits before a terminator.
Filled(text, size) == [i \in 1..size |-> IF i <= Least(Len(text), size - 1) THEN text[i] ELSE 0]

Room(needed) == needed + 1

\* The buffer's first `needed` bytes, whatever C returned the second time.
format ==
    /\ stage \in {"idle", "returned"}
    /\ \E text \in Texts :
          /\ result' = [NoError EXCEPT !.kind = "Name",
                       !.message = from_utf8_lossy(SubSeq(Filled(text, Room(Len(text))), 1, Len(text)))]
          /\ told' = text
    /\ stage' = "returned" /\ exc' = NoException
    /\ UNCHANGED <<msg, writes>>

Next == format \/ Call \/ set_err \/ CSetsErr \/ Rejected \/ Return

Spec == Init /\ [][Next]_errVars

-----------------------------------------------------------------------------
(* Properties *)

\* The message of an error is what its own call reported last, as much of it as the
\* buffer holds and nothing of an earlier, longer one; only a character the end of
\* the buffer tears is replaced (tls.rs:158, error.rs:89).
MessageIsThisCalls ==
    stage = "returned" /\ result.kind = "Io" =>
        /\ Len(result.message) = Len(told)
        /\ \A i \in DOMAIN told :
              \/ result.message[i] = told[i]
              \/ result.message[i] = Replacement /\ i = Len(told) /\ told[i] = Lead

\* Text that does not pass through the fixed buffer is whole.  A rejected handshake
\* is reported with the server's code, name and message, even where the message is
\* longer than the buffer, if they are UTF-8 (client.rs:457); a formatted type name
\* is the name C has, to the last byte (types.rs:378).
LongTextIsWhole ==
    /\ stage = "returned" /\ exc # NoException =>
          /\ result.kind = "Server" /\ result.server_code = exc.code
          /\ ~exc.display_text.null /\ Utf8(exc.display_text.text) => result.message = exc.display_text.text
          /\ ~exc.name.null /\ Utf8(exc.name.text) => result.server_name = exc.name.text
    /\ result.kind = "Name" => result.message = told
=============================================================================
