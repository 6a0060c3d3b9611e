------------------------------ MODULE CStrings ------------------------------
(***************************************************************************)
(* Null-terminated copies of option strings (cstring in src/src/query.rs)  *)
(* on a heap that gives freed addresses out again, so that a pointer kept  *)
(* too long reads somebody else's bytes.                                   *)
(***************************************************************************)
EXTENDS Integers, Sequences

CONSTANTS
    Text,       \* strings without a null byte
    Nul         \* a string with a null byte inside

ASSUME TextAssumption == Nul \notin Text

\* A null pointer, and the option that was not given.
None == 0
Absent == "absent"
\* What is behind a pointer to memory that is not allocated.
Garbage == "garbage"

Given == Text \cup {Nul}

\* CString::new, which cstring() turns into ErrorKind::Usage when it fails.
cstring(s) == IF s = Nul THEN "Usage" ELSE "Ok"

\* The lowest address that is not in use: the first one, or one behind an address
\* in use.
Fresh(h) == CHOOSE a \in {1} \cup {b + 1 : b \in DOMAIN h} :
               /\ a \notin DOMAIN h
               /\ \A b \in 1..a - 1 : b \in DOMAIN h

Store(h, data) == [a \in DOMAIN h \cup {Fresh(h)} |->
                      IF a \in DOMAIN h THEN h[a] ELSE data]

Free(h, addrs) == [a \in DOMAIN h \ addrs |-> h[a]]

Load(h, p) == IF p \in DOMAIN h THEN h[p] ELSE Garbage

\* Takes the buffers of a Vec<CString> as the vector is dropped.
Buffers(strings) == {strings[i] : i \in DOMAIN strings}
=============================================================================
