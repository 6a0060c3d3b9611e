------------------------------ MODULE Boundary ------------------------------
(***************************************************************************)
(* Everything but column data that crosses the boundary between the crate  *)
(* and clickhouse-c: the options of a client and of a query on their way   *)
(* in, the text of an error on its way out, and the codes of C's enums.    *)
(*                                                                         *)
(* The four share no state in the program beyond the call in progress, so  *)
(* a behaviour follows one of them; the variables they have in common are  *)
(* those of its call.                                                      *)
(***************************************************************************)
EXTENDS CStrings

CONSTANTS
    MaxSettings, MaxParams, Flagged,                    \* QueryOptions
    MaxPackets,                                         \* ClientOptions
    Cap, Bytes, Lead, Trail, MaxText, MaxWrites,        \* ErrorText
    Tags, Names, Arms, ClientOnly, Sentinels, Inits, MaxEntries     \* HeaderEnums

ASSUME BoundaryAssumption ==
    /\ {MaxSettings, MaxParams, MaxPackets, MaxText, MaxWrites, MaxEntries} \subseteq Nat
    /\ Flagged \in BOOLEAN
    /\ Cap \in Nat \ {0} /\ Bytes \subseteq Nat \ {0}
    /\ {Lead, Trail} \subseteq Bytes /\ Lead # Trail
    /\ Tags \subseteq {"chc_kind", "chc_interval_unit", "chc_col_kind", "chc_packet_kind", "errors"}

\* "" and "Other" are not enumerators; a digit is at most that of a hexadecimal literal.
ASSUME EnumAssumption ==
    /\ {"", "Other"} \cap Names = {} /\ Arms \in Seq(Names)
    /\ \A i \in Inits :
          /\ i \in [form : {"none", "decimal", "octal", "hex", "expression"}, minus : BOOLEAN, digits : Seq(0..15)]
          /\ i.form = "none" => i.digits = <<>> /\ ~i.minus

VARIABLES
    part,                                   \* which of the four: "query", "client", "error", "enum"
    stage, result,                          \* the call in progress
    opts, heap, owned, raw,                 \* its options and their copies
    settings, params, seen,                 \* QueryOptions
    codec, compression, at, hello, called, packets,     \* ClientOptions
    msg, exc, writes, told,                 \* ErrorText
    tag, header, pos, next_value, scanned, phase        \* HeaderEnums

callVars == <<stage, result>>
copyVars == <<opts, heap, owned, raw>>
queryVars == <<settings, params, seen>>
clientVars == <<codec, compression, at, hello, called, packets>>
errorVars == <<msg, exc, writes, told>>
enumVars == <<tag, header, pos, next_value, scanned, phase>>
vars == <<part, callVars, copyVars, queryVars, clientVars, errorVars, enumVars>>

Query == INSTANCE QueryOptions
Client == INSTANCE ClientOptions
Errors == INSTANCE ErrorText
Enums == INSTANCE HeaderEnums

\* A component that takes no part.
NoCall == stage = "none" /\ result = "none"
NoCopies == opts = "none" /\ heap = <<>> /\ owned = <<>> /\ raw = None
NoQuery == settings = None /\ params = None /\ seen = "none"
NoClient == codec = "none" /\ compression = "none" /\ at = 0 /\ hello = "none" /\ called = {} /\ packets = 0
NoErrors == msg = "none" /\ exc = "none" /\ writes = 0 /\ told = "none"
NoEnum == tag = "none" /\ header = <<>> /\ pos = 0 /\ next_value = 0 /\ scanned = {} /\ phase = "none"

Init ==
    \/ part = "query" /\ Query!Init /\ NoClient /\ NoErrors /\ NoEnum
    \/ part = "client" /\ Client!Init /\ NoQuery /\ NoErrors /\ NoEnum
    \/ part = "error" /\ Errors!Init /\ NoCopies /\ NoQuery /\ NoClient /\ NoEnum
    \/ part = "enum" /\ Enums!EnumInit /\ NoCall /\ NoCopies /\ NoQuery /\ NoClient /\ NoErrors

Next ==
    \/ part = "query" /\ Query!Next /\ UNCHANGED <<part, clientVars, errorVars, enumVars>>
    \/ part = "client" /\ Client!Next /\ UNCHANGED <<part, queryVars, errorVars, enumVars>>
    \/ part = "error" /\ Errors!Next /\ UNCHANGED <<part, copyVars, queryVars, clientVars, enumVars>>
    \/ /\ part = "enum" /\ Enums!EnumNext
       /\ UNCHANGED <<part, callVars, copyVars, queryVars, clientVars, errorVars>>

Spec == Init /\ [][Next]_vars

-----------------------------------------------------------------------------
(* Properties, each of the component that has the part *)

\* When send_query_with returns Ok, C has read every option as it was asked.
SeenAsAsked == part = "query" => Query!SeenAsAsked

\* The Hello carries each of the four strings of ClientOpts in its own place.
HelloAsAsked == part = "client" => Client!HelloAsAsked

\* C never calls a codec callback that is not installed.
CalledAreInstalled == part = "client" => Client!CalledAreInstalled

\* The message of an error is what its own call reported last.
MessageIsThisCalls == part = "error" => Errors!MessageIsThisCalls

\* Text that does not pass through the error buffer is whole.
LongTextIsWhole == part = "error" => Errors!LongTextIsWhole

\* The value build.rs gives an enumerator is the C compiler's.
LiteralValuesMatchC == part = "enum" => Enums!LiteralValuesMatchC

\* A code of C is never converted to the variant of another code.
NeverAnotherVariant == part = "enum" => Enums!NeverAnotherVariant

\* With the parity tests passed, every enumerator of C has its variant.
PassedMeansCovered == part = "enum" => Enums!PassedMeansCovered
=============================================================================
