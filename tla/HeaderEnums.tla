---------------------------- MODULE HeaderEnums ----------------------------
(***************************************************************************)
(* From an enum of a C header to the variants of the crate: build.rs       *)
(* numbers its entries and writes constants, the crate compiles against    *)
(* them and converts C's codes, and the tests of parity.rs compare the two *)
(* sides.  The header is any version of clickhouse-c, older or newer than  *)
(* the crate (CHC_INCLUDE_DIR).                                            *)
(*                                                                         *)
(* An initializer is a literal as it is written, digit by digit, or an     *)
(* expression: C and build.rs do not read every literal alike.             *)
(***************************************************************************)
EXTENDS Integers, Sequences, FiniteSets

CONSTANTS
    Tags,       \* the enums
    Names,      \* enumerators of any version of the header
    Arms,       \* those the crate has a variant for, in the order of its matches
    ClientOnly, \* CLIENT_ONLY_PACKETS: left out of PacketKind on purpose
    Sentinels,  \* those that end in _COUNT or _LAST
    Inits,      \* initializers, and NoInit
    MaxEntries  \* longest enum

\* The form of an initializer, whether it has a minus sign, and its digits: those
\* of the literal behind the prefix of its form, 0x or the 0 of an octal one, or
\* the decimal digits of the expression's value.
Initializer(form, minus, digits) == [form |-> form, minus |-> minus, digits |-> digits]
NoInit == Initializer("none", FALSE, <<>>)

Known == {Arms[i] : i \in DOMAIN Arms}

\* "" is what follows a trailing comma.
EntryName == Names \cup {""}

VARIABLES
    tag, header,    \* an enum: its tag and its entries [name, init]
    pos,            \* parse_enum_body: entries read
    next_value,     \* parse_enum_body
    scanned,        \* parse_enum_body: `out`, as a set of <<name, value>>
    phase           \* "scan", then "refused" by the compiler or "built",
                    \* then "failed" or "passed" the parity tests

enumVars == <<tag, header, pos, next_value, scanned, phase>>

EnumInit ==
    /\ tag \in Tags
    /\ \E n \in 0..MaxEntries : header \in [1..n -> [name : EntryName, init : Inits]]
    /\ \A j, k \in 1..Len(header) : header[j].name = header[k].name => j = k
    /\ \A k \in 1..Len(header) : header[k].name = "" => k = Len(header) /\ header[k].init = NoInit
    /\ pos = 0 /\ next_value = 0 /\ scanned = {} /\ phase = "scan"

\* An Option is a set: empty, or holding the one value.
None == {}

-----------------------------------------------------------------------------
(* build.rs *)

\* The number `digits` stand for, and its negative.
Numeral(digits, base) ==
    LET upTo[i \in 0..Len(digits)] == IF i = 0 THEN 0 ELSE base * upTo[i - 1] + digits[i]
    IN  upTo[Len(digits)]
Signed(minus, number) == IF minus THEN -number ELSE number

\* Literals only.  What does not begin with 0x, signs included, is read as decimal;
\* the 0 before an octal literal does not count.
parse_c_integer(init) ==
    IF init.form = "expression" \/ (init.form = "hex" /\ init.minus) THEN None
    ELSE {Signed(init.minus, Numeral(init.digits, IF init.form = "hex" THEN 16 ELSE 10))}

Entry == header[pos + 1]

EmptyEntry ==
    /\ Entry.name = ""
    /\ UNCHANGED <<next_value, scanned>>

ImplicitEntry ==
    /\ Entry.name # "" /\ Entry.init = NoInit
    /\ scanned' = scanned \cup {<<Entry.name, next_value>>}
    /\ next_value' = next_value + 1

\* Mutant: the entry behind an explicit one repeats its value.
ExplicitEntry_repeats ==
    /\ Entry.init # NoInit
    /\ \E value \in parse_c_integer(Entry.init) :
        /\ scanned' = scanned \cup {<<Entry.name, value>>}
        /\ next_value' = value

ExplicitEntry ==
    /\ Entry.init # NoInit
    /\ \E value \in parse_c_integer(Entry.init) :
        /\ scanned' = scanned \cup {<<Entry.name, value>>}
        /\ next_value' = value + 1

\* An entry whose value is not read is left out, and counting goes on as if it
\* were not there.
SkippedEntry ==
    /\ Entry.init # NoInit /\ parse_c_integer(Entry.init) = None
    /\ UNCHANGED <<next_value, scanned>>

parse_enum_body ==
    /\ phase = "scan" /\ pos < Len(header)
    /\ EmptyEntry \/ ImplicitEntry \/ ExplicitEntry \/ SkippedEntry
    /\ pos' = pos + 1
    /\ UNCHANGED <<tag, header, phase>>

is_sentinel(name) == name \in Sentinels

\* emit_enum: the constants of sys_constants.rs.
Constants == {c \in scanned : ~is_sentinel(c[1])}

-----------------------------------------------------------------------------
(* The crate.  A name that has no constant does not compile, nor do two     *)
(* variants with the same discriminant; those of ErrorKind have none.       *)

Compiles ==
    /\ \A k \in Known : \E c \in Constants : c[1] = k
    /\ tag # "errors" => \A c, d \in Constants : {c[1], d[1]} \subseteq Known /\ c[2] = d[2] => c = d

compile ==
    /\ phase = "scan" /\ pos = Len(header)
    /\ phase' = IF Compiles THEN "built" ELSE "refused"
    /\ UNCHANGED <<tag, header, pos, next_value, scanned>>

\* Mutant: a code the crate does not know becomes its nearest neighbour below.
Match_adjacent(code) ==
    LET below == {c \in Constants : c[1] \in Known /\ c[2] <= code}
    IN {c[1] : c \in {b \in below : \A d \in below : d[2] <= b[2]}}

\* The variant a match on the crate's constants selects: that of the first arm.
Match(code) ==
    {Arms[i] : i \in {j \in DOMAIN Arms : /\ <<Arms[j], code>> \in Constants
                                          /\ \A k \in 1..(j - 1) : <<Arms[k], code>> \notin Constants}}

Kind_from_raw(code) == Match(code)
IntervalUnit_from_raw(code) == Match(code)
ColumnLayout_from_raw(code) == Match(code)
PacketKind_from_raw(code) == Match(code)

\* Every code is an ErrorKind: an unknown one is Other, which carries the code.
from_code(code) == IF Match(code) = None THEN {"Other"} ELSE Match(code)

Convert(code) ==
    CASE tag = "chc_kind" -> Kind_from_raw(code)
      [] tag = "chc_interval_unit" -> IntervalUnit_from_raw(code)
      [] tag = "chc_col_kind" -> ColumnLayout_from_raw(code)
      [] tag = "chc_packet_kind" -> PacketKind_from_raw(code)
      [] tag = "errors" -> from_code(code)

-----------------------------------------------------------------------------
(* parity.rs *)

enumerators == {c \in scanned : ~is_sentinel(c[1])}

\* Entries a test passes over: the zero unit, and a packet only the client sends.
Exempt(c) ==
    \/ tag = "chc_interval_unit" /\ c[2] = 0
    \/ tag = "chc_packet_kind" /\ c[1] \in ClientOnly

\* Mutant: entries that have no variant are passed over.
Mapped_lenient(c) == Exempt(c) \/ c[1] \notin Known \/ Convert(c[2]) # None

\* every_*_maps_to_a_variant, for one entry.
Mapped(c) == Exempt(c) \/ Convert(c[2]) # None

parity ==
    /\ phase = "built"
    /\ phase' = IF \A c \in enumerators : Mapped(c) THEN "passed" ELSE "failed"
    /\ UNCHANGED <<tag, header, pos, next_value, scanned>>

Stop == phase \in {"refused", "passed", "failed"} /\ UNCHANGED enumVars

EnumNext == parse_enum_body \/ compile \/ parity \/ Stop

EnumSpec == EnumInit /\ [][EnumNext]_enumVars

-----------------------------------------------------------------------------
(* Properties *)

\* The value C gives an initializer.
CInteger(init) ==
    LET base == CASE init.form = "hex" -> 16 [] init.form = "octal" -> 8 [] OTHER -> 10
    IN  Signed(init.minus, Numeral(init.digits, base))

\* The value the C compiler gives entry k.
CValue[k \in 1..Len(header)] ==
    IF header[k].init # NoInit THEN CInteger(header[k].init)
    ELSE IF k = 1 THEN 0 ELSE CValue[k - 1] + 1

CEntries == {<<header[k].name, CValue[k]>> : k \in {j \in 1..Len(header) : header[j].name # ""}}

\* Initializers build.rs does not read, or reads as another number than C does: an
\* expression, a negative 0x literal, an octal literal beyond 7.
Misread(k) ==
    \/ header[k].init.form = "expression"
    \/ header[k].init.form = "hex" /\ header[k].init.minus
    \/ header[k].init.form = "octal" /\ Len(header[k].init.digits) > 1
AllRead == \A k \in 1..Len(header) : ~Misread(k)

\* Entry k has such an initializer or is counted on from an entry that has one.
Follows(k) ==
    \E j \in 1..k : Misread(j) /\ \A h \in (j + 1)..k : header[h].init = NoInit

\* Every value build.rs gives an entry is the one the C compiler gives it, explicit
\* or counted on from the entry before, unless it is an octal literal beyond 7 or
\* counted on from one, from an expression or from a negative hexadecimal literal;
\* that spoils nothing behind the next literal (build.rs:440, build.rs:464).
LiteralValuesMatchC ==
    \A k \in 1..Len(header) : ~Follows(k) =>
        \A c \in scanned : c[1] = header[k].name => c[2] = CValue[k]

\* A code C uses is converted to the variant of an entry with that code, or to
\* none: in a header whose initializers build.rs reads as C does, an entry the crate
\* does not know never turns into another one, whatever the header's version
\* (types.rs:72, client.rs:512, block.rs:42, error.rs:36).
NeverAnotherVariant ==
    phase \in {"built", "failed", "passed"} /\ AllRead =>
        \A c \in CEntries : \A v \in Convert(c[2]) \cap Known : <<v, c[2]>> \in CEntries

\* With the parity tests passed on such a header, every entry of C's enum that stands
\* for a value and is not exempt has a variant, so no type, unit, layout or packet
\* of this clickhouse-c is unknown to the crate (parity.rs:82).
PassedMeansCovered ==
    phase = "passed" /\ AllRead =>
        \A c \in CEntries : is_sentinel(c[1]) \/ Exempt(c) \/ Convert(c[2]) # None
=============================================================================
