----------------------------- MODULE MCBoundary -----------------------------
(* A small instance of Boundary for TLC.  The crate knows the entries "A"    *)
(* and "B"; "ZERO" is one it leaves out on purpose, as it does the packet    *)
(* CHC_PKT_HELLO, "NEW" one that it does not know, "COUNT" a sentinel.       *)
EXTENDS Boundary

MCNames == {"A", "B", "ZERO", "NEW", "COUNT"}
MCArms == <<"A", "B">>

\* HeaderEnums' Initializer, which cannot be named in the value of a constant that
\* its instance is given.
MCInit(form, minus, digits) == [form |-> form, minus |-> minus, digits |-> digits]

MCInits ==
    {MCInit("none", FALSE, <<>>),
     MCInit("decimal", FALSE, <<1>>), MCInit("decimal", TRUE, <<1>>),
     MCInit("octal", FALSE, <<1>>), MCInit("octal", FALSE, <<1, 0>>),
     MCInit("hex", FALSE, <<10>>), MCInit("hex", TRUE, <<1>>),
     MCInit("expression", FALSE, <<2>>)}
=============================================================================
