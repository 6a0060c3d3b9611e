----------------------------- MODULE ColumnView -----------------------------
(***************************************************************************)
(* The views of src/src/block.rs: a decoded Block, its columns, and the    *)
(* slices the typed getters make of the slabs C published.  C is trusted   *)
(* for the slabs it publishes, as slice_or_none's safety contract has it,  *)
(* and not for what is in them: offsets and keys come from the wire.       *)
(*                                                                         *)
(* A column is picked when it is looked at, among those C may have put     *)
(* there: since a block never changes, this is as good as picking it when  *)
(* the block is decoded.                                                   *)
(***************************************************************************)
EXTENDS Integers, Sequences

CONSTANTS
    UsizeMax,   \* largest usize
    U64Max,     \* largest offset; on a 32-bit target it does not fit a usize
    MaxRows,    \* rows of a column
    MaxWidth,   \* bytes of a value or key
    MaxColumns  \* columns of a block

ASSUME ViewAssumption ==
    /\ UsizeMax \in Nat \ {0} /\ U64Max \in Nat /\ UsizeMax <= U64Max
    /\ MaxRows \in 0..UsizeMax /\ MaxWidth \in 0..UsizeMax /\ MaxColumns \in Nat

\* A null slab, and a None.
None == -1
NoView == [len |-> None, slab |-> None]

VARIABLES
    columns,    \* per column: is there a body, and does it pass validation
    checked,    \* what Block::validate returned: "no" (not called), "ok", "err"
    col,        \* the column being looked at, or Nowhere
    view,       \* the slice a getter returned: its length and its slab's
    index       \* an element the application picked by an offset or a key

viewVars == <<columns, checked, col, view, index>>

-----------------------------------------------------------------------------
(* What C publishes *)

Least(a, b) == IF a < b THEN a ELSE b
Rows == 0..MaxRows

\* `n` values of `width` bytes: a slab of that size or more.  Where no slab can be
\* that large, the claim is all there is.
Slabs(n, width) == {s \in 0..UsizeMax : s >= Least(n * width, UsizeMax)} \cup {None}

Column(layout, n, width, slab, refs, bytes, rows) ==
    [layout |-> layout, n |-> n, width |-> width, slab |-> slab, refs |-> refs,
     bytes |-> bytes, rows |-> rows]

Nowhere == Column("none", 0, 0, None, <<>>, 0, 0)

Fixed == UNION {{Column("Fixed", n, w, s, <<>>, 0, 0) : s \in Slabs(n, w)}
                : n \in Rows, w \in 0..MaxWidth}

\* refs are the offsets, in a slab of `rows` elements if there is one; `bytes` is the
\* size of the data slab, null when it is empty.
Strings == UNION {{Column("String", n, 0, IF b = 0 THEN None ELSE b, offs, b, r) :
                      b \in 0..UsizeMax, offs \in [1..n -> 0..U64Max], r \in {n, None}}
                  : n \in Rows}

\* A byte per row, and an inner column of as many rows.
Nullables == UNION {{Column("Nullable", n, 1, s, <<>>, 0, n) : s \in Slabs(n, 1)} : n \in Rows}

\* refs are the offsets, of which the last is the number of element rows.
Arrays == UNION {{Column("Array", n, 0, n, offs, 0, IF n = 0 THEN 0 ELSE offs[n]) :
                      offs \in [1..n -> Rows]}
                 : n \in Rows}

Tuples == {Column("Tuple", n, 0, None, <<>>, 0, n) : n \in Rows}

\* refs are the keys; `rows` is the size of the dictionary.  A key size of zero or
\* less, or a dictionary that is not there (-1), means a column that is not whole.
LowCardinalities ==
    UNION {{Column("LowCardinality", n, w, s, keys, 0, d) :
                s \in Slabs(n, w), keys \in [1..n -> Rows], d \in Rows \cup {None}}
           : n \in Rows, w \in -1..MaxWidth}

Nothings == {Column("Nothing", n, 0, None, <<>>, 0, 0) : n \in Rows}

Published ==
    Fixed \cup Strings \cup Nullables \cup Arrays \cup Tuples \cup LowCardinalities \cup Nothings

\* chc_column_validate, on one level of a column: offsets of an array do not
\* decrease, and every key names an entry of the dictionary.
Valid(c) ==
    CASE c.layout = "Array" -> \A k \in 2..c.n : c.refs[k - 1] <= c.refs[k]
      [] c.layout = "LowCardinality" -> \A k \in 1..c.n : c.refs[k] < c.rows
      [] OTHER -> TRUE

-----------------------------------------------------------------------------
(* Block *)

\* "absent" is a column without a body, as in a block of no rows.
ViewInit ==
    /\ \E n \in 0..MaxColumns : columns \in [1..n -> {"absent", "good", "bad"}]
    /\ checked = "no" /\ col = Nowhere /\ view = NoView /\ index = None

n_columns == Len(columns)

\* Mutant: the last column is not validated.
validate_short ==
    /\ checked = "no" /\ col = Nowhere
    /\ checked' = IF \A k \in 1..(n_columns - 1) : columns[k] # "bad" THEN "ok" ELSE "err"
    /\ UNCHANGED <<columns, col, view, index>>

\* The first column that fails ends it; one without a body is passed over.
validate ==
    /\ checked = "no" /\ col = Nowhere
    /\ checked' = IF \A k \in 1..n_columns : columns[k] # "bad" THEN "ok" ELSE "err"
    /\ UNCHANGED <<columns, col, view, index>>

\* Some(column) for a column with a body, None past the end and without one.
column(k) ==
    /\ col = Nowhere
    /\ IF k \in 1..n_columns /\ columns[k] # "absent"
       THEN \E c \in Published : (columns[k] = "good" => Valid(c)) /\ col' = c
       ELSE UNCHANGED col
    /\ UNCHANGED <<columns, checked, view, index>>

-----------------------------------------------------------------------------
(* The getters of Column.  Each has None for a foreign layout. *)

Returns(v) == view' = v /\ UNCHANGED <<columns, checked, col, index>>

slice_or_none(slab, len) == IF slab = None THEN NoView ELSE [len |-> len, slab |-> slab]

\* Mutant: the product wraps.
checked_mul_wraps(a, b) == (a * b) % (UsizeMax + 1)

\* None on overflow.
checked_mul(a, b) == IF a * b > UsizeMax THEN None ELSE a * b

Bytes(n, width, slab) ==
    LET len == checked_mul(n, width)
    IN IF len = None THEN NoView ELSE slice_or_none(slab, len)

fixed ==
    /\ view = NoView /\ col.layout = "Fixed"
    /\ Returns(Bytes(col.n, col.width, col.slab))

\* Mutant: the data slice is as long as the last offset says.
DataLen_claimed(claimed) == claimed

\* The data slice is bounded by the last offset and by the slab.
DataLen(claimed) == Least(claimed, col.bytes)

\* Without offsets there is nothing.  The last one is cut to a usize.
string ==
    /\ view = NoView /\ col.layout = "String"
    /\ LET offsets == slice_or_none(col.rows, col.n)
           last == IF col.n = 0 THEN 0 ELSE col.refs[col.n]
           len == DataLen(last % (UsizeMax + 1))
       IN Returns(IF offsets = NoView THEN NoView
                  ELSE IF len = 0 THEN [len |-> 0, slab |-> 0] ELSE slice_or_none(col.slab, len))

null_map ==
    /\ view = NoView /\ col.layout = "Nullable"
    /\ Returns(slice_or_none(col.slab, col.n))

array_offsets ==
    /\ view = NoView /\ col.layout = "Array"
    /\ Returns(slice_or_none(col.slab, col.n))

\* Neither a key size that is no positive number nor a missing dictionary.
low_cardinality ==
    /\ view = NoView /\ col.layout = "LowCardinality"
    /\ Returns(IF col.width > 0 /\ col.rows # None THEN Bytes(col.n, col.width, col.slab)
               ELSE NoView)

\* nullable_inner, array_values and tuple_child lead to a column of `rows` rows, and
\* so does the dictionary of a LowCardinalityView.
child ==
    /\ \/ col.layout \in {"Nullable", "Array", "Tuple"}
       \/ col.layout = "LowCardinality" /\ view # NoView
    /\ \E c \in Published :
        /\ c.n = col.rows /\ (checked = "ok" => Valid(c))
        /\ col' = c
    /\ view' = NoView /\ index' = None
    /\ UNCHANGED <<columns, checked>>

-----------------------------------------------------------------------------
(* The application *)

\* It uses a row's offsets, or a key, of a view it was given, on the child column.
Pick ==
    /\ view # NoView /\ index = None
    /\ \E k \in 1..col.n :
        \/ /\ col.layout = "Array"
           /\ index' \in (IF k = 1 THEN 0 ELSE col.refs[k - 1])..(col.refs[k] - 1)
        \/ col.layout = "LowCardinality" /\ index' = col.refs[k]
    /\ UNCHANGED <<columns, checked, col, view>>

\* It is done with the column.
Leave ==
    /\ col # Nowhere
    /\ col' = Nowhere /\ view' = NoView /\ index' = None
    /\ UNCHANGED <<columns, checked>>

ViewNext ==
    \/ validate
    \/ \E k \in 1..(MaxColumns + 1) : column(k)
    \/ fixed \/ string \/ null_map \/ array_offsets \/ low_cardinality \/ child
    \/ Pick \/ Leave

ViewSpec == ViewInit /\ [][ViewNext]_viewVars

-----------------------------------------------------------------------------
(* Properties *)

\* No slice is longer than the slab behind it, whatever offsets, row counts and
\* widths came from the wire, also where a u64 is wider than a usize
\* (block.rs:279, block.rs:300).
ViewWithinSlab == view.len <= view.slab

\* The bytes of a fixed-width column, or of its keys, are there for every row: a
\* length that overflows gives no slice rather than a short one (block.rs:279).
EveryRowInView ==
    view # NoView /\ col.layout \in {"Fixed", "LowCardinality"} => view.len = col.n * col.width

\* In a block that passed validate, an offset or a key of any column leads to a row
\* of its elements or dictionary (block.rs:150).
CheckedIndexInRange == checked = "ok" /\ index # None => index < col.rows
=============================================================================
