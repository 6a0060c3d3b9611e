---------------------------- MODULE BlockBuilder ----------------------------
(***************************************************************************)
(* Block construction, src/src/builder.rs: the checks that stand between   *)
(* borrowed slices and the C writer, which trusts every length, offset and *)
(* key it is given, and the raw block that points into a growing vector.   *)
(*                                                                         *)
(* A slab of bytes is its length, except the LowCardinality keys, whose    *)
(* bytes are digits of base ByteBase.  A column refers to its children by  *)
(* their place in `nodes`.                                                 *)
(***************************************************************************)
EXTENDS Integers, Sequences

CONSTANTS
    UsizeMax,   \* largest usize
    IsizeMax,   \* largest length of a slice
    ByteBase,   \* values of a byte
    Sizes,      \* element sizes and row counts the application passes
    Lens,       \* lengths of its byte slabs
    Offsets,    \* its offset slices, of u64
    KeySlabs,   \* its key slices, of bytes
    MaxNodes,   \* bound: columns built
    MaxCols     \* bound: columns appended

ASSUME BuilderAssumption ==
    /\ IsizeMax \in Nat /\ UsizeMax \in Nat /\ IsizeMax < UsizeMax /\ ByteBase \in Nat \ {0, 1}
    /\ Sizes \subseteq 0..UsizeMax /\ Lens \subseteq 0..IsizeMax
    /\ \A o \in Offsets : o \in Seq(Nat) /\ Len(o) <= IsizeMax
    /\ \A k \in KeySlabs : k \in Seq(0..(ByteBase - 1)) /\ Len(k) <= IsizeMax

VARIABLES
    nodes,      \* the ColumnBuilders made so far
    cols,       \* BlockBuilder.cols: the appended columns, [node, rows]
    vec,        \* where the vector's buffer is: an allocation number
    raw,        \* the chc_block_builder: cols pointer, n_cols, n_rows
    n_rows      \* BlockBuilder.n_rows: None or a row count

builderVars == <<nodes, cols, vec, raw, n_rows>>

None == -1

Init ==
    /\ nodes = <<>> /\ cols = <<>> /\ vec = 0
    /\ raw = [cols |-> 0, n_cols |-> 0, n_rows |-> 0]
    /\ n_rows = None

-----------------------------------------------------------------------------
(* The checks *)

\* The product, or None on overflow.
checked_len(count, width) ==
    IF count * width <= UsizeMax THEN count * width ELSE None

require_covers(actual, needed) == needed # None /\ actual >= needed
require_len(actual, expected) == expected # None /\ actual = expected

Last(offsets) == IF offsets = <<>> THEN 0 ELSE offsets[Len(offsets)]

\* Mutant: only the last offset is looked at.
validate_offsets_last(offsets, rows) ==
    IF Len(offsets) # rows THEN None
    ELSE IF Last(offsets) > UsizeMax THEN UsizeMax ELSE Last(offsets)

\* One offset per row, none smaller than the one before; the last one as a
\* usize, saturated, or None for an error.
validate_offsets(offsets, rows) ==
    IF \/ Len(offsets) # rows
       \/ \E i \in 2..Len(offsets) : offsets[i] < offsets[i - 1]
    THEN None
    ELSE IF Last(offsets) > UsizeMax THEN UsizeMax ELSE Last(offsets)

\* Key i of a slab of keys of `size` bytes, least significant byte first.
KeyAt(keys, size, i) ==
    LET digit[j \in 0..size] ==
          IF j = 0 THEN 0
          ELSE digit[j - 1] + keys[(i - 1) * size + j] * ByteBase^(j - 1)
    IN digit[size]

validate_low_cardinality_keys(keys, size, rows, dict) ==
    /\ size \in {1, 2, 4, 8}
    /\ require_len(Len(keys), checked_len(rows, size))
    /\ \A i \in 1..rows : KeyAt(keys, size, i) < dict

-----------------------------------------------------------------------------
(* ColumnBuilder *)

Build(node) ==
    /\ nodes' = Append(nodes, node)
    /\ UNCHANGED <<cols, vec, raw, n_rows>>

\* Mutant: a zero element size is not refused.
fixed_zero(len, size, rows) ==
    /\ require_covers(len, checked_len(rows, size))
    /\ Build([kind |-> "fixed", rows |-> rows, len |-> len, size |-> size])

fixed(len, size, rows) ==
    /\ size # 0
    /\ require_covers(len, checked_len(rows, size))
    /\ Build([kind |-> "fixed", rows |-> rows, len |-> len, size |-> size])

string(offsets, len, rows) ==
    /\ require_covers(len, validate_offsets(offsets, rows))
    /\ Build([kind |-> "string", rows |-> rows, len |-> len, offsets |-> offsets])

nullable(c, len) ==
    /\ require_len(len, nodes[c].rows)
    /\ Build([kind |-> "nullable", rows |-> nodes[c].rows, len |-> len, child |-> c])

array(c, offsets, rows) ==
    /\ require_len(nodes[c].rows, validate_offsets(offsets, rows))
    /\ Build([kind |-> "array", rows |-> rows, offsets |-> offsets, child |-> c])

low_cardinality(c, size, keys, rows) ==
    /\ validate_low_cardinality_keys(keys, size, rows, nodes[c].rows)
    /\ Build([kind |-> "lc", rows |-> rows, size |-> size, keys |-> keys, child |-> c])

\* Children of equal row count, with a pointer slot for each.
tuple(c, d) ==
    /\ nodes[c].rows = nodes[d].rows
    /\ Build([kind |-> "tuple", rows |-> nodes[c].rows, children |-> <<c, d>>])

-----------------------------------------------------------------------------
(* BlockBuilder *)

\* A row count that does not match is refused.  The vector grows in place or moves to
\* a new buffer.
Push(c, rows, pointer) ==
    /\ n_rows \in {None, rows}
    /\ n_rows' = rows
    /\ cols' = Append(cols, [node |-> c, rows |-> rows])
    /\ vec' \in IF cols = <<>> THEN {vec + 1} ELSE {vec, vec + 1}
    /\ raw' = [cols |-> pointer, n_cols |-> Len(cols'), n_rows |-> rows]
    /\ UNCHANGED nodes

\* Mutant: the pointer is taken before the vector grows.
push_stale(c, rows) == Push(c, rows, IF cols = <<>> THEN vec + 1 ELSE vec)

push(c, rows) == Push(c, rows, vec')

append(c) == push(c, nodes[c].rows)

\* A decoded column, with the row count of its block.  It is in C's memory and none
\* of `nodes`, and the builder checks nothing else of it.
append_column(rows) == push(None, rows)

\* The application makes a column from slices and earlier columns.
Column ==
    \/ \E l \in Lens, s \in Sizes, n \in Sizes : fixed(l, s, n)
    \/ \E o \in Offsets, l \in Lens, n \in Sizes : string(o, l, n)
    \/ \E c \in DOMAIN nodes :
         \/ \E l \in Lens : nullable(c, l)
         \/ \E o \in Offsets, n \in Sizes : array(c, o, n)
         \/ \E s \in Sizes, k \in KeySlabs, n \in Sizes : low_cardinality(c, s, k, n)
         \/ \E d \in DOMAIN nodes : tuple(c, d)

Next ==
    \/ Len(nodes) < MaxNodes /\ Column
    \/ Len(cols) < MaxCols /\ \E c \in DOMAIN nodes : append(c)
    \/ Len(cols) < MaxCols /\ \E n \in Sizes : append_column(n)

Spec == Init /\ [][Next]_builderVars

-----------------------------------------------------------------------------
(* What the C writer reads for a built column, all of it unchecked.  What it *)
(* reads of a decoded one is what C itself decoded.                         *)

Start(offsets, i) == IF i = 1 THEN 0 ELSE offsets[i - 1]

\* Every row's range of a string or array lies in what `size` elements hold.
RangesIn(offsets, rows, size) ==
    /\ rows <= Len(offsets)
    /\ \A i \in 1..rows : Start(offsets, i) <= offsets[i] /\ offsets[i] <= size

ReadsInBounds(node) ==
    CASE node.kind = "fixed" -> node.rows * node.size <= node.len
      [] node.kind = "string" -> RangesIn(node.offsets, node.rows, node.len)
      [] node.kind = "nullable" ->
            node.rows <= node.len /\ node.rows <= nodes[node.child].rows
      [] node.kind = "array" ->
            RangesIn(node.offsets, node.rows, nodes[node.child].rows)
      [] node.kind = "lc" ->
            /\ node.rows * node.size <= Len(node.keys)
            /\ \A i \in 1..node.rows : KeyAt(node.keys, node.size, i) < nodes[node.child].rows
      [] node.kind = "tuple" ->
            \A i \in 1..2 : node.rows <= nodes[node.children[i]].rows

-----------------------------------------------------------------------------
(* Properties *)

\* Whatever sequence of constructors the application composes, and whatever
\* lengths, offsets and keys it passes, a column the builder made never makes the
\* writer read past a slab, past a child's rows or past a dictionary.
WriterStaysInBounds == \A i \in DOMAIN nodes : ReadsInBounds(nodes[i])

\* No accepted column has more rows than a slice can have elements.  The
\* saturation in validate_offsets is sound because of this: a child with
\* usize::MAX rows would match an offset beyond usize.
RowsFitSlice == \A i \in DOMAIN nodes : nodes[i].rows <= IsizeMax

\* The raw block describes the columns appended, built and decoded: its pointer is
\* the vector's current buffer, and every column has the row count the writer will
\* use.
RawBlockCurrent ==
    IF cols = <<>> THEN raw.n_cols = 0 /\ n_rows = None
    ELSE /\ raw.cols = vec /\ raw.n_cols = Len(cols)
         /\ raw.n_rows = n_rows
         /\ \A i \in DOMAIN cols :
               /\ cols[i].rows = raw.n_rows
               /\ cols[i].node # None => nodes[cols[i].node].rows = raw.n_rows
=============================================================================
