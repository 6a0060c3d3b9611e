---------------------------- MODULE BuilderProofs ----------------------------
(***************************************************************************)
(* Proofs about BlockBuilder, for every usize and isize, every byte base   *)
(* and every set of lengths, offsets and keys an application may pass.     *)
(***************************************************************************)
EXTENDS BlockBuilder, SeqLemmas

-----------------------------------------------------------------------------
(* The inductive invariant *)

\* The columns of each kind; a column refers to one of the first n.
NodeOf(n) ==
    [kind : {"fixed"}, rows : 0..IsizeMax, len : Nat, size : Nat]
      \cup [kind : {"string"}, rows : 0..IsizeMax, len : Nat, offsets : Seq(Nat)]
      \cup [kind : {"nullable"}, rows : 0..IsizeMax, len : Nat, child : 1..n]
      \cup [kind : {"array"}, rows : 0..IsizeMax, offsets : Seq(Nat), child : 1..n]
      \cup [kind : {"lc"}, rows : 0..IsizeMax, size : Nat,
            keys : Seq(0..(ByteBase - 1)), child : 1..n]
      \cup [kind : {"tuple"}, rows : 0..IsizeMax, children : (1..n) \X (1..n)]

\* Every column has a row count a slice can have and refers to columns that exist.
NodesOK == nodes \in Seq(NodeOf(Len(nodes)))

\* An appended column is one of the first n, or a decoded one.
ColOf(n) == [node : {None} \cup 1..n, rows : Nat]
ColsOK == cols \in Seq(ColOf(Len(nodes)))

\* ReadsInBounds as a predicate of the columns ns, so that it can be compared
\* before and after a step.
Reads(ns, x) ==
    /\ x.kind = "fixed" => x.rows * x.size <= x.len
    /\ x.kind = "string" => RangesIn(x.offsets, x.rows, x.len)
    /\ x.kind = "nullable" => x.rows <= x.len /\ x.rows <= ns[x.child].rows
    /\ x.kind = "array" => RangesIn(x.offsets, x.rows, ns[x.child].rows)
    /\ x.kind = "lc" => /\ x.rows * x.size <= Len(x.keys)
                        /\ \A i \in 1..x.rows : KeyAt(x.keys, x.size, i) < ns[x.child].rows
    /\ x.kind = "tuple" => \A i \in 1..2 : x.rows <= ns[x.children[i]].rows

AllRead == \A i \in 1..Len(nodes) : Reads(nodes, nodes[i])

Inv == NodesOK /\ ColsOK /\ AllRead /\ RawBlockCurrent

-----------------------------------------------------------------------------
(* The checks *)

\* validate_offsets compares neighbours only; by induction every offset is at
\* most the last one.
LEMMA LastIsLargest ==
    ASSUME NEW o \in Seq(Nat), \A i \in 2..Len(o) : ~(o[i] < o[i - 1]),
           NEW i \in 1..Len(o)
    PROVE  o[i] <= Last(o)
<1>1. Len(o) \in Nat /\ \A j \in 1..Len(o) : o[j] \in Int /\ o[j] \in Nat
  BY LenProperties
<1>2. \A j \in 2..Len(o) : o[j - 1] <= o[j]
  BY <1>1
<1>3. o[i] <= o[Len(o)]
  BY <1>1, <1>2, LastOfRun
<1>4. o # <<>>
  BY <1>1, EmptySeq
<1> QED BY <1>3, <1>4 DEF Last

\* Offsets that pass validate_offsets with a result that fits what they index
\* give every row a range inside it.  The saturated result never fits.
LEMMA OffsetsCover ==
    ASSUME NEW o \in Seq(Nat), NEW rows, NEW v \in 0..IsizeMax,
           validate_offsets(o, rows) # None, v >= validate_offsets(o, rows)
    PROVE  rows = Len(o) /\ RangesIn(o, rows, v)
<1>1. rows = Len(o) /\ \A i \in 2..Len(o) : ~(o[i] < o[i - 1])
  BY DEF validate_offsets
<1>2. Len(o) \in Nat /\ \A j \in 1..Len(o) : o[j] \in Nat
  BY LenProperties
<1>3. Last(o) \in Nat
  BY <1>2, EmptySeq DEF Last
<1>4. Last(o) <= v
  BY <1>1, <1>3, BuilderAssumption DEF validate_offsets
<1>5. ASSUME NEW i \in 1..rows PROVE Start(o, i) <= o[i] /\ o[i] <= v
  <2>1. o[i] <= Last(o)
    BY <1>1, <1>5, LastIsLargest
  <2>2. o[i] <= v
    BY <1>1, <1>2, <1>3, <1>4, <2>1
  <2>3. Start(o, i) <= o[i]
    <3>1. CASE i = 1
      BY <1>1, <1>2, <3>1 DEF Start
    <3>2. CASE i # 1
      <4>1. i \in 2..Len(o) /\ i - 1 \in 1..Len(o)
        BY <1>1, <1>2, <3>2
      <4> QED BY <1>1, <1>2, <3>2, <4>1 DEF Start
    <3> QED BY <3>1, <3>2
  <2> QED BY <2>2, <2>3
<1> QED BY <1>1, <1>2, <1>5 DEF RangesIn

\* A length that covers the checked product covers the rows, and there are no
\* more rows than bytes.
LEMMA LenCovers ==
    ASSUME NEW rows \in Nat, NEW size \in Nat, NEW len \in 0..IsizeMax,
           checked_len(rows, size) # None, len >= checked_len(rows, size)
    PROVE  rows * size <= len /\ (size # 0 => rows \in 0..IsizeMax)
<1>1. rows * size <= len
  BY DEF checked_len
<1>2. ASSUME size # 0 PROVE rows <= rows * size
  BY <1>2
<1> QED BY <1>1, <1>2, BuilderAssumption

-----------------------------------------------------------------------------
(* Building a column *)

\* The kinds of a column.
LEMMA NodeKinds ==
    ASSUME NEW n \in Nat, NEW x \in NodeOf(n)
    PROVE  /\ x.rows \in 0..IsizeMax
           /\ x.kind \in {"fixed", "string", "nullable", "array", "lc", "tuple"}
           /\ x.kind \in {"nullable", "array", "lc"} => x.child \in 1..n
           /\ x.kind = "tuple" => x.children[1] \in 1..n /\ x.children[2] \in 1..n
BY DEF NodeOf

\* A column stays one when more are built.
LEMMA NodeOfGrows == ASSUME NEW n \in Nat PROVE NodeOf(n) \subseteq NodeOf(n + 1)
<1>1. 1..n \subseteq 1..(n + 1)
  OBVIOUS
<1> QED BY <1>1 DEF NodeOf

\* What the writer reads for a column depends on its children only.
LEMMA ReadsFrame ==
    ASSUME NEW n \in Nat, NEW x \in NodeOf(n), NEW ns, NEW ms,
           \A j \in 1..n : ns[j] = ms[j], Reads(ns, x)
    PROVE  Reads(ms, x)
<1>1. /\ x.kind \in {"nullable", "array", "lc"} => x.child \in 1..n
      /\ x.kind = "tuple" => x.children[1] \in 1..n /\ x.children[2] \in 1..n
  BY NodeKinds
<1>2. x.kind \in {"nullable", "array", "lc"} => ns[x.child] = ms[x.child]
  BY <1>1
<1>3. x.kind = "tuple" => \A i \in 1..2 : ns[x.children[i]] = ms[x.children[i]]
  BY <1>1
<1> QED BY <1>2, <1>3 DEF Reads

\* A new column that is in bounds keeps the invariant.
LEMMA BuildStep ==
    ASSUME Inv, NEW node \in NodeOf(Len(nodes)), Build(node), Reads(nodes, node)
    PROVE  Inv'
<1> DEFINE n == Len(nodes)
<1>1. n \in Nat /\ nodes \in Seq(NodeOf(n)) /\ cols \in Seq(ColOf(n))
  BY LenProperties DEF Inv, NodesOK, ColsOK
<1>2. /\ nodes' = Append(nodes, node) /\ Len(nodes') = n + 1
      /\ \A j \in 1..n : nodes'[j] = nodes[j]
      /\ nodes'[n + 1] = node
      /\ UNCHANGED <<cols, vec, raw, n_rows>>
  BY <1>1, AppendProperties DEF Build
<1>3. NodesOK'
  <2>1. node \in NodeOf(n + 1) /\ NodeOf(n) \subseteq NodeOf(n + 1)
    BY <1>1, NodeOfGrows
  <2> DEFINE S == NodeOf(n + 1)
  <2>2. \A j \in 1..n : nodes[j] \in NodeOf(n)
    BY <1>1, LenProperties
  <2> HIDE DEF n, S
  <2>3. nodes' \in Seq(S)
    <3>1. \A j \in 1..Len(nodes) : nodes[j] \in S
      BY <2>1, <2>2 DEF n, S
    <3>2. nodes \in Seq(S)
      BY <1>1, <3>1, LenProperties
    <3> QED BY <1>2, <2>1, <3>2, AppendProperties DEF S
  <2> QED BY <1>2, <2>3 DEF NodesOK, n, S
<1>4. ColsOK'
  <2>1. ColOf(n) \subseteq ColOf(n + 1)
    BY <1>1 DEF ColOf
  <2> DEFINE S == ColOf(n + 1)
  <2>2. \A j \in 1..Len(cols) : cols[j] \in S
    BY <1>1, <2>1, LenProperties
  <2>3. cols \in Seq(S)
    <3> HIDE DEF S
    <3> QED BY <1>1, <2>2, LenProperties
  <2> QED BY <1>2, <2>3 DEF ColsOK
<1>5. AllRead'
  <2> SUFFICES ASSUME NEW i \in 1..(n + 1) PROVE Reads(nodes', nodes'[i])
    BY <1>2 DEF AllRead
  <2>1. CASE i \in 1..n
    <3>1. nodes[i] \in NodeOf(n) /\ Reads(nodes, nodes[i]) /\ nodes'[i] = nodes[i]
      BY <1>1, <1>2, <2>1, LenProperties DEF Inv, AllRead
    <3>2. Reads(nodes', nodes[i])
      BY <1>1, <1>2, <3>1, ReadsFrame
    <3> QED BY <3>1, <3>2
  <2>2. CASE i = n + 1
    <3>1. Reads(nodes', node)
      BY <1>1, <1>2, ReadsFrame
    <3> QED BY <1>2, <2>2, <3>1
  <2> QED BY <1>1, <2>1, <2>2
<1>6. RawBlockCurrent'
  <2>1. ASSUME NEW i \in DOMAIN cols, cols[i].node # None
        PROVE  nodes'[cols[i].node] = nodes[cols[i].node]
    <3>1. cols[i] \in ColOf(n)
      BY <1>1, LenProperties
    <3>2. cols[i].node \in 1..n
      BY <2>1, <3>1 DEF ColOf
    <3> QED BY <1>2, <3>2
  <2> QED BY <1>2, <2>1 DEF Inv, RawBlockCurrent
<1> QED BY <1>3, <1>4, <1>5, <1>6 DEF Inv

\* Every constructor accepts only columns the writer can read: one case for
\* each.
LEMMA ColumnStep == ASSUME Inv, Column PROVE Inv'
<1> DEFINE n == Len(nodes)
<1>1. /\ n \in Nat /\ nodes \in Seq(NodeOf(n)) /\ DOMAIN nodes = 1..n
      /\ IsizeMax \in Nat
  BY LenProperties, BuilderAssumption DEF Inv, NodesOK
<1>2. \A c \in 1..n : nodes[c] \in NodeOf(n)
  BY <1>1, LenProperties
<1>3. \A c \in 1..n : nodes[c].rows \in 0..IsizeMax
  BY <1>1, <1>2, NodeKinds
<1> HIDE DEF n
<1>4. ASSUME NEW node \in NodeOf(n), Build(node), Reads(nodes, node) PROVE Inv'
  BY <1>4, BuildStep DEF n
<1>5. ASSUME NEW len \in Lens, NEW size \in Sizes, NEW rows \in Sizes, fixed(len, size, rows)
      PROVE  Inv'
  <2> DEFINE x == [kind |-> "fixed", rows |-> rows, len |-> len, size |-> size]
  <2>1. /\ len \in 0..IsizeMax /\ len \in Nat /\ size \in Nat /\ rows \in Nat
    BY BuilderAssumption
  <2>2. rows * size <= len /\ rows \in 0..IsizeMax
    BY <1>5, <2>1, LenCovers DEF fixed, require_covers
  <2>3. x \in NodeOf(n)
    BY <2>1, <2>2 DEF NodeOf
  <2>4. Reads(nodes, x)
    BY <2>2 DEF Reads
  <2> QED BY <1>4, <1>5, <2>3, <2>4 DEF fixed
<1>6. ASSUME NEW o \in Offsets, NEW len \in Lens, NEW rows \in Sizes, string(o, len, rows)
      PROVE  Inv'
  <2> DEFINE x == [kind |-> "string", rows |-> rows, len |-> len, offsets |-> o]
  <2>1. /\ len \in 0..IsizeMax /\ len \in Nat /\ o \in Seq(Nat) /\ Len(o) <= IsizeMax
        /\ Len(o) \in Nat
    BY BuilderAssumption, LenProperties
  <2>2. rows = Len(o) /\ RangesIn(o, rows, len)
    BY <1>6, <2>1, OffsetsCover DEF string, require_covers
  <2>3. rows \in 0..IsizeMax
    BY <1>1, <2>1, <2>2
  <2>4. x \in NodeOf(n)
    BY <2>1, <2>3 DEF NodeOf
  <2>5. Reads(nodes, x)
    BY <2>2 DEF Reads
  <2> QED BY <1>4, <1>6, <2>4, <2>5 DEF string
<1>7. ASSUME NEW c \in 1..n, NEW len \in Lens, nullable(c, len) PROVE Inv'
  <2> DEFINE x == [kind |-> "nullable", rows |-> nodes[c].rows, len |-> len, child |-> c]
  <2>1. len \in Nat /\ nodes[c].rows \in 0..IsizeMax
    BY <1>3, BuilderAssumption
  <2>2. len = nodes[c].rows
    BY <1>7 DEF nullable, require_len
  <2>3. x \in NodeOf(n)
    BY <2>1 DEF NodeOf
  <2>4. Reads(nodes, x)
    BY <2>1, <2>2 DEF Reads
  <2> QED BY <1>4, <1>7, <2>3, <2>4 DEF nullable
<1>8. ASSUME NEW c \in 1..n, NEW o \in Offsets, NEW rows \in Sizes, array(c, o, rows)
      PROVE  Inv'
  <2> DEFINE x == [kind |-> "array", rows |-> rows, offsets |-> o, child |-> c]
  <2>1. /\ nodes[c].rows \in 0..IsizeMax /\ o \in Seq(Nat) /\ Len(o) <= IsizeMax
        /\ Len(o) \in Nat
    BY <1>3, BuilderAssumption, LenProperties
  <2>2. /\ validate_offsets(o, rows) # None
        /\ nodes[c].rows >= validate_offsets(o, rows)
    BY <1>8, <2>1 DEF array, require_len
  <2>3. rows = Len(o) /\ RangesIn(o, rows, nodes[c].rows)
    BY <2>1, <2>2, OffsetsCover
  <2>4. rows \in 0..IsizeMax
    BY <1>1, <2>1, <2>3
  <2>5. x \in NodeOf(n)
    BY <2>1, <2>4 DEF NodeOf
  <2>6. Reads(nodes, x)
    BY <2>3 DEF Reads
  <2> QED BY <1>4, <1>8, <2>5, <2>6 DEF array
<1>9. ASSUME NEW c \in 1..n, NEW size \in Sizes, NEW k \in KeySlabs, NEW rows \in Sizes,
             low_cardinality(c, size, k, rows)
      PROVE  Inv'
  <2> DEFINE x == [kind |-> "lc", rows |-> rows, size |-> size, keys |-> k, child |-> c]
  <2>1. /\ k \in Seq(0..(ByteBase - 1)) /\ Len(k) \in 0..IsizeMax
        /\ size \in Nat /\ rows \in Nat /\ size # 0
    <3>1. k \in Seq(0..(ByteBase - 1)) /\ Len(k) <= IsizeMax /\ size \in Nat /\ rows \in Nat
      BY BuilderAssumption
    <3>2. Len(k) \in 0..IsizeMax
      BY <1>1, <3>1, LenProperties
    <3>3. size # 0
      BY <1>9 DEF low_cardinality, validate_low_cardinality_keys
    <3> QED BY <3>1, <3>2, <3>3
  <2>2. checked_len(rows, size) # None /\ Len(k) = checked_len(rows, size)
    BY <1>9 DEF low_cardinality, validate_low_cardinality_keys, require_len
  <2>3. rows * size <= Len(k) /\ rows \in 0..IsizeMax
    BY <2>1, <2>2, LenCovers
  <2>4. \A i \in 1..rows : KeyAt(k, size, i) < nodes[c].rows
    BY <1>9 DEF low_cardinality, validate_low_cardinality_keys
  <2>5. x \in NodeOf(n)
    BY <2>1, <2>3 DEF NodeOf
  <2>6. Reads(nodes, x)
    BY <2>3, <2>4 DEF Reads
  <2> QED BY <1>4, <1>9, <2>5, <2>6 DEF low_cardinality
<1>10. ASSUME NEW c \in 1..n, NEW d \in 1..n, tuple(c, d) PROVE Inv'
  <2> DEFINE x == [kind |-> "tuple", rows |-> nodes[c].rows, children |-> <<c, d>>]
  <2>1. nodes[c].rows \in 0..IsizeMax /\ nodes[d].rows = nodes[c].rows
    BY <1>3, <1>10 DEF tuple
  <2>2. x \in NodeOf(n)
    BY <2>1 DEF NodeOf
  <2>3. Reads(nodes, x)
    BY <2>1 DEF Reads
  <2> QED BY <1>4, <1>10, <2>2, <2>3 DEF tuple
<1> QED BY <1>1, <1>5, <1>6, <1>7, <1>8, <1>9, <1>10 DEF Column

-----------------------------------------------------------------------------
(* Appending a column *)

\* The raw block is brought up to date with every append, whether or not the
\* vector moved.
LEMMA PushStep ==
    ASSUME Inv, NEW c, NEW rows \in Nat, c \in {None} \cup DOMAIN nodes,
           c # None => rows = nodes[c].rows, push(c, rows)
    PROVE  Inv'
<1> DEFINE n == Len(nodes)
           col == [node |-> c, rows |-> rows]
<1>1. /\ n \in Nat /\ DOMAIN nodes = 1..n /\ cols \in Seq(ColOf(n))
  BY LenProperties DEF Inv, NodesOK, ColsOK
<1>2. /\ UNCHANGED nodes /\ cols' = Append(cols, col) /\ n_rows' = rows
      /\ n_rows \in {None, rows}
      /\ raw'.cols = vec' /\ raw'.n_cols = Len(cols') /\ raw'.n_rows = rows
  BY DEF push, Push
<1>3. col \in ColOf(n)
  BY <1>1 DEF ColOf
<1>4. /\ cols' \in Seq(ColOf(n)) /\ Len(cols') = Len(cols) + 1 /\ Len(cols) \in Nat
      /\ \A i \in 1..Len(cols) : cols'[i] = cols[i]
      /\ cols'[Len(cols) + 1] = col
  <2> HIDE DEF col
  <2> QED BY <1>1, <1>2, <1>3, AppendProperties, LenProperties
<1>5. NodesOK' /\ ColsOK' /\ AllRead'
  BY <1>2, <1>4 DEF Inv, NodesOK, ColsOK, AllRead
<1>6. ASSUME NEW i \in 1..Len(cols)
      PROVE  /\ cols[i].rows = rows
             /\ cols[i].node # None => nodes[cols[i].node].rows = rows
  <2>1. cols # <<>> /\ DOMAIN cols = 1..Len(cols) /\ cols[i] \in ColOf(n)
    BY <1>1, <1>4, EmptySeq, LenProperties
  <2>2. /\ cols[i].rows = n_rows
        /\ cols[i].node # None => nodes[cols[i].node].rows = n_rows
    BY <2>1 DEF Inv, RawBlockCurrent
  <2>3. cols[i].rows \in Nat
    BY <2>1 DEF ColOf
  <2>4. n_rows # None
    BY <2>2, <2>3 DEF None
  <2> QED BY <1>2, <2>2, <2>4
<1>7. cols' # <<>> /\ DOMAIN cols' = 1..(Len(cols) + 1)
  BY <1>4, EmptySeq, LenProperties
<1>8. ASSUME NEW i \in DOMAIN cols'
      PROVE  /\ cols'[i].rows = rows
             /\ cols'[i].node # None => nodes'[cols'[i].node].rows = rows
  <2>1. CASE i \in 1..Len(cols)
    BY <1>2, <1>4, <1>6, <2>1
  <2>2. CASE i = Len(cols) + 1
    BY <1>2, <1>4, <2>2
  <2> QED BY <1>4, <1>7, <2>1, <2>2
<1>9. RawBlockCurrent'
  BY <1>2, <1>7, <1>8 DEF RawBlockCurrent
<1> QED BY <1>5, <1>9 DEF Inv

-----------------------------------------------------------------------------
(* The theorems *)

\* The invariant is inductive.
LEMMA Invariance == Spec => []Inv
<1>1. Init => Inv
  <2> SUFFICES ASSUME Init PROVE Inv
    OBVIOUS
  <2>1. nodes = <<>> /\ cols = <<>> /\ Len(nodes) = 0
    BY DEF Init
  <2>2. NodesOK /\ ColsOK
    BY <2>1, EmptySeq DEF NodesOK, ColsOK
  <2>3. AllRead
    BY <2>1 DEF AllRead
  <2>4. RawBlockCurrent
    BY DEF Init, RawBlockCurrent
  <2> QED BY <2>2, <2>3, <2>4 DEF Inv
<1>2. Inv /\ [Next]_builderVars => Inv'
  <2> SUFFICES ASSUME Inv, [Next]_builderVars PROVE Inv'
    OBVIOUS
  <2>1. CASE UNCHANGED builderVars
    BY <2>1 DEF builderVars, Inv, NodesOK, ColsOK, AllRead, RawBlockCurrent
  <2>2. ASSUME NEW c \in DOMAIN nodes, append(c) PROVE Inv'
    <3>1. /\ Len(nodes) \in Nat /\ DOMAIN nodes = 1..Len(nodes)
          /\ nodes[c] \in NodeOf(Len(nodes))
      BY LenProperties DEF Inv, NodesOK
    <3>2. nodes[c].rows \in Nat
      BY <3>1, NodeKinds, BuilderAssumption
    <3> QED BY <2>2, <3>1, <3>2, PushStep DEF append
  <2>3. ASSUME NEW rows \in Sizes, append_column(rows) PROVE Inv'
    <3>1. rows \in Nat
      BY BuilderAssumption
    <3> QED BY <2>3, <3>1, PushStep DEF append_column
  <2> QED BY <2>1, <2>2, <2>3, ColumnStep DEF Next
<1> QED BY <1>1, <1>2, PTL DEF Spec

\* Whatever columns an application composes from whatever lengths, offsets and
\* keys, the C writer, which checks nothing, never reads past a slab, a child's
\* rows or a dictionary.
THEOREM WriterSafe == Spec => []WriterStaysInBounds
<1>1. Inv => WriterStaysInBounds
  <2> SUFFICES ASSUME Inv, NEW i \in DOMAIN nodes PROVE ReadsInBounds(nodes[i])
    BY DEF WriterStaysInBounds
  <2>1. i \in 1..Len(nodes) /\ Len(nodes) \in Nat /\ nodes[i] \in NodeOf(Len(nodes))
    BY LenProperties DEF Inv, NodesOK
  <2>2. Reads(nodes, nodes[i])
    BY <2>1 DEF Inv, AllRead
  <2>3. nodes[i].kind \in {"fixed", "string", "nullable", "array", "lc", "tuple"}
    BY <2>1, NodeKinds
  <2> DEFINE x == nodes[i]
  <2> HIDE DEF x
  <2>4. x.kind \in {"fixed", "string", "nullable", "array", "lc", "tuple"} /\ Reads(nodes, x)
    BY <2>2, <2>3 DEF x
  <2>5. ReadsInBounds(x)
    BY <2>4 DEF Reads, ReadsInBounds
  <2> QED BY <2>5 DEF x
<1> QED BY <1>1, Invariance, PTL

\* No accepted column has more rows than a slice has elements, so the saturated
\* last offset of validate_offsets never equals a child's row count.
THEOREM RowsSafe == Spec => []RowsFitSlice
<1>1. Inv => RowsFitSlice
  <2> SUFFICES ASSUME Inv, NEW i \in DOMAIN nodes PROVE nodes[i].rows <= IsizeMax
    BY DEF RowsFitSlice
  <2>1. Len(nodes) \in Nat /\ nodes[i] \in NodeOf(Len(nodes))
    BY LenProperties DEF Inv, NodesOK
  <2>2. nodes[i].rows \in 0..IsizeMax
    BY <2>1, NodeKinds
  <2> QED BY <2>2
<1> QED BY <1>1, Invariance, PTL

\* The raw block given to C always points to the vector's current buffer and
\* counts the columns and rows that are in it.
THEOREM RawBlockSafe == Spec => []RawBlockCurrent
<1>1. Inv => RawBlockCurrent
  BY DEF Inv
<1> QED BY <1>1, Invariance, PTL
=============================================================================
