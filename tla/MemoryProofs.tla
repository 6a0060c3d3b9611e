---------------------------- MODULE MemoryProofs ----------------------------
(***************************************************************************)
(* Proofs about the memory the crate shares with C: what the allocator     *)
(* hands out (Allocator), who frees the objects in it (Ownership) and what *)
(* the views read of it (ColumnView).  The three share no state; each is   *)
(* proved from its own invariant.                                          *)
(***************************************************************************)
EXTENDS Allocator, Ownership, ColumnView, SeqLemmas

-----------------------------------------------------------------------------
(* Allocator, for every alignment, limit and set of counts *)

\* Within the contract every block C holds has a layout, so a callback's early
\* return for an unrepresentable count is never taken with a genuine one.
AllHaveLayouts == \A p \in Addr : broken = FALSE /\ kept[p] # NoBlock => HasLayout(kept[p])

\* The inductive invariant: that the books agree is what makes the layout passed
\* to dealloc the granted one.
BooksInv == AllocTypeOK /\ BooksAgree /\ AllHaveLayouts

\* A served or refused request keeps the books.
LEMMA AllocateStep ==
    ASSUME BooksInv, NEW n \in AllocSizes, NEW r \in Addr \cup {Null}, CAllocates(n, r)
    PROVE  BooksInv' /\ broken' = FALSE
<1> USE AllocatorAssumption DEF NoBlock
<1>1. alloc(n, r) /\ Keep(r, n)
  BY DEF CAllocates, realloc
<1>2. broken = FALSE /\ broken' = broken
  BY <1>1 DEF alloc, Grant, CAllocates, BooksInv, AllocTypeOK
<1>3. CASE r = Null
  <2>1. granted' = granted /\ kept' = kept
    BY <1>1, <1>3 DEF alloc, Grant, Keep
  <2> QED BY <1>2, <2>1 DEF BooksInv, AllocTypeOK, BooksAgree, AllHaveLayouts
<1>4. CASE r # Null
  <2>1. /\ r \in Addr /\ granted' = [granted EXCEPT ![r] = LayoutSize(n)]
        /\ kept' = [kept EXCEPT ![r] = n] /\ HasLayout(n)
    BY <1>1, <1>4 DEF alloc, Grant, Keep
  <2>2. AllocTypeOK' /\ BooksAgree'
    BY <1>2, <2>1 DEF BooksInv, AllocTypeOK, BooksAgree, LayoutSize
  <2>3. AllHaveLayouts'
    BY <1>2, <2>1 DEF BooksInv, AllocTypeOK, AllHaveLayouts
  <2> QED BY <1>2, <2>2, <2>3 DEF BooksInv
<1> QED BY <1>3, <1>4

\* A release with the count C keeps finds the granted layout.
LEMMA DeallocStep ==
    ASSUME BooksInv, NEW p \in Addr, Holds(p), Dealloc(p, LayoutSize(kept[p])),
           kept' = [kept EXCEPT ![p] = NoBlock], broken = FALSE
    PROVE  BooksInv' /\ broken' = FALSE
<1>1. broken' = FALSE
  BY DEF Dealloc, BooksInv, BooksAgree, Holds
<1>2. AllocTypeOK' /\ BooksAgree'
  BY <1>1 DEF Dealloc, BooksInv, AllocTypeOK, BooksAgree, NoBlock
<1>3. AllHaveLayouts'
  BY <1>1 DEF BooksInv, AllocTypeOK, AllHaveLayouts
<1> QED BY <1>1, <1>2, <1>3 DEF BooksInv

\* A resized block is known under its new count; only a new count beyond every
\* layout breaks the contract.
LEMMA ReallocateStep ==
    ASSUME BooksInv, NEW p \in Addr, NEW n \in ReallocSizes, NEW r \in Addr \cup {Null},
           CReallocates(p, n, r)
    PROVE  BooksInv' /\ (Representable(n) => broken' = FALSE)
<1> USE AllocatorAssumption
<1>1. /\ Holds(p) /\ p # Null /\ n \in Nat /\ broken = FALSE
      /\ kept[p] \in Nat /\ HasLayout(kept[p]) /\ granted[p] = LayoutSize(kept[p])
  BY DEF CReallocates, Holds, BooksInv, AllocTypeOK, BooksAgree, AllHaveLayouts
<1>2. CASE n = 0
  BY <1>1, <1>2, DeallocStep DEF CReallocates, realloc
<1>3. CASE n # 0
  <2>1. Regrant(p, LayoutSize(kept[p]), n, r)
    BY <1>1, <1>3 DEF CReallocates, realloc
  <2>2. broken' \in BOOLEAN /\ (broken' = FALSE <=> Representable(n))
    BY <1>1, <1>3, <2>1 DEF Regrant
  <2>3. CASE r = Null
    <3>1. kept' = kept /\ granted' = granted
      BY <1>3, <2>1, <2>3 DEF CReallocates, Regrant
    <3> QED BY <1>1, <2>2, <3>1 DEF BooksInv, AllocTypeOK, BooksAgree, AllHaveLayouts
  <2>4. CASE r # Null
    <3>1. /\ r \in Addr
          /\ kept' = [q \in Addr |-> IF q = r THEN n ELSE IF q = p THEN NoBlock ELSE kept[q]]
          /\ granted' = [q \in Addr |-> IF q = r THEN n ELSE IF q = p THEN 0 ELSE granted[q]]
      BY <1>3, <2>1, <2>4 DEF CReallocates, Regrant
    <3>2. AllocTypeOK' /\ BooksAgree'
      BY <1>1, <1>3, <2>2, <3>1 DEF BooksInv, AllocTypeOK, BooksAgree, LayoutSize, NoBlock
    <3>3. AllHaveLayouts'
      BY <1>1, <1>3, <2>2, <3>1 DEF BooksInv, AllHaveLayouts, HasLayout, LayoutSize
    <3> QED BY <2>2, <3>2, <3>3 DEF BooksInv
  <2> QED BY <2>3, <2>4
<1> QED BY <1>2, <1>3

\* Every call of C's keeps the books.
LEMMA BooksStep == BooksInv /\ [AllocNext]_allocVars => BooksInv'
<1> SUFFICES ASSUME BooksInv, [AllocNext]_allocVars PROVE BooksInv'
  OBVIOUS
<1> USE AllocatorAssumption
<1>1. ASSUME UNCHANGED allocVars PROVE BooksInv'
  BY <1>1 DEF allocVars, BooksInv, AllocTypeOK, BooksAgree, AllHaveLayouts
<1>2. ASSUME NEW p \in Addr, CFrees(p) PROVE BooksInv'
  <2>1. broken = FALSE /\ HasLayout(kept[p])
    BY <1>2 DEF CFrees, Holds, BooksInv, AllocTypeOK, AllHaveLayouts
  <2> QED BY <1>2, <2>1, DeallocStep DEF CFrees, free
<1>3. ASSUME NEW p \in Addr, NEW n \in CorruptSizes, NEW m \in ReallocSizes,
             CPassesCorrupt(p, n, m)
      PROVE  BooksInv'
  BY <1>1, <1>3 DEF CPassesCorrupt, free, realloc, allocVars
<1>4. CASE CFreesNull
  BY <1>1, <1>4 DEF CFreesNull, free, allocVars
<1> QED BY <1>1, <1>2, <1>3, <1>4, AllocateStep, ReallocateStep DEF AllocNext

\* Before C's first request nothing is live and nothing is held.
LEMMA BooksInit == AllocInit => BooksInv /\ NoInvalidLayout
<1> SUFFICES ASSUME AllocInit PROVE BooksInv /\ NoInvalidLayout
  OBVIOUS
<1>1. broken = FALSE /\ broken \in BOOLEAN
  BY DEF AllocInit
<1>2. \A p \in Addr : kept[p] = NoBlock /\ granted[p] = 0
  BY DEF AllocInit
<1>3. kept \in [Addr -> Nat \cup {NoBlock}] /\ granted \in [Addr -> Nat]
  BY DEF AllocInit
<1> QED BY <1>1, <1>2, <1>3
        DEF BooksInv, AllocTypeOK, BooksAgree, AllHaveLayouts, NoInvalidLayout

\* A block is live exactly while C holds it and with the layout of C's count,
\* for every alignment, size limit and sequence of requests.
THEOREM BooksSafe == AllocSpec => []BooksAgree
<1>1. BooksInv => BooksAgree
  BY DEF BooksInv
<1> QED BY <1>1, BooksInit, BooksStep, PTL DEF AllocSpec

\* If C never asks realloc for more than a layout can hold, no callback hands
\* GlobalAlloc an invalid layout; alloc, free and the old count are safe as is.
THEOREM LayoutSafe ==
    (\A n \in ReallocSizes : Representable(n)) => (AllocSpec => []NoInvalidLayout)
<1> SUFFICES ASSUME \A n \in ReallocSizes : Representable(n)
             PROVE  AllocSpec => []NoInvalidLayout
  OBVIOUS
<1> DEFINE Inv == BooksInv /\ NoInvalidLayout
<1>1. AllocInit => Inv
  BY BooksInit
<1>2. Inv /\ [AllocNext]_allocVars => Inv'
  <2> SUFFICES ASSUME Inv, [AllocNext]_allocVars PROVE NoInvalidLayout'
    BY BooksStep
  <2> USE AllocatorAssumption
  <2>1. ASSUME NEW p \in Addr, CFrees(p) PROVE broken' = FALSE
    <3>1. broken = FALSE /\ HasLayout(kept[p])
      BY <2>1 DEF CFrees, Holds, BooksInv, AllocTypeOK, AllHaveLayouts
    <3> QED BY <2>1, <3>1, DeallocStep DEF CFrees, free
  <2>2. ASSUME NEW p \in Addr, NEW n \in CorruptSizes, NEW m \in ReallocSizes,
               CPassesCorrupt(p, n, m)
        PROVE  UNCHANGED broken
    BY <2>2 DEF CPassesCorrupt, free, realloc
  <2>3. CASE CFreesNull
    BY <2>3 DEF CFreesNull, free, NoInvalidLayout
  <2>4. CASE UNCHANGED allocVars
    BY <2>4 DEF allocVars, NoInvalidLayout
  <2> QED BY <2>1, <2>2, <2>3, <2>4, AllocateStep, ReallocateStep
          DEF AllocNext, NoInvalidLayout
<1>3. Inv => NoInvalidLayout
  OBVIOUS
<1> QED BY <1>1, <1>2, <1>3, PTL DEF AllocSpec

-----------------------------------------------------------------------------
(* Ownership, for any number of objects *)

\* Where each of the client's locals can be in use.
LocalsInUse ==
    /\ payload # NoObj => pc \in {"failed", "convert", "clear"}
    /\ exc # NoObj => pc = "rejected"
    /\ held # NoObj => pc = "clear" /\ payload = NoObj
    /\ kind \notin {"block", "exception"} => payload = NoObj

\* Where the connection and its parts can be.
Lifecycle ==
    /\ pc = "start" => parts = given /\ conn = "none"
    /\ pc = "init" => parts = given \cup {"alloc"} /\ conn = "none"
    /\ pc = "rejected" => parts = given \cup {"alloc"} /\ conn = IF blocking THEN "none" ELSE "open"
    /\ pc \in {"greeting", "idle", "failed", "convert", "clear"} =>
         parts = given \cup {"alloc"} /\ conn = "open"
    /\ pc = "greeting" => blocking = FALSE
    /\ pc = "drop" => conn = "closed"
    /\ pc = "gone" => parts = {} /\ conn # "open"

OwnInv == OwnTypeOK /\ SingleOwner /\ LocalsInUse /\ NoBadFree

\* Every step of the client and of the application's other threads keeps every
\* object with exactly one owner.
LEMMA OwnStep == OwnInv /\ [OwnNext]_ownVars => OwnInv'
<1> SUFFICES ASSUME OwnInv, [OwnNext]_ownVars PROVE OwnInv'
  OBVIOUS
<1> USE OwnershipAssumption
    DEF OwnInv, OwnTypeOK, SingleOwner, LocalsInUse, NoBadFree, Pc, Kind, Pointer
<1>1. CASE Refused
  BY <1>1 DEF Refused
<1>2. CASE BoxAllocator
  BY <1>2 DEF BoxAllocator
<1>3. CASE InitOk
  BY <1>3 DEF InitOk
<1>4. CASE InitFails
  BY <1>4 DEF InitFails
<1>5. CASE HandshakeRejected
  BY <1>5 DEF HandshakeRejected, Unallocated
<1>6. CASE take_handshake_exception
  BY <1>6 DEF take_handshake_exception, Free
<1>7. CASE HandshakeReady
  BY <1>7 DEF HandshakeReady
<1>8. CASE RecvFails
  BY <1>8 DEF RecvFails, MayAllocate, Unallocated
<1>9. CASE RecvOk
  BY <1>9 DEF RecvOk, MayAllocate, Unallocated
<1>10. CASE from_raw
  BY <1>10 DEF from_raw
<1>11. CASE packet_clear
  BY <1>11 DEF packet_clear, Free
<1>12. CASE DropEvent
  BY <1>12 DEF DropEvent, Free
<1>13. CASE drop
  BY <1>13 DEF drop
<1>14. CASE DropField
  BY <1>14 DEF DropField
<1>15. CASE UNCHANGED ownVars
  BY <1>15 DEF ownVars
<1> QED BY <1>1, <1>2, <1>3, <1>4, <1>5, <1>6, <1>7, <1>8, <1>9, <1>10, <1>11,
           <1>12, <1>13, <1>14, <1>15 DEF OwnNext

\* The connection and its parts follow the client's thread from step to step.
LEMMA LifecycleStep == OwnTypeOK /\ Lifecycle /\ [OwnNext]_ownVars => Lifecycle'
<1> SUFFICES ASSUME OwnTypeOK, Lifecycle, [OwnNext]_ownVars PROVE Lifecycle'
  OBVIOUS
<1> USE DEF OwnTypeOK, Lifecycle, Pc
<1>1. CASE Refused \/ BoxAllocator \/ InitOk \/ InitFails
  BY <1>1 DEF Refused, BoxAllocator, InitOk, InitFails
<1>2. CASE HandshakeRejected
  BY <1>2 DEF HandshakeRejected
<1>3. CASE take_handshake_exception
  BY <1>3 DEF take_handshake_exception
<1>4. CASE HandshakeReady \/ RecvFails \/ RecvOk \/ from_raw \/ packet_clear
  BY <1>4 DEF HandshakeReady, RecvFails, RecvOk, from_raw, packet_clear
<1>5. CASE DropEvent \/ UNCHANGED ownVars
  <2>1. UNCHANGED <<blocking, given, parts, conn, pc>>
    BY <1>5 DEF DropEvent, ownVars
  <2> QED BY ONLY Lifecycle, <2>1 DEF Lifecycle
<1>6. CASE drop
  BY <1>6 DEF drop
<1>7. CASE DropField
  BY <1>7 DEF DropField
<1> QED BY <1>1, <1>2, <1>3, <1>4, <1>5, <1>6, <1>7 DEF OwnNext

\* The ownership invariant holds in every reachable state.
LEMMA OwnSafe == OwnSpec => []OwnInv
<1>1. OwnInit => OwnInv
  BY OwnershipAssumption DEF OwnInit, OwnInv, OwnTypeOK, SingleOwner, LocalsInUse,
     NoBadFree, Pc, Kind, Pointer
<1> QED BY <1>1, OwnStep, PTL DEF OwnSpec

\* Every block and exception has exactly one owner at every step of init,
\* handshake and recv_event, error paths included, for any number of them.
THEOREM SingleOwnerSafe == OwnSpec => []SingleOwner
<1>1. OwnInv => SingleOwner
  BY DEF OwnInv
<1> QED BY <1>1, OwnSafe, PTL

\* Nothing is freed that is not allocated, whichever thread drops its event.
THEOREM NoBadFreeSafe == OwnSpec => []NoBadFree
<1>1. OwnInv => NoBadFree
  BY DEF OwnInv
<1> QED BY <1>1, OwnSafe, PTL

\* The allocator, codec and transport outlive the C connection that retains
\* their addresses, on every path out of a client.
THEOREM PartsSafe == OwnSpec => []PartsOutliveConnection
<1>1. OwnInit => Lifecycle
  BY DEF OwnInit, Lifecycle
<1>2. OwnInv => OwnTypeOK
  BY DEF OwnInv
<1>3. OwnTypeOK /\ Lifecycle => PartsOutliveConnection
  BY DEF OwnTypeOK, Pc, Lifecycle, PartsOutliveConnection
<1> QED BY <1>1, <1>2, <1>3, OwnSafe, LifecycleStep, PTL DEF OwnSpec

-----------------------------------------------------------------------------
(* ColumnView, for every usize and u64 and every number of rows, columns     *)
(* and bytes of a value                                                      *)

BodyOK == columns \in Seq({"absent", "good", "bad"})

\* A block that passed has no bad column, and neither has the column looked at.
CheckedOK ==
    checked = "ok" => /\ \A k \in 1..n_columns : columns[k] # "bad"
                      /\ Valid(col)

ColOK == col \in Published \cup {Nowhere}

\* Without a column there is neither a slice nor an index.
NowhereOK == col = Nowhere => view = NoView /\ index = None

ViewInv == /\ BodyOK /\ CheckedOK /\ ColOK /\ NowhereOK
       /\ ViewWithinSlab /\ EveryRowInView /\ CheckedIndexInRange

\* --- What C publishes

\* A fixed-width column.
LEMMA FixedFacts ==
    ASSUME NEW c \in Published, c.layout = "Fixed"
    PROVE  c.n \in Nat /\ c.width \in Nat /\ c.slab \in Slabs(c.n, c.width)
<1>1. c \in Fixed
  BY DEF Published, Strings, Nullables, Arrays, Tuples, LowCardinalities, Nothings, Column
<1>2. PICK n \in Rows, w \in 0..MaxWidth :
        \E s \in Slabs(n, w) : c = Column("Fixed", n, w, s, <<>>, 0, 0)
  BY <1>1 DEF Fixed
<1> QED BY <1>2, ViewAssumption DEF Column, Rows

\* A string column: its last offset is any u64, its slab is null when empty.
LEMMA StringFacts ==
    ASSUME NEW c \in Published, c.layout = "String"
    PROVE  /\ c.n \in Nat /\ c.bytes \in Nat
           /\ c.slab = IF c.bytes = 0 THEN None ELSE c.bytes
           /\ c.n # 0 => c.refs[c.n] \in Nat
<1>1. c \in Strings
  BY DEF Published, Fixed, Nullables, Arrays, Tuples, LowCardinalities, Nothings, Column
<1>a. PICK n \in Rows :
        \E b \in 0..UsizeMax, offs \in [1..n -> 0..U64Max], r \in {n, None} :
            c = Column("String", n, 0, IF b = 0 THEN None ELSE b, offs, b, r)
  BY <1>1 DEF Strings
<1>2. PICK b \in 0..UsizeMax, offs \in [1..n -> 0..U64Max], r \in {n, None} :
        c = Column("String", n, 0, IF b = 0 THEN None ELSE b, offs, b, r)
  BY <1>a
<1>3. c.n = n /\ c.bytes = b /\ c.refs = offs /\ c.slab = IF b = 0 THEN None ELSE b
  BY <1>2 DEF Column
<1>4. n \in Nat /\ b \in Nat
  BY ViewAssumption DEF Rows
<1>5. ASSUME n # 0 PROVE offs[n] \in Nat
  BY <1>4, <1>5, ViewAssumption
<1> QED BY <1>3, <1>4, <1>5

\* A nullable column: one byte of the null map per row.
LEMMA NullableFacts ==
    ASSUME NEW c \in Published, c.layout = "Nullable"
    PROVE  c.n \in 0..UsizeMax /\ c.slab \in Slabs(c.n, 1)
<1>1. c \in Nullables
  BY DEF Published, Fixed, Strings, Arrays, Tuples, LowCardinalities, Nothings, Column
<1>2. PICK n \in Rows : \E s \in Slabs(n, 1) : c = Column("Nullable", n, 1, s, <<>>, 0, n)
  BY <1>1 DEF Nullables
<1>3. n \in 0..UsizeMax
  BY ViewAssumption DEF Rows
<1> QED BY <1>2, <1>3 DEF Column

\* An array column: its last offset is the number of element rows.
LEMMA ArrayFacts ==
    ASSUME NEW c \in Published, c.layout = "Array"
    PROVE  /\ c.n \in Nat /\ c.slab = c.n
           /\ \A k \in 1..c.n : c.refs[k] \in Nat
           /\ c.n # 0 => c.rows = c.refs[c.n]
<1>1. c \in Arrays
  BY DEF Published, Fixed, Strings, Nullables, Tuples, LowCardinalities, Nothings, Column
<1>a. PICK n \in Rows :
        \E offs \in [1..n -> Rows] :
            c = Column("Array", n, 0, n, offs, 0, IF n = 0 THEN 0 ELSE offs[n])
  BY <1>1 DEF Arrays
<1>2. PICK offs \in [1..n -> Rows] :
        c = Column("Array", n, 0, n, offs, 0, IF n = 0 THEN 0 ELSE offs[n])
  BY <1>a
<1>3. c.n = n /\ c.slab = n /\ c.refs = offs /\ c.rows = IF n = 0 THEN 0 ELSE offs[n]
  BY <1>2 DEF Column
<1>4. n \in Nat /\ Rows \subseteq Nat
  BY ViewAssumption DEF Rows
<1> QED BY <1>3, <1>4

\* A LowCardinality column: its keys are slabs of any width.
LEMMA LowCardinalityFacts ==
    ASSUME NEW c \in Published, c.layout = "LowCardinality"
    PROVE  c.n \in Nat /\ c.width \in Int /\ c.slab \in Slabs(c.n, c.width)
<1>1. c \in LowCardinalities
  BY DEF Published, Fixed, Strings, Nullables, Arrays, Tuples, Nothings, Column
<1>a. PICK n \in Rows, w \in -1..MaxWidth :
        \E s \in Slabs(n, w), keys \in [1..n -> Rows], d \in Rows \cup {None} :
            c = Column("LowCardinality", n, w, s, keys, 0, d)
  BY <1>1 DEF LowCardinalities
<1>2. PICK s \in Slabs(n, w), keys \in [1..n -> Rows], d \in Rows \cup {None} :
        c = Column("LowCardinality", n, w, s, keys, 0, d)
  BY <1>a
<1>3. c.n = n /\ c.width = w /\ c.slab = s
  BY <1>2 DEF Column
<1>4. n \in Nat /\ w \in Int
  BY ViewAssumption DEF Rows
<1> QED BY <1>3, <1>4

\* A product that passes checked_mul is the whole length and fits the slab.
LEMMA BytesFit ==
    ASSUME NEW n \in Nat, NEW w \in Nat, NEW s \in Slabs(n, w)
    PROVE  LET v == Bytes(n, w, s)
           IN  v.len <= v.slab /\ (v # NoView => v.len = n * w)
<1>1. n * w \in Nat /\ UsizeMax \in Nat
  BY ViewAssumption
<1>2. CASE n * w > UsizeMax \/ s = None
  BY <1>1, <1>2 DEF Bytes, checked_mul, slice_or_none, NoView, None
<1>3. CASE ~(n * w > UsizeMax) /\ s # None
  <2>1. Bytes(n, w, s) = [len |-> n * w, slab |-> s]
    BY <1>1, <1>3 DEF Bytes, checked_mul, slice_or_none, None
  <2>2. s >= n * w
    BY <1>1, <1>3 DEF Slabs, Least
  <2> QED BY <1>1, <2>1, <2>2
<1> QED BY <1>2, <1>3

\* --- The getters

\* A getter keeps the invariant when its slice fits.
LEMMA ReturnsStep ==
    ASSUME ViewInv, col # Nowhere, NEW v, Returns(v), v.len <= v.slab,
           v # NoView /\ col.layout \in {"Fixed", "LowCardinality"} => v.len = col.n * col.width
    PROVE  ViewInv'
<1>1. view' = v /\ UNCHANGED <<columns, checked, col, index>>
  BY DEF Returns
<1>2. ViewWithinSlab' /\ EveryRowInView'
  BY <1>1 DEF ViewWithinSlab, EveryRowInView
<1>3. BodyOK' /\ CheckedOK' /\ ColOK' /\ NowhereOK' /\ CheckedIndexInRange'
  BY <1>1 DEF ViewInv, BodyOK, CheckedOK, ColOK, NowhereOK, CheckedIndexInRange, n_columns, Valid
<1> QED BY <1>2, <1>3 DEF ViewInv

\* Every getter returns a slice that fits: one case for each.
LEMMA GetterStep ==
    ASSUME ViewInv, fixed \/ string \/ null_map \/ array_offsets \/ low_cardinality
    PROVE  ViewInv'
<1>1. col.layout # "none" => col # Nowhere /\ col \in Published
  BY DEF ViewInv, ColOK, Nowhere, Column
<1>2. CASE fixed
  <2>1. col.layout = "Fixed" /\ Returns(Bytes(col.n, col.width, col.slab))
    BY <1>2 DEF fixed
  <2>2. col \in Published /\ col # Nowhere
    BY <1>1, <2>1
  <2>3. col.n \in Nat /\ col.width \in Nat /\ col.slab \in Slabs(col.n, col.width)
    BY <2>1, <2>2, FixedFacts
  <2> DEFINE v == Bytes(col.n, col.width, col.slab)
  <2>4. v.len <= v.slab /\ (v # NoView => v.len = col.n * col.width)
    BY <2>3, BytesFit
  <2> QED BY <2>1, <2>2, <2>4, ReturnsStep
<1>3. CASE string
  <2> DEFINE last == IF col.n = 0 THEN 0 ELSE col.refs[col.n]
             len == DataLen(last % (UsizeMax + 1))
             v == IF slice_or_none(col.rows, col.n) = NoView THEN NoView
                  ELSE IF len = 0 THEN [len |-> 0, slab |-> 0] ELSE slice_or_none(col.slab, len)
  <2>1. col.layout = "String" /\ Returns(v)
    BY <1>3 DEF string
  <2>2. col \in Published /\ col # Nowhere
    BY <1>1, <2>1
  <2>3. /\ col.n \in Nat /\ col.bytes \in Nat
        /\ col.slab = IF col.bytes = 0 THEN None ELSE col.bytes
        /\ col.n # 0 => col.refs[col.n] \in Nat
    BY <2>1, <2>2, StringFacts
  <2>4. last \in Nat
    BY <2>3
  <2>5. last % (UsizeMax + 1) \in Nat
    <3> HIDE DEF last
    <3> QED BY <2>4, ViewAssumption
  <2>6. len \in Nat /\ len <= col.bytes
    <3> DEFINE r == last % (UsizeMax + 1)
    <3>1. r \in Nat
      BY <2>5
    <3> HIDE DEF r
    <3>2. DataLen(r) \in Nat /\ DataLen(r) <= col.bytes
      BY <2>3, <3>1 DEF DataLen, Least
    <3> QED BY <3>2 DEF r
  <2> HIDE DEF len
  <2>7. v.len <= v.slab
    <3>1. NoView.len <= NoView.slab
      BY DEF NoView, None
    <3>2. len = 0 \/ slice_or_none(col.slab, len).len <= slice_or_none(col.slab, len).slab
      BY <2>3, <2>6, <3>1 DEF slice_or_none, None
    <3>3. CASE slice_or_none(col.rows, col.n) = NoView
      BY <3>1, <3>3
    <3>4. CASE slice_or_none(col.rows, col.n) # NoView /\ len = 0
      BY <3>4
    <3> QED BY <3>2, <3>3, <3>4
  <2> HIDE DEF v
  <2> QED BY <2>1, <2>2, <2>7, ReturnsStep
<1>4. CASE null_map
  <2> DEFINE v == slice_or_none(col.slab, col.n)
  <2>1. col.layout = "Nullable" /\ Returns(v)
    BY <1>4 DEF null_map
  <2>2. col \in Published /\ col # Nowhere
    BY <1>1, <2>1
  <2>3. col.n \in 0..UsizeMax /\ col.slab \in Slabs(col.n, 1) /\ UsizeMax \in Nat
    BY <2>1, <2>2, NullableFacts, ViewAssumption
  <2>4. v.len <= v.slab
    BY <2>3 DEF slice_or_none, NoView, None, Slabs, Least
  <2> HIDE DEF v
  <2> QED BY <2>1, <2>2, <2>4, ReturnsStep
<1>5. CASE array_offsets
  <2> DEFINE v == slice_or_none(col.slab, col.n)
  <2>1. col.layout = "Array" /\ Returns(v)
    BY <1>5 DEF array_offsets
  <2>2. col \in Published /\ col # Nowhere
    BY <1>1, <2>1
  <2>3. v.len <= v.slab
    BY <2>1, <2>2, ArrayFacts DEF slice_or_none, NoView, None
  <2> HIDE DEF v
  <2> QED BY <2>1, <2>2, <2>3, ReturnsStep
<1>6. CASE low_cardinality
  <2>1. col.layout = "LowCardinality"
    BY <1>6 DEF low_cardinality
  <2>2. col \in Published /\ col # Nowhere
    BY <1>1, <2>1
  <2>3. col.n \in Nat /\ col.width \in Int /\ col.slab \in Slabs(col.n, col.width)
    BY <2>1, <2>2, LowCardinalityFacts
  <2>4. CASE col.width > 0 /\ col.rows # None
    <3> DEFINE v == Bytes(col.n, col.width, col.slab)
    <3>1. Returns(v)
      BY <1>6, <2>4 DEF low_cardinality
    <3>2. v.len <= v.slab /\ (v # NoView => v.len = col.n * col.width)
      BY <2>3, <2>4, BytesFit
    <3> HIDE DEF v
    <3> QED BY <2>2, <3>1, <3>2, ReturnsStep
  <2>5. CASE ~(col.width > 0 /\ col.rows # None)
    <3>1. Returns(NoView)
      BY <1>6, <2>5 DEF low_cardinality
    <3>2. NoView.len <= NoView.slab
      BY DEF NoView, None
    <3> QED BY <2>2, <3>1, <3>2, ReturnsStep
  <2> QED BY <2>4, <2>5
<1> QED BY <1>2, <1>3, <1>4, <1>5, <1>6

\* --- The block, and the application

\* A column is entered, a child is entered or the column is left: the slice and
\* the index of the one before are gone.
LEMMA MoveStep ==
    ASSUME ViewInv, validate \/ (\E k \in 1..(MaxColumns + 1) : column(k)) \/ child \/ Leave
    PROVE  ViewInv'
<1>1. ASSUME view' = NoView, index' = None, BodyOK', CheckedOK', ColOK' PROVE ViewInv'
  BY <1>1 DEF ViewInv, NowhereOK, ViewWithinSlab, EveryRowInView, CheckedIndexInRange, NoView, None
<1>2. CASE validate
  <2>1. col = Nowhere /\ UNCHANGED <<columns, col, view, index>>
    BY <1>2 DEF validate
  <2>2. view' = NoView /\ index' = None /\ BodyOK' /\ ColOK'
    BY <2>1 DEF ViewInv, NowhereOK, BodyOK, ColOK
  <2>3. CheckedOK'
    <3>1. checked' = "ok" => \A k \in 1..n_columns : columns[k] # "bad"
      BY <1>2 DEF validate
    <3>2. Valid(Nowhere)
      BY DEF Valid, Nowhere, Column
    <3> QED BY <2>1, <3>1, <3>2 DEF CheckedOK, n_columns, Valid
  <2> QED BY <1>1, <2>2, <2>3
<1>3. ASSUME NEW k \in 1..(MaxColumns + 1), column(k) PROVE ViewInv'
  <2>1. col = Nowhere /\ UNCHANGED <<columns, checked, view, index>>
    BY <1>3 DEF column
  <2>2. view' = NoView /\ index' = None /\ BodyOK'
    BY <2>1 DEF ViewInv, NowhereOK, BodyOK
  <2>3. CASE k \in 1..n_columns /\ columns[k] # "absent"
    <3>1. PICK c \in Published : (columns[k] = "good" => Valid(c)) /\ col' = c
      BY <1>3, <2>3 DEF column
    <3>2. columns[k] \in {"absent", "good", "bad"}
      BY <2>3, LenProperties DEF ViewInv, BodyOK, n_columns
    <3>3. checked = "ok" => Valid(c)
      BY <2>3, <3>1, <3>2 DEF ViewInv, CheckedOK
    <3>4. CheckedOK' /\ ColOK'
      BY <2>1, <3>1, <3>3 DEF ViewInv, CheckedOK, ColOK, n_columns, Valid
    <3> QED BY <1>1, <2>2, <3>4
  <2>4. CASE ~(k \in 1..n_columns /\ columns[k] # "absent")
    <3>1. UNCHANGED col
      BY <1>3, <2>4 DEF column
    <3>2. CheckedOK' /\ ColOK'
      BY <2>1, <3>1 DEF ViewInv, CheckedOK, ColOK, n_columns, Valid
    <3> QED BY <1>1, <2>2, <3>2
  <2> QED BY <2>3, <2>4
<1>4. CASE child
  <2>1. PICK c \in Published : (checked = "ok" => Valid(c)) /\ col' = c
    BY <1>4 DEF child
  <2>2. view' = NoView /\ index' = None /\ UNCHANGED <<columns, checked>>
    BY <1>4 DEF child
  <2>3. BodyOK' /\ CheckedOK' /\ ColOK'
    BY <2>1, <2>2 DEF ViewInv, BodyOK, CheckedOK, ColOK, n_columns, Valid
  <2> QED BY <1>1, <2>2, <2>3
<1>5. CASE Leave
  <2>1. col' = Nowhere /\ view' = NoView /\ index' = None /\ UNCHANGED <<columns, checked>>
    BY <1>5 DEF Leave
  <2>2. Valid(Nowhere)
    BY DEF Valid, Nowhere, Column
  <2>3. BodyOK' /\ CheckedOK' /\ ColOK'
    BY <2>1, <2>2 DEF ViewInv, BodyOK, CheckedOK, ColOK, n_columns, Valid
  <2> QED BY <1>1, <2>1, <2>3
<1> QED BY <1>2, <1>3, <1>4, <1>5

\* An offset or a key of a validated column names a row of its child.  Validation
\* compares neighbouring offsets only.
LEMMA PickStep == ASSUME ViewInv, Pick PROVE ViewInv'
<1>1. view # NoView /\ UNCHANGED <<columns, checked, col, view>>
  BY DEF Pick
<1>2. col # Nowhere /\ col \in Published
  BY <1>1 DEF ViewInv, NowhereOK, ColOK
<1>3. BodyOK' /\ CheckedOK' /\ ColOK' /\ NowhereOK' /\ ViewWithinSlab' /\ EveryRowInView'
  BY <1>1, <1>2 DEF ViewInv, BodyOK, CheckedOK, ColOK, NowhereOK, ViewWithinSlab, EveryRowInView,
     n_columns, Valid
<1>4. CheckedIndexInRange'
  <2> SUFFICES ASSUME checked = "ok" PROVE index' < col.rows
    BY <1>1 DEF CheckedIndexInRange
  <2>1. Valid(col)
    BY DEF ViewInv, CheckedOK
  <2>2. PICK k \in 1..col.n :
          \/ /\ col.layout = "Array"
             /\ index' \in (IF k = 1 THEN 0 ELSE col.refs[k - 1])..(col.refs[k] - 1)
          \/ col.layout = "LowCardinality" /\ index' = col.refs[k]
    BY DEF Pick
  <2>3. CASE col.layout = "LowCardinality"
    BY <2>1, <2>2, <2>3 DEF Valid
  <2>4. CASE col.layout = "Array"
    <3>1. /\ col.n \in Nat /\ \A j \in 1..col.n : col.refs[j] \in Int
          /\ col.n # 0 => col.rows = col.refs[col.n]
      BY <1>2, <2>4, ArrayFacts
    <3>2. \A j \in 2..col.n : col.refs[j - 1] <= col.refs[j]
      BY <2>1, <2>4 DEF Valid
    <3>3. col.refs[k] <= col.refs[col.n]
      BY <3>1, <3>2, LastOfRun
    <3>4. col.rows = col.refs[col.n] /\ col.refs[k] \in Int /\ col.refs[col.n] \in Int
      BY <2>2, <3>1
    <3>5. index' \in (IF k = 1 THEN 0 ELSE col.refs[k - 1])..(col.refs[k] - 1)
      BY <2>2, <2>4
    <3>6. (IF k = 1 THEN 0 ELSE col.refs[k - 1]) \in Int
      BY <3>1
    <3>7. index' \in Int /\ index' <= col.refs[k] - 1
      BY <3>4, <3>5, <3>6
    <3> QED BY <3>3, <3>4, <3>7
  <2> QED BY <2>2, <2>3, <2>4
<1> QED BY <1>3, <1>4 DEF ViewInv

\* --- The theorems

\* The invariant is inductive.
LEMMA ViewInvariance == ViewSpec => []ViewInv
<1>1. ViewInit => ViewInv
  <2> SUFFICES ASSUME ViewInit PROVE ViewInv
    OBVIOUS
  <2>1. PICK n \in 0..MaxColumns : columns \in [1..n -> {"absent", "good", "bad"}]
    BY DEF ViewInit
  <2>2. BodyOK
    BY <2>1, ViewAssumption, SeqDef DEF BodyOK
  <2> QED BY <2>2 DEF ViewInit, ViewInv, CheckedOK, ColOK, NowhereOK, ViewWithinSlab,
        EveryRowInView, CheckedIndexInRange, NoView, None
<1>2. ViewInv /\ [ViewNext]_viewVars => ViewInv'
  <2> SUFFICES ASSUME ViewInv, [ViewNext]_viewVars PROVE ViewInv'
    OBVIOUS
  <2>1. CASE UNCHANGED viewVars
    BY <2>1 DEF viewVars, ViewInv, BodyOK, CheckedOK, ColOK, NowhereOK, ViewWithinSlab,
       EveryRowInView, CheckedIndexInRange, n_columns, Valid
  <2> QED BY <2>1, GetterStep, MoveStep, PickStep DEF ViewNext
<1> QED BY <1>1, <1>2, PTL DEF ViewSpec

\* No slice a getter of Column returns is longer than the slab C published,
\* whatever row counts, widths and offsets came from the wire.
THEOREM SlicesFit == ViewSpec => []ViewWithinSlab
<1>1. ViewInv => ViewWithinSlab
  BY DEF ViewInv
<1> QED BY <1>1, ViewInvariance, PTL

\* A fixed-width slice has the bytes of every row: a product that overflows a
\* usize gives no slice.
THEOREM SlicesWhole == ViewSpec => []EveryRowInView
<1>1. ViewInv => EveryRowInView
  BY DEF ViewInv
<1> QED BY <1>1, ViewInvariance, PTL

\* After Block::validate returned Ok, every offset and key of every column leads
\* to a row that is there.
THEOREM ValidatedIndices == ViewSpec => []CheckedIndexInRange
<1>1. ViewInv => CheckedIndexInRange
  BY DEF ViewInv
<1> QED BY <1>1, ViewInvariance, PTL
=============================================================================
