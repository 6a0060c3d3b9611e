------------------------------ MODULE Allocator ------------------------------
(***************************************************************************)
(* The allocator callbacks of src/src/alloc.rs.  The C library asks for    *)
(* memory through alloc, realloc and free; Allocator::global serves it     *)
(* from a Rust GlobalAlloc, whose contract is about layouts: a block is    *)
(* released with the layout it was granted, and a size rounded up to the   *)
(* alignment must not exceed isize::MAX.                                   *)
(*                                                                         *)
(* C keeps a byte count with each of its pointers and passes it back; the  *)
(* callbacks turn counts into layouts.  Allocator::stdlib is C's own and   *)
(* is not modelled.                                                        *)
(***************************************************************************)
EXTENDS Integers

CONSTANTS
    Addr,           \* addresses
    Null,           \* the null pointer
    ALIGN,          \* alignment of every block
    IsizeMax,       \* isize::MAX
    AllocSizes,     \* counts C asks alloc for
    ReallocSizes,   \* counts C asks realloc for
    CorruptSizes    \* counts C may pass in place of the one it keeps

\* The size of the layout for a count, and the sizes from_size_align accepts.
LayoutSize(bytes) == IF bytes = 0 THEN 1 ELSE bytes
Representable(size) == size <= IsizeMax - (ALIGN - 1)

\* layout(bytes) is Some.
HasLayout(bytes) == Representable(LayoutSize(bytes))

ASSUME AllocatorAssumption ==
    /\ Null \notin Addr
    /\ ALIGN \in Nat \ {0} /\ IsizeMax \in Nat
    /\ AllocSizes \subseteq Nat /\ ReallocSizes \subseteq Nat /\ CorruptSizes \subseteq Nat
    /\ \A n \in CorruptSizes : ~HasLayout(n)

VARIABLES
    kept,       \* per address: the count C keeps for its block, or NoBlock
    granted,    \* per address: the size of the layout of the live block, or 0
    broken      \* a call violated GlobalAlloc's contract

allocVars == <<kept, granted, broken>>

NoBlock == -1

\* The type of every variable.
AllocTypeOK ==
    /\ kept \in [Addr -> Nat \cup {NoBlock}]
    /\ granted \in [Addr -> Nat]
    /\ broken \in BOOLEAN

AllocInit ==
    /\ kept = [p \in Addr |-> NoBlock]
    /\ granted = [p \in Addr |-> 0]
    /\ broken = FALSE

-----------------------------------------------------------------------------
(* GlobalAlloc.  A request may always fail. *)

Grant(size, ret) ==
    /\ UNCHANGED broken
    /\ \/ ret = Null /\ UNCHANGED granted
       \/ /\ ret \in Addr /\ granted[ret] = 0
          /\ granted' = [granted EXCEPT ![ret] = size]

Dealloc(p, size) ==
    /\ broken' = (granted[p] # size)
    /\ granted' = [granted EXCEPT ![p] = 0]

\* The block stays at p or moves; a failed request leaves it as it was.
Regrant(p, size, new, ret) ==
    /\ broken' = (granted[p] # size \/ new = 0 \/ ~Representable(new))
    /\ \/ ret = Null /\ UNCHANGED granted
       \/ /\ ret \in Addr /\ (ret = p \/ granted[ret] = 0)
          /\ granted' = [q \in Addr |-> IF q = ret THEN new
                                        ELSE IF q = p THEN 0 ELSE granted[q]]

-----------------------------------------------------------------------------
(* The callbacks; `ret` is the pointer returned *)

alloc(bytes, ret) ==
    IF HasLayout(bytes) THEN Grant(LayoutSize(bytes), ret)
    ELSE ret = Null /\ UNCHANGED <<granted, broken>>

\* Mutant: a new count of zero is passed on like any other.
realloc_unrounded(p, old, new, ret) ==
    IF p = Null THEN alloc(new, ret)
    ELSE IF ~HasLayout(old) THEN ret = Null /\ UNCHANGED <<granted, broken>>
    ELSE Regrant(p, LayoutSize(old), new, ret)

realloc(p, old, new, ret) ==
    IF p = Null THEN alloc(new, ret)
    ELSE IF ~HasLayout(old) THEN ret = Null /\ UNCHANGED <<granted, broken>>
    ELSE IF new = 0 THEN ret = Null /\ Dealloc(p, LayoutSize(old))
    ELSE Regrant(p, LayoutSize(old), new, ret)

\* Mutant: a count beyond every layout releases the block all the same.
free_unchecked(p, bytes) ==
    IF p = Null THEN UNCHANGED <<granted, broken>>
    ELSE Dealloc(p, granted[p])

free(p, bytes) ==
    IF p = Null \/ ~HasLayout(bytes) THEN UNCHANGED <<granted, broken>>
    ELSE Dealloc(p, LayoutSize(bytes))

-----------------------------------------------------------------------------
(* How C uses them *)

Holds(p) == p \in Addr /\ kept[p] # NoBlock

Keep(ret, bytes) ==
    kept' = IF ret = Null THEN kept ELSE [kept EXCEPT ![ret] = bytes]

CAllocates(bytes, ret) ==
    /\ ~broken
    /\ alloc(bytes, ret) \/ realloc(Null, 0, bytes, ret)
    /\ Keep(ret, bytes)

\* Null means "released" for a new count of zero, else "still at p".
CReallocates(p, bytes, ret) ==
    /\ ~broken /\ Holds(p)
    /\ realloc(p, kept[p], bytes, ret)
    /\ kept' = IF bytes = 0 THEN [kept EXCEPT ![p] = NoBlock]
               ELSE IF ret = Null THEN kept
               ELSE [q \in Addr |-> IF q = ret THEN bytes
                                    ELSE IF q = p THEN NoBlock ELSE kept[q]]

CFrees(p) ==
    /\ ~broken /\ Holds(p)
    /\ free(p, kept[p])
    /\ kept' = [kept EXCEPT ![p] = NoBlock]

\* A corrupt count reaches free or realloc; C keeps its block.
CPassesCorrupt(p, bytes, new) ==
    /\ ~broken /\ Holds(p)
    /\ free(p, bytes) \/ realloc(p, bytes, new, Null)
    /\ UNCHANGED kept

CFreesNull == ~broken /\ free(Null, 0) /\ UNCHANGED kept

AllocNext ==
    \/ \E n \in AllocSizes, r \in Addr \cup {Null} : CAllocates(n, r)
    \/ \E p \in Addr, n \in ReallocSizes, r \in Addr \cup {Null} : CReallocates(p, n, r)
    \/ \E p \in Addr : CFrees(p)
    \/ \E p \in Addr, n \in CorruptSizes, m \in ReallocSizes : CPassesCorrupt(p, n, m)
    \/ CFreesNull

AllocSpec == AllocInit /\ [][AllocNext]_allocVars

-----------------------------------------------------------------------------
(* Properties *)

\* C's books and the allocator's agree: a block is live exactly while C holds
\* it, with the layout that C's count stands for.  So none is leaked, released
\* twice or released with a foreign layout, whatever was resized, rounded up,
\* refused or named by a corrupt count in between.
BooksAgree ==
    \A p \in Addr : granted[p] = IF kept[p] = NoBlock THEN 0 ELSE LayoutSize(kept[p])

\* No callback ever hands GlobalAlloc an invalid layout: "A corrupt length field
\* must reach the OOM path, not an invalid layout" (src/src/alloc.rs:286).
NoInvalidLayout == ~broken
=============================================================================
