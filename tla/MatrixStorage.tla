---------------------------- MODULE MatrixStorage ----------------------------
(***************************************************************************)
(* Who frees the arrays of a sparse matrix (include/arrayview.hpp,         *)
(* include/srmatrixdefs.hpp, src/rawsrmatrixutils.cpp, the constructors in *)
(* src/blockmatrices.ipp, src/scmatrix.cpp).  Matrices made of ArrayViews  *)
(* know which arrays they own; raw ones do not, and whoever has one calls  *)
(* the function that destroys its kind.                                    *)
(*                                                                         *)
(* bcolind, vals and diagind are always handled alike: they are one array, *)
(* "content".  The pointers to the ends of the rows are, as a rule, those  *)
(* to their starts from the second one on, in the same memory block.       *)
(*                                                                         *)
(* The caller keeps to what the headers ask of him: no matrix is used when *)
(* an array of it was freed by its owner, a raw one is destroyed once, and *)
(* only full ones with at least one row are copied by copyRawBSRMatrix.    *)
(*                                                                         *)
(* The lengths that ArrayViews record are left out: only assertions read   *)
(* them.                                                                   *)
(***************************************************************************)
EXTENDS Integers, FiniteSets

CONSTANTS
  Objects,              \* variables that can hold a matrix
  NumBlocks,            \* bound on the memory blocks
  RowNumbers,           \* numbers of block rows
  RawBlockSizes         \* of matrices that are made from raw ones

ASSUME SizesAssumption == NumBlocks \in Nat /\ RowNumbers \subseteq Nat /\ RawBlockSizes \subseteq Nat

Names == {"browptr", "content", "browendptr"}
MemoryBlocks == 1 .. NumBlocks

VARIABLES
  heap,                 \* the blocks that are allocated
  obj                   \* object |-> matrix

storageVars == <<heap, obj>>

(***************************************************************************)
(* An ArrayView: a block (0: nullptr) and whether it owns it.              *)
(***************************************************************************)
Null == [block |-> 0, owner |-> FALSE]
Own(b) == [block |-> b, owner |-> TRUE]
Wrap(b) == [block |-> b, owner |-> FALSE]
Wrapped(arr) == [a \in Names |-> Wrap(arr[a].block)]

(***************************************************************************)
(* A matrix: its kind, its rows, whether it stores nothing but its entries *)
(* (nnzb = nbstored), its arrays.  "views" consists of ArrayViews; raw     *)
(* ones are an "allocated" matrix, a "triangular" view, or a "raw view"    *)
(* that nobody destroys; their arrays have no owner flag.                  *)
(* "counted": nnzb and nbstored are right.                                 *)
(***************************************************************************)
MatrixWith(kind, n, full, browptr, content, browendptr) ==
  [kind |-> kind, n |-> n, full |-> full, counted |-> TRUE,
   arr |-> [browptr |-> browptr, content |-> content, browendptr |-> browendptr]]
Nothing == MatrixWith("none", 0, TRUE, Null, Null, Null)

\* The end pointers inside of the block of the start pointers.
Behind(n, b) == IF n > 0 THEN Wrap(b) ELSE Null

BlocksOf(m) == {m.arr[a].block : a \in Names} \ {0}

\* What the destructor, or the function that destroys the kind, frees.
FreedBy(m) ==
  (CASE m.kind = "views" -> {m.arr[a].block : a \in {c \in Names : m.arr[c].owner}}
     [] m.kind = "allocated" -> {m.arr.browptr.block, m.arr.content.block}
                                \cup (IF m.full THEN {} ELSE {m.arr.browendptr.block})
     [] m.kind = "triangular" -> {m.arr.browptr.block, m.arr.browendptr.block}
     [] OTHER -> {}) \ {0}

\* MemoryBlocks that can be allocated: the least ones that are free.
FreeBlock(k) ==
  LET free == MemoryBlocks \ heap
  IN {b \in free : Cardinality({c \in free : c <= b}) = k}
Enough == Cardinality(MemoryBlocks \ heap) >= 2

Unused(o) == obj[o].kind = "none"
Usable(o) ==
  /\ obj[o].kind # "none"
  /\ obj[o].n > 0 => obj[o].arr.browptr # Null
  /\ BlocksOf(obj[o]) \subseteq heap
IsView(o) == obj[o].kind = "views"

StorageInit == heap = {} /\ obj = [o \in Objects |-> Nothing]

\* o becomes m, for which the blocks in allocated are new.
Make(o, m, allocated) ==
  /\ obj' = [obj EXCEPT ![o] = m]
  /\ heap' = heap \cup allocated
-----------------------------------------------------------------------------
\* A library's arrays, or a RawBSRMatrix filled by hand.
AllocateRaw(o, n) ==
  /\ Unused(o) /\ Enough
  /\ \E p \in FreeBlock(1), c \in FreeBlock(2) :
       Make(o, MatrixWith("allocated", n, TRUE, Wrap(p), Wrap(c), Behind(n, p)), {p, c})

DefaultConstruct(o) ==
  Unused(o) /\ Make(o, [Nothing EXCEPT !.kind = "views"], {})

\* An array that is resized is freed if it is owned.
ResizedTo(o, n, p, c, ends) ==
  /\ obj' = [obj EXCEPT ![o] = MatrixWith("views", n, TRUE, Own(p), Own(c), ends)]
  /\ heap' = (heap \ {obj[o].arr[a].block : a \in {d \in {"browptr", "content"} :
                                                     obj[o].arr[d].owner}}) \cup {p, c}

\* Faulty variant: the end pointers are wrapped when they are first set only.
SetStructureOnce(o, n) ==
  /\ IsView(o) /\ obj[o].full /\ Enough
  /\ \E p \in FreeBlock(1), c \in FreeBlock(2) :
       ResizedTo(o, n, p, c, IF obj[o].arr.browendptr = Null THEN Behind(n, p)
                             ELSE obj[o].arr.browendptr)

\* setStructure; the end pointers stay what they are if there are no rows.
SetStructureArrays(o, n) ==
  /\ IsView(o) /\ obj[o].full /\ Enough
  /\ \E p \in FreeBlock(1), c \in FreeBlock(2) :
       ResizedTo(o, n, p, c, IF n > 0 THEN Behind(n, p) ELSE obj[o].arr.browendptr)

(***************************************************************************)
(* The constructors from a structure.  That of block matrices never sets   *)
(* nbrows before it uses it: the matrix has no rows, whatever was asked.   *)
(***************************************************************************)
ConstructCSR(o, n) ==
  /\ Unused(o) /\ Enough
  /\ \E p \in FreeBlock(1), c \in FreeBlock(2) :
       Make(o, MatrixWith("views", n, TRUE, Own(p), Own(c), Behind(n, p)), {p, c})

ConstructBlock(o) ==
  /\ Unused(o) /\ Enough
  /\ \E p \in FreeBlock(1), c \in FreeBlock(2) :
       Make(o, MatrixWith("views", 0, TRUE, Own(p), Own(c), Null), {p, c})

(***************************************************************************)
(* The copy constructors read the row pointers, if there are no rows too.  *)
(* That of CSR matrices allocates as many entries as the length recorded   *)
(* says: what it does without "counted" has no bounds.                     *)
(***************************************************************************)
DeepCopy(o, p) ==
  /\ Unused(o) /\ IsView(p) /\ Usable(p) /\ obj[p].full /\ obj[p].counted /\ Enough
  /\ obj[p].arr.browptr # Null
  /\ \E b \in FreeBlock(1), c \in FreeBlock(2) :
       Make(o, MatrixWith("views", obj[p].n, TRUE, Own(b), Own(c), Behind(obj[p].n, b)), {b, c})

\* The constructor of SRMatrixStorage that wraps five arrays, and share_with_const.
WrapArrays(o, p) ==
  /\ Unused(o) /\ Usable(p)
  /\ Make(o, [obj[p] EXCEPT !.kind = "views", !.arr = Wrapped(@)], {})

(***************************************************************************)
(* The constructors that wrap four arrays of a full matrix.  That of CSR   *)
(* matrices takes for nnzb what is one past the end of the row pointers.   *)
(***************************************************************************)
WrapFour(o, p, ends, counted) ==
  /\ Unused(o) /\ Usable(p) /\ obj[p].full /\ obj[p].arr.browptr # Null
  /\ Make(o, [MatrixWith("views", obj[p].n, TRUE, Wrap(obj[p].arr.browptr.block),
                         Wrap(obj[p].arr.content.block), ends) EXCEPT !.counted = counted], {})

WrapFourBlock(o, p) == WrapFour(o, p, Behind(obj[p].n, obj[p].arr.browptr.block), TRUE)
WrapFourCSR(o, p) ==
  \E counted \in BOOLEAN : WrapFour(o, p, Wrap(obj[p].arr.browptr.block), counted)

\* createRawView
CreateRawView(o, p) ==
  /\ Unused(o) /\ IsView(p) /\ Usable(p)
  /\ Make(o, [obj[p] EXCEPT !.kind = "raw view", !.arr = Wrapped(@)], {})

\* Faulty variant: the argument goes on owning its arrays.
MoveLeaving(o, p) ==
  /\ Unused(o) /\ IsView(p)
  /\ Make(o, obj[p], {})

\* The move constructors: the argument has no arrays then.
Move(o, p) ==
  /\ Unused(o) /\ IsView(p)
  /\ obj' = [obj EXCEPT ![o] = obj[p], ![p].arr = [a \in Names |-> Null]]
  /\ UNCHANGED heap

\* Nor any rows, after move_to_const.
MoveToConst(o, p) ==
  /\ Unused(o) /\ IsView(p)
  /\ obj' = [obj EXCEPT ![o] = obj[p], ![p] = [Nothing EXCEPT !.kind = "views"]]
  /\ UNCHANGED heap

(***************************************************************************)
(* BSRMatrix(RawBSRMatrix&) nulls its argument.  The one of block matrices *)
(* takes control of the arrays; the one of CSR matrices wraps them, and    *)
(* nobody is left to free them.                                            *)
(***************************************************************************)
Nulling(o, p, m) ==
  /\ Unused(o) /\ obj[p].kind = "allocated" /\ Usable(p)
  /\ obj' = [obj EXCEPT ![o] = m, ![p] = Nothing]
  /\ UNCHANGED heap

FromRawBlock(o, p) ==
  LET arr == obj[p].arr
  IN (\E bs \in RawBlockSizes : bs > 1) /\ Nulling(o, p,
       MatrixWith("views", obj[p].n, obj[p].full, Own(arr.browptr.block),
                  Own(arr.content.block), Behind(obj[p].n, arr.browptr.block)))

FromRawCSR(o, p) ==
  LET arr == obj[p].arr
  IN 1 \in RawBlockSizes /\ Nulling(o, p,
       MatrixWith("views", obj[p].n, obj[p].full, Wrap(arr.browptr.block),
                  Wrap(arr.content.block), Wrap(arr.browptr.block)))

(***************************************************************************)
(* Triangular views have start and end pointers of their own, by owning    *)
(* ArrayViews or, in a raw one, for its destruction function.              *)
(***************************************************************************)
TriangularView(o, p) ==
  /\ Unused(o) /\ Usable(p) /\ obj[p].full /\ obj[p].n > 0 /\ Enough
  /\ \E s \in FreeBlock(1), e \in FreeBlock(2) :
       LET c == Wrap(obj[p].arr.content.block)
           m == IF IsView(p) THEN MatrixWith("views", obj[p].n, FALSE, Own(s), c, Own(e))
                ELSE MatrixWith("triangular", obj[p].n, FALSE, Wrap(s), c, Wrap(e))
       IN Make(o, [m EXCEPT !.counted = obj[p].counted], {s, e})

\* copyRawBSRMatrix into o, which holds nothing; it copies nbstored entries.
CopyRaw(o, p) ==
  /\ Unused(o) /\ obj[p].kind \in {"allocated", "raw view"} /\ Usable(p)
  /\ obj[p].full /\ obj[p].counted /\ obj[p].n > 0 /\ Enough
  /\ \E s \in FreeBlock(1), c \in FreeBlock(2) :
       Make(o, MatrixWith("allocated", obj[p].n, TRUE, Wrap(s), Wrap(c), Behind(obj[p].n, s)),
            {s, c})

(***************************************************************************)
(* compute of a preconditioner that keeps a copy: ReorderedAsyncILU0, or   *)
(* CSC_BGS with its block columns (browptr and content stand for bcolptr   *)
(* and the others).  The copy from before, if there is one, is destroyed.  *)
(***************************************************************************)
CopyOver(o, p, freed) ==
  /\ o # p
  /\ obj[o].kind = "allocated" /\ Usable(o) /\ obj[p].kind = "raw view" /\ Usable(p)
  /\ obj[p].full /\ obj[p].counted /\ obj[p].n > 0
  /\ BlocksOf(obj[p]) \cap FreedBy(obj[o]) = {}
  /\ Enough
  /\ \E s \in FreeBlock(1), c \in FreeBlock(2) :
       /\ obj' = [obj EXCEPT ![o] = MatrixWith("allocated", obj[p].n, TRUE, Wrap(s), Wrap(c),
                                           Behind(obj[p].n, s))]
       /\ heap' = (heap \ freed) \cup {s, c}

\* Faulty variant: the copy from before is overwritten.
RecomputeOver(o, p) == CopyOver(o, p, {})
Recompute(o, p) == CopyOver(o, p, FreedBy(obj[o]))

\* The end of the object; the arrays that it does not own stay.
Destroy(o) ==
  /\ ~Unused(o)
  /\ heap' = heap \ FreedBy(obj[o])
  /\ obj' = [obj EXCEPT ![o] = Nothing]

StorageNext ==
  \E o \in Objects :
    \/ \E n \in RowNumbers : \/ AllocateRaw(o, n) \/ SetStructureArrays(o, n)
                            \/ ConstructCSR(o, n)
    \/ DefaultConstruct(o) \/ ConstructBlock(o)
    \/ \E p \in Objects :
         \/ DeepCopy(o, p) \/ WrapArrays(o, p) \/ CreateRawView(o, p)
         \/ WrapFourBlock(o, p) \/ WrapFourCSR(o, p)
         \/ Move(o, p) \/ MoveToConst(o, p)
         \/ FromRawBlock(o, p) \/ FromRawCSR(o, p)
         \/ TriangularView(o, p) \/ CopyRaw(o, p) \/ Recompute(o, p)
    \/ Destroy(o)

StorageSpec == StorageInit /\ [][StorageNext]_storageVars
-----------------------------------------------------------------------------
(***************************************************************************)
(* No two objects free the same block, and none frees one that is not      *)
(* allocated, whatever was copied, wrapped, moved, viewed, taken control   *)
(* of or recomputed.                                                       *)
(***************************************************************************)
FreedAtMostOnce ==
  /\ \A o \in Objects : FreedBy(obj[o]) \subseteq heap
  /\ \A o, p \in Objects : o # p => FreedBy(obj[o]) \cap FreedBy(obj[p]) = {}

(***************************************************************************)
(* No step leaves a block to nobody, neither by overwriting a matrix nor   *)
(* by a view or a move that forgets who owned it, except that a CSR matrix *)
(* is made of a raw one (src/blockmatrices.ipp:516-520).                   *)
(***************************************************************************)
Leaked == heap \ UNION {FreedBy(obj[o]) : o \in Objects}
NothingElseLeaks ==
  [][Leaked' \subseteq Leaked \/ \E o, p \in Objects : FromRawCSR(o, p)]_storageVars

(***************************************************************************)
(* That one does, though include/blockmatrices.hpp:339 says of it          *)
(* "Transfers the arrays of a raw CSR matrix to itself and nulls the raw   *)
(* matrix": every block would be freed by exactly one object.              *)
(***************************************************************************)
FreedOnce == FreedAtMostOnce /\ Leaked = {}

(***************************************************************************)
(* A matrix that owns its row pointers has row ends that exist, in the     *)
(* same block or one of its own, however often its structure was set.      *)
(***************************************************************************)
EndsFollow ==
  \A o \in Objects :
    LET m == obj[o]
    IN m.n > 0 /\ m.arr.browptr.block \in FreedBy(m) =>
         m.arr.browendptr.block \in {m.arr.browptr.block} \cup FreedBy(m)
=============================================================================
