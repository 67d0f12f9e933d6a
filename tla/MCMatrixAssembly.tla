--------------------------- MODULE MCMatrixAssembly --------------------------
(***************************************************************************)
(* Instances of MatrixAssembly with three block rows: of scalars, and of   *)
(* 2 x 2 blocks.  Scalars are taken modulo 5.                              *)
(***************************************************************************)
EXTENDS MatrixAssembly

CONSTANTS t1, t2

MCMod == 5

\* The columns of the rows, in the order of the arrays.
Arrays(bs, rows) ==
  [nbrows |-> 3, bs |-> bs,
   browptr |-> Scan(3, [i \in 0 .. 2 |-> Len(rows[i + 1])]),
   bcolind |-> Positioned(rows[1] \o rows[2] \o rows[3])]

\* A band and a full lower part; of blocks, the band and unsorted rows.
MCStructures ==
  {Arrays(1, <<<<0, 1>>, <<0, 1, 2>>, <<1, 2>>>>), Arrays(1, <<<<0>>, <<0, 1>>, <<0, 1, 2>>>>),
   Arrays(2, <<<<0, 1>>, <<0, 1, 2>>, <<1, 2>>>>), Arrays(2, <<<<2, 0>>, <<1>>, <<1, 2, 0>>>>)}

(***************************************************************************)
(* Files in no order.  Of the second, as blocks, the first block row has   *)
(* the columns 0, 2, 1 in this order; the third has a row without entries. *)
(***************************************************************************)
MCFiles ==
  {[n |-> 3, entries |-> <<<<3, 3, 1>>, <<1, 2, 2>>, <<2, 3, 3>>, <<1, 1, 4>>, <<2, 2, 1>>>>],
   [n |-> 6, entries |-> <<<<2, 3, 1>>, <<5, 5, 2>>, <<1, 6, 3>>, <<3, 4, 4>>, <<6, 1, 1>>,
                           <<1, 1, 2>>, <<4, 3, 3>>, <<6, 6, 4>>>>],
   [n |-> 3, entries |-> <<<<1, 1, 1>>, <<3, 3, 2>>>>]}

MCBlocks ==
  {[i |-> 0, j |-> 0, b |-> 2, buf |-> <<1, 2, 3, 4>>],
   [i |-> 1, j |-> 1, b |-> 2, buf |-> <<2, 4, 1, 3>>],
   [i |-> 2, j |-> 0, b |-> 2, buf |-> <<3, 0, 1, 2>>],
   [i |-> 2, j |-> 2, b |-> 2, buf |-> <<1, 1, 4, 2>>],
   [i |-> 1, j |-> 0, b |-> 1, buf |-> <<3>>]}

Perm(a, b, c) == Positioned(<<a, b, c>>)

MCOrderings ==
  {SetOrdering(Perm(1, 2, 0), Perm(2, 0, 1), Perm(2, 3, 4), None),
   SetOrdering(None, Perm(1, 2, 0), Perm(3, 1, 2), Perm(2, 4, 3)),
   SetOrdering(Perm(1, 2, 0), None, None, None)}
=============================================================================
