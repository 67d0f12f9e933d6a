---------------------------- MODULE CooConversion ----------------------------
(***************************************************************************)
(* COOMatrix (src/coomatrix.cpp): a Matrix Market file is read into        *)
(* triplets sorted by rows, and these are converted to CSR or, with the    *)
(* blocks of a row in the order in which they are met, to BSR.  A file f   *)
(* has f.n rows and columns and f.entries, triplets <<row, column, value>> *)
(* with 1-based indices in any order.                                      *)
(***************************************************************************)
EXTENDS MatrixReordering

Indexed(f) ==
  [e \in 1 .. Len(f.entries) |->
     [row |-> f.entries[e][1] - 1, col |-> f.entries[e][2] - 1, val |-> f.entries[e][3]]]

\* The triplets s by rows, those of a row by columns, as the two sorts of
\* readMatrixMarket leave them.
Before(s, p, q) ==
  \/ s[p].row < s[q].row
  \/ s[p].row = s[q].row /\ s[p].col < s[q].col
  \/ s[p].row = s[q].row /\ s[p].col = s[q].col /\ p < q

Sorted(s) ==
  [k \in DOMAIN s |->
     s[CHOOSE q \in DOMAIN s : Cardinality({p \in DOMAIN s : Before(s, p, q)}) = k - 1]]

\* Positions (from 1 on) at which the row of the sorted triplets changes.
Changes(s) == {k \in 2 .. Len(s) : s[k].row # s[k - 1].row}

\* The assertion nextrow == nrows: there is a triplet in every row.
Readable(f) ==
  f.entries # <<>> /\ Cardinality(Changes(Sorted(Indexed(f)))) + 1 = f.n

ReadMatrixMarket(f) ==
  LET s == Sorted(Indexed(f))
      starts == {1} \cup Changes(s) \cup {Len(s) + 1}
  IN [nrows |-> f.n, rowptr |-> [i \in 0 .. f.n |-> Nth(starts, i + 1) - 1], entries |-> s]

\* The triplets of a row.
Triplets(coo, i) == SubSeq(coo.entries, coo.rowptr[i] + 1, coo.rowptr[i + 1])

\* diagind keeps what the memory holds, garbage, in a row without a diagonal.
ConvertToCSR(coo, garbage) ==
  LET m == Packed([nbrows |-> coo.nrows, bs |-> 1, stor |-> "rowmajor",
                   browptr |-> <<>>, bcolind |-> <<>>, vals |-> <<>>,
                   diagind |-> [i \in Below(coo.nrows) |-> garbage]],
                  [i \in Below(coo.nrows) |->
                     [q \in 1 .. Len(Triplets(coo, i)) |->
                        [col |-> Triplets(coo, i)[q].col,
                         val |-> [k \in {0} |-> Triplets(coo, i)[q].val]]]])
  IN [m EXCEPT !.diagind = [i \in Rows(m) |->
        IF \E jj \in Row(m, i) : m.bcolind[jj] = i
        THEN CHOOSE jj \in Row(m, i) : m.bcolind[jj] = i
        ELSE @[i]]]

\* The triplets of the rows of a block row, in their order.
BlockRow(coo, bs, b) ==
  SubSeq(coo.entries, coo.rowptr[b * bs] + 1, coo.rowptr[(b + 1) * bs])

\* The block columns of a block row in the order of their first triplet.
BlockColumns(coo, bs, b) ==
  LET row == BlockRow(coo, bs, b)
      firsts == {q \in DOMAIN row : \A p \in 1 .. q - 1 : row[p].col \div bs # row[q].col \div bs}
  IN [k \in 1 .. Cardinality(firsts) |-> row[Nth(firsts, k)].col \div bs]

\* The block of the triplets whose column is in block column c.
GatheredBlock(coo, bs, stor, b, c) ==
  LET Offset(e) == Place([bs |-> bs, stor |-> stor], e.row - b * bs, e.col - c * bs)
      mine == {e \in ToSet(BlockRow(coo, bs, b)) : e.col \div bs = c}
  IN [k \in Below(bs * bs) |->
        IF \E e \in mine : Offset(e) = k THEN (CHOOSE e \in mine : Offset(e) = k).val ELSE 0]

ConvertToBSR(coo, bs, stor) ==
  LET n == coo.nrows \div bs
      m == Packed([nbrows |-> n, bs |-> bs, stor |-> stor,
                   browptr |-> <<>>, bcolind |-> <<>>, vals |-> <<>>,
                   diagind |-> [i \in Below(n) |-> -1]],
                  [b \in Below(n) |->
                     [q \in 1 .. Len(BlockColumns(coo, bs, b)) |->
                        [col |-> BlockColumns(coo, bs, b)[q],
                         val |-> GatheredBlock(coo, bs, stor, b,
                                               BlockColumns(coo, bs, b)[q])]]])
  IN [m EXCEPT !.diagind = [i \in Rows(m) |->
        IF \E jj \in Row(m, i) : m.bcolind[jj] = i
        THEN CHOOSE jj \in Row(m, i) : m.bcolind[jj] = i
        ELSE @[i]]]

GetSRMatrixFromCOO(coo, bs, stor, garbage) ==
  IF bs = 1 THEN ConvertToCSR(coo, garbage) ELSE ConvertToBSR(coo, bs, stor)
=============================================================================
