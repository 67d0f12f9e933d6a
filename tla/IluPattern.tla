----------------------------- MODULE IluPattern ------------------------------
(***************************************************************************)
(* The products an incomplete LU factorization takes: which positions of   *)
(* the factors the sum for each of their entries reads, as                 *)
(* compute_ILU_positions_CSR_CSR (src/ilu_pattern.cpp) finds them.         *)
(***************************************************************************)
EXTENDS SparsityPattern, FiniteSets

\* The non-zero positions, row and column.
Entries(m) == {e \in Rows \X Rows : e[2] \in m[e[1]]}

\* Faulty variants of Products: without a look at the result of the search, and
\* past the entry's own column.
ProductsUnmatched(m, i, j) == {k \in m[i] : k < i /\ k < j}

ProductsInclusive(m, i, j) == {k \in m[i] : k <= i /\ k <= j /\ j \in m[k]}

(***************************************************************************)
(* The k of the products l_ik * u_kj in the sum for entry (i, j): columns  *)
(* of row i before the diagonal and before j, whose row has column j.  The *)
(* search for j in row k starts at its diagonal, which is not past j.      *)
(***************************************************************************)
Products(m, i, j) == {k \in m[i] : k < i /\ k < j /\ j \in m[k]}

(***************************************************************************)
(* All that the kernel reads for an entry: both factors of each product,   *)
(* and the diagonal entry that it divides by below the diagonal.           *)
(***************************************************************************)
Operands(m, e) ==
  LET P == Products(m, e[1], e[2])
  IN  {<<e[1], k>> : k \in P} \cup {<<k, e[2]>> : k \in P}
      \cup (IF e[2] < e[1] THEN {<<e[2], e[2]>>} ELSE {})

\* diagind[j]: the position of (j, j) among the entries, row after row.
DiagPos(m, j) ==
  Cardinality({e \in Entries(m) : e[1] < j \/ (e[1] = j /\ e[2] < j)})
=============================================================================
