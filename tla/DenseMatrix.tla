----------------------------- MODULE DenseMatrix -----------------------------
(***************************************************************************)
(* What an AbstractMatrix (include/linearoperator.hpp) promises to those   *)
(* who assemble it, whatever its storage: a square matrix A of scalars on  *)
(* which every call acts at once and exactly where it says.  Scalars are   *)
(* taken modulo a prime, so that scaling can be undone.                    *)
(***************************************************************************)
EXTENDS Integers, Sequences, FiniteSets

CONSTANTS
  Mod,                  \* the prime
  Files,                \* Matrix Market files: [n, entries], 1-based entries
  Blocks,               \* [i, j, b, buf]: a b x b block at (i, j), by rows
  Factors,              \* arguments of scaleAll
  Orderings             \* [rp, cp, rowscale, colscale], each may be empty

VARIABLES
  A,                    \* <<row, column>> |-> entry, 0-based
  call                  \* the last call, <<what>> or <<what, argument>>

Scalars == 0 .. Mod - 1
Below(n) == 0 .. n - 1
Square(n) == Below(n) \X Below(n)

Content(f) ==
  [p \in Square(f.n) |->
     IF \E e \in DOMAIN f.entries : f.entries[e][1] = p[1] + 1 /\ f.entries[e][2] = p[2] + 1
     THEN f.entries[CHOOSE e \in DOMAIN f.entries :
                      f.entries[e][1] = p[1] + 1 /\ f.entries[e][2] = p[2] + 1][3]
     ELSE 0]

Inside(k, p) == p[1] \in k.i .. k.i + k.b - 1 /\ p[2] \in k.j .. k.j + k.b - 1
In(k, p) == k.buf[(p[1] - k.i) * k.b + p[2] - k.j + 1]

(***************************************************************************)
(* In blocks of b rows and columns, o says which old row becomes row i     *)
(* (o.rp[i]), which old column becomes column j (o.cp[j]), and what the    *)
(* old rows and columns are first multiplied by                            *)
(* (include/reorderingscaling.hpp:37 states the convention).               *)
(***************************************************************************)
Old(p, b, i) == IF p = <<>> THEN i ELSE b * p[i \div b] + (i % b)
Factor(scale, b, i) == IF scale = <<>> THEN 1 ELSE scale[i \div b]

Moved(B, o, b) ==
  [p \in DOMAIN B |->
     LET i == Old(o.rp, b, p[1])  j == Old(o.cp, b, p[2])
     IN (B[<<i, j>>] * Factor(o.rowscale, b, i) * Factor(o.colscale, b, j)) % Mod]

\* Every entry becomes F of its place and of what it is.
Mapped(F(_, _)) == LET B == A IN A' = [p \in DOMAIN B |-> F(p, B[p])]

SetStructure(n) == A' \in [Square(n) -> Scalars]
Load(f) == f \in Files /\ A' = Content(f)
SetBlock(k) == k \in Blocks /\ Mapped(LAMBDA p, a : IF Inside(k, p) THEN In(k, p) ELSE a)
AddBlock(k) ==
  k \in Blocks /\ Mapped(LAMBDA p, a : IF Inside(k, p) THEN (a + In(k, p)) % Mod ELSE a)
ZeroAll == Mapped(LAMBDA p, a : 0)
ZeroDiagonal(b) == Mapped(LAMBDA p, a : IF p[1] \div b = p[2] \div b THEN 0 ELSE a)
Scale(c) == c \in Factors /\ Mapped(LAMBDA p, a : (c * a) % Mod)
Reorder(o, b) == o \in Orderings /\ A' = Moved(A, o, b)
Undo(o, b) == o \in Orderings /\ DOMAIN A' = DOMAIN A /\ A = Moved(A', o, b)

Next ==
  \/ call'[1] = "structure" /\ SetStructure(call'[2])
  \/ call'[1] = "load" /\ Load(call'[2])
  \/ call'[1] = "set" /\ SetBlock(call'[2])
  \/ call'[1] = "add" /\ AddBlock(call'[2])
  \/ call'[1] = "zero" /\ ZeroAll
  \/ call'[1] = "zero diagonal" /\ ZeroDiagonal(call'[2])
  \/ call'[1] = "scale" /\ Scale(call'[2])
  \/ call'[1] = "reorder" /\ Reorder(call'[2], call'[3])
  \/ call'[1] = "undo" /\ Undo(call'[2], call'[3])

Init ==
  \/ call[1] = "structure" /\ A \in [Square(call[2]) -> Scalars]
  \/ call[1] = "load" /\ call[2] \in Files /\ A = Content(call[2])

Spec == Init /\ [][Next]_<<A, call>>
=============================================================================
