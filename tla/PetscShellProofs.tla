-------------------------- MODULE PetscShellProofs ---------------------------
(***************************************************************************)
(* The PETSc interface, for any stack of solvers: whatever is set up,      *)
(* changed, retried and fails, every object has one owner until it is      *)
(* deleted, and an application that keeps to the rules meets no dangling   *)
(* pointer.                                                                *)
(***************************************************************************)
EXTENDS PetscShell, SequenceTheorems, TLAPS

\* The list has counted its nodes, and they are the contexts that live.
Listed ==
  /\ list.size = Len(list.nodes)
  /\ LiveCtx = NodeSet

\* Until setup_blasted_stack returns nothing but contexts has been made.
SettingUp ==
  app = "setup" =>
    /\ LivePrec = {} /\ infos = {}
    /\ \A a \in LiveCtx : ~ctx[a].done
    /\ \A k \in Ksps : ~pc[k].up

\* PCs have contexts of their own, which outlive them.
Attached ==
  /\ \A k \in WithContext : pc[k].ctx \in LiveCtx
  /\ \A j, k \in WithContext : pc[j].ctx = pc[k].ctx => j = k
  /\ app \in {"closed", "done"} => WithContext = {} /\ LivePrec = {}
  /\ app = "done" => LiveCtx = {} /\ infos = {}

(***************************************************************************)
(* What contexts point to: nothing before the options are read; then       *)
(* preconditioners and diagnostics that are alive and no other context's,  *)
(* the preconditioners until the PCs are destroyed.                        *)
(***************************************************************************)
Pointers ==
  /\ \A a \in LiveCtx : ~ctx[a].done => ctx[a].prec = Null /\ ctx[a].info = Null
  /\ app # "closed" => \A a \in LiveCtx : ctx[a].prec # Null => ctx[a].prec \in LivePrec
  /\ \A a, b \in LiveCtx : ctx[a].prec = ctx[b].prec /\ ctx[a].prec # Null => a = b
  /\ \A a \in LiveCtx : ctx[a].info # Null => ctx[a].info \in infos
  /\ \A a, b \in LiveCtx : ctx[a].info = ctx[b].info /\ ctx[a].info # Null => a = b

\* What lives is pointed to.
Held ==
  /\ \A p \in LivePrec : \E k \in WithContext : Prec(k) = p
  /\ \A i \in infos : \E a \in LiveCtx : ctx[a].info = i

\* A PC that is set up can be applied, and one whose options were read has its
\* preconditioner, unless the application goes on after a failure.
Ready ==
  /\ \A k \in Ksps : pc[k].up => k \in WithContext /\ Prec(k) \in LivePrec
  /\ app = "running" /\ ~opt.retries =>
       \A k \in WithContext : ctx[pc[k].ctx].done => Prec(k) \in LivePrec

\* As long as the application keeps its matrices, all there is views the first.
SameMatrix ==
  ~opt.newmats =>
    /\ mats = Mats
    /\ \A k \in Ksps : pc[k].op = FirstMat
    /\ \A p \in LivePrec : prec[p].view = FirstMat

IInv == /\ TypeOK /\ Listed /\ SettingUp /\ Attached /\ Pointers /\ Held /\ Ready
        /\ SameMatrix /\ UpToDate /\ NoBadAccess
-----------------------------------------------------------------------------
(***************************************************************************)
(* Types, and what the steps that change a context or the list do.         *)
(***************************************************************************)
Pointer == Addrs \cup {Null}
Lists == [nodes : Seq(Addrs), size : Nat, factory : Pointer, default : BOOLEAN]
Contexts == [live : BOOLEAN, prec : Pointer, info : Pointer, factory : Pointer,
             type : SolverTypes, done : BOOLEAN]
Pcs == [ctx : Pointer, relax : BOOLEAN, up : BOOLEAN, op : Mats]
Precs == [live : BOOLEAN, view : Mats, fresh : BOOLEAN, set : BOOLEAN]
Places == {"setup", "running", "failed", "aborted", "crashed", "closed", "done"}

LEMMA TypeParts ==
  TypeOK <=> /\ opt \in RunOptions /\ app \in Places /\ todo \in Seq(Ksps)
             /\ list \in Lists /\ ctx \in [Addrs -> Contexts]
             /\ pc \in [Ksps -> Pcs] /\ prec \in [Addrs -> Precs]
             /\ infos \subseteq Addrs /\ factories \subseteq Addrs /\ mats \subseteq Mats
BY DEF TypeOK, Pointer, Lists, Contexts, Pcs, Precs, Places

\* Null is no address.
LEMMA NullFacts == Null \notin Addrs /\ Null \in Pointer /\ Addrs \subseteq Pointer
BY AddrsAssumption DEF Null, Pointer

LEMMA FirstFreeFacts ==
  ASSUME NEW used \in SUBSET Addrs, used # Addrs
  PROVE  FirstFree(used) \in Addrs \ used
BY DEF FirstFree

LEMMA HeadTail ==
  ASSUME TypeOK, NEW k \in Ksps, Visiting(k)
  PROVE  Tail(todo) \in Seq(Ksps) /\ Kids[k] \o Tail(todo) \in Seq(Ksps)
<1>1. Tail(todo) \in Seq(Ksps) BY TypeParts, HeadTailProperties DEF Visiting
<1> QED BY <1>1, StackAssumption, ConcatProperties

LEMMA ListType ==
  ASSUME TypeOK, NewFactory
  PROVE  /\ FirstFree(factories) \in Addrs
         /\ factories' \subseteq Addrs
         /\ WithFactory(list) \in Lists
         /\ WithFactory(list).nodes = list.nodes
         /\ WithFactory(list).size = list.size
<1>1. FirstFree(factories) \in Addrs BY TypeParts, FirstFreeFacts DEF NewFactory
<1>2. list \in Lists BY TypeParts
<1> QED BY <1>1, <1>2, TypeParts, NullFacts DEF NewFactory, WithFactory, Lists

LEMMA InitType == ASSUME Init PROVE TypeOK
<1>1. <<Root>> \in Seq(Ksps) BY StackAssumption
<1>2. list \in Lists BY NullFacts DEF Init, Lists
<1>3. PICK t \in SolverTypes :
        ctx = [a \in Addrs |-> [live |-> FALSE, prec |-> Null, info |-> Null,
                                factory |-> Null, type |-> t, done |-> FALSE]]
  BY DEF Init
<1>4. ctx \in [Addrs -> Contexts] BY <1>3, NullFacts DEF Contexts
<1>5. pc \in [Ksps -> Pcs] /\ prec \in [Addrs -> Precs]
  BY NullFacts, MatsAssumption DEF Init, Pcs, Precs
<1> QED BY <1>1, <1>2, <1>4, <1>5, TypeParts DEF Init, Places

\* A context and a node of the list are added.
LEMMA Appended ==
  ASSUME TypeOK, NEW k \in Ksps, VisitShell(k) \/ VisitShellFails(k)
  PROVE  \E a \in Addrs \ LiveCtx :
           /\ list' \in Lists
           /\ list'.nodes = <<a>> \o list.nodes
           /\ list'.size = list.size + 1
           /\ ctx' \in [Addrs -> Contexts]
           /\ ctx'[a].live /\ ctx'[a].prec = Null /\ ctx'[a].info = Null /\ ~ctx'[a].done
           /\ \A b \in Addrs \ {a} : ctx'[b] = ctx[b]
           /\ pc' \in [Ksps -> Pcs]
           /\ VisitShell(k) => pc'[k].ctx = a
           /\ VisitShellFails(k) => pc'[k] = pc[k]
           /\ pc'[k].up = pc[k].up /\ pc'[k].op = pc[k].op
           /\ \A j \in Ksps \ {k} : pc'[j] = pc[j]
<1> DEFINE a == FirstFree(LiveCtx)
<1>1. a \in Addrs \ LiveCtx /\ AppendContext(a) /\ NewFactory
  BY FirstFreeFacts DEF LiveCtx, AppendContext, VisitShell, VisitShellFails
<1>2. VisitShell(k) => pc' = [pc EXCEPT ![k].ctx = a, ![k].relax = HasRelaxation(ctx[a].type)]
  BY DEF VisitShell
<1> HIDE DEF a
<1>3. list' \in Lists /\ list'.nodes = <<a>> \o list.nodes /\ list'.size = list.size + 1
  <2> DEFINE l == WithFactory(list)
             nodes == <<a>> \o list.nodes
             size == list.size + 1
  <2>1. l \in Lists /\ l.nodes = list.nodes /\ l.size = list.size BY <1>1, ListType
  <2>2. list' = [l EXCEPT !.nodes = <<a>> \o l.nodes, !.size = l.size + 1]
    BY <1>1 DEF AppendContext
  <2>3. nodes \in Seq(Addrs) /\ size \in Nat
    BY <1>1, <2>1, TypeParts, ConcatProperties DEF Lists
  <2> HIDE DEF l
  <2>4. list' = [l EXCEPT !.nodes = nodes, !.size = size] BY <2>1, <2>2
  <2> HIDE DEF nodes, size
  <2>5. list' \in Lists /\ list'.nodes = nodes /\ list'.size = size
    BY <2>1, <2>3, <2>4 DEF Lists
  <2> QED BY <2>5 DEF nodes, size
<1>4. /\ ctx' \in [Addrs -> Contexts]
      /\ ctx'[a].live /\ ctx'[a].prec = Null /\ ctx'[a].info = Null /\ ~ctx'[a].done
      /\ \A b \in Addrs \ {a} : ctx'[b] = ctx[b]
  <2> DEFINE c == [live |-> TRUE, prec |-> Null, info |-> Null,
                   factory |-> FirstFree(factories), type |-> ctx[a].type, done |-> FALSE]
  <2>1. FirstFree(factories) \in Addrs /\ ctx \in [Addrs -> Contexts]
    BY <1>1, ListType, TypeParts
  <2>2. ctx[a].type \in SolverTypes BY <1>1, <2>1 DEF Contexts
  <2>3. c \in Contexts BY <2>1, <2>2, NullFacts DEF Contexts
  <2>4. c.live /\ c.prec = Null /\ c.info = Null /\ ~c.done OBVIOUS
  <2>5. ctx' = [ctx EXCEPT ![a] = c] BY <1>1 DEF AppendContext
  <2> HIDE DEF c
  <2> QED BY <1>1, <2>1, <2>3, <2>4, <2>5
<1>5. pc \in [Ksps -> Pcs] BY TypeParts
<1>6. CASE VisitShell(k)
  <2> DEFINE h == HasRelaxation(ctx[a].type)
             r == [pc[k] EXCEPT !.ctx = a, !.relax = h]
  <2>1. h \in BOOLEAN BY DEF HasRelaxation
  <2> HIDE DEF h
  <2>2. r \in Pcs /\ r.ctx = a /\ r.up = pc[k].up /\ r.op = pc[k].op
    BY <1>1, <1>5, <2>1, NullFacts DEF Pcs
  <2>3. pc' = [pc EXCEPT ![k] = r]
    <3>1. pc' = [pc EXCEPT ![k].ctx = a, ![k].relax = h] BY <1>2, <1>6 DEF h
    <3>2. pc[k] \in Pcs BY <1>5
    <3> QED BY <1>5, <3>1, <3>2 DEF Pcs
  <2> HIDE DEF r
  <2>4. pc'[k] = r /\ pc' \in [Ksps -> Pcs] /\ \A j \in Ksps \ {k} : pc'[j] = pc[j]
    BY <1>5, <2>2, <2>3
  <2>5. ~VisitShellFails(k) BY <1>6 DEF VisitShell, VisitShellFails, Visiting
  <2> QED BY <1>1, <1>3, <1>4, <2>2, <2>4, <2>5
<1>7. CASE ~VisitShell(k)
  <2>1. pc' = pc BY <1>7 DEF VisitShellFails
  <2> QED BY <1>1, <1>3, <1>4, <1>5, <1>7, <2>1
<1> QED BY <1>6, <1>7

\* The options are read, and there is no preconditioner.
LEMMA NotCreated ==
  ASSUME TypeOK, NEW k \in Ksps, CreateFails(k)
  PROVE  LET c == pc[k].ctx
         IN  /\ c \in Addrs /\ ~ctx[c].done
             /\ ctx' \in [Addrs -> Contexts]
             /\ ctx'[c].live = ctx[c].live /\ ctx'[c].prec = Null /\ ctx'[c].done
             /\ ctx'[c].info = ctx[c].info
             /\ \A b \in Addrs \ {c} : ctx'[b] = ctx[b]
<1> DEFINE c == pc[k].ctx
           r == OptionsSet(ctx[c])
<1>1. c \in Addrs /\ ~ctx[c].done /\ opt.type \in SolverTypes
  BY TypeParts DEF CreateFails, FirstSetup, SetUp, Callback, OptionsRead, Pcs, Pointer
<1>2. ctx \in [Addrs -> Contexts] BY TypeParts
<1>3. /\ r \in Contexts /\ r.live = ctx[c].live /\ r.prec = Null /\ r.done
      /\ r.info = ctx[c].info
  BY <1>1, <1>2, NullFacts DEF OptionsSet, Contexts
<1>4. ctx' = [ctx EXCEPT ![c] = r] BY DEF CreateFails
<1> HIDE DEF r
<1> QED BY <1>1, <1>2, <1>3, <1>4

\* A preconditioner is made, and computed or not; and diagnostics.
LEMMA Made ==
  ASSUME TypeOK, NEW k \in Ksps, CreateAndCompute(k) \/ CreateAndThrow(k)
  PROVE  LET c == pc[k].ctx
             p == NewPrec
             i == NewInfo
         IN  /\ c \in Addrs /\ ~ctx[c].done
             /\ ctx' \in [Addrs -> Contexts]
             /\ ctx'[c].live = ctx[c].live /\ ctx'[c].prec = p /\ ctx'[c].done
             /\ ctx'[c].info = i
             /\ \A b \in Addrs \ {c} : ctx'[b] = ctx[b]
             /\ p \in Addrs \ LivePrec
             /\ prec' \in [Addrs -> Precs]
             /\ prec'[p].live /\ prec'[p].view = pc[k].op
             /\ CreateAndCompute(k) => prec'[p].fresh
             /\ \A b \in Addrs \ {p} : prec'[b] = prec[b]
             /\ i # Null => i \in Addrs \ infos
             /\ infos' = infos \cup ({i} \ {Null})
             /\ pc' \in [Ksps -> Pcs]
             /\ \A j \in Ksps : pc'[j].ctx = pc[j].ctx /\ pc'[j].op = pc[j].op
             /\ \A j \in Ksps \ {k} : pc'[j].up = pc[j].up
             /\ CreateAndThrow(k) => pc' = pc
<1> DEFINE c == pc[k].ctx
           p == NewPrec
           i == NewInfo
           o == OptionsSet(ctx[c])
           r == [o EXCEPT !.prec = p, !.info = i]
<1>1. c \in Addrs /\ ~ctx[c].done /\ opt.type \in SolverTypes /\ HeapLeft /\ Created(k, p, i)
  BY TypeParts DEF CreateAndCompute, CreateAndThrow, FirstSetup, SetUp, Callback, OptionsRead,
                   Pcs, Pointer
<1>2. /\ ctx \in [Addrs -> Contexts] /\ prec \in [Addrs -> Precs] /\ pc \in [Ksps -> Pcs]
  BY TypeParts
<1>3. p \in Addrs \ LivePrec
  BY <1>1, FirstFreeFacts DEF HeapLeft, LivePrec, NewPrec
<1>4. i \in Pointer /\ (i # Null => i \in Addrs \ infos)
  <2>1. FirstFree(infos) \in Addrs \ infos
    BY <1>1, TypeParts, FirstFreeFacts DEF HeapLeft
  <2> QED BY <2>1, NullFacts DEF NewInfo
<1>5. pc[k].op \in Mats BY <1>2 DEF Pcs
<1>6. /\ ctx' = [ctx EXCEPT ![c] = r]
      /\ infos' = infos \cup ({i} \ {Null})
  BY <1>1 DEF Created
<1> HIDE DEF p, i
<1>7. o \in Contexts /\ o.live = ctx[c].live /\ o.done
  BY <1>1, <1>2, NullFacts DEF OptionsSet, Contexts
<1> HIDE DEF o
<1>8. r \in Contexts /\ r.live = ctx[c].live /\ r.prec = p /\ r.done /\ r.info = i
  BY <1>3, <1>4, <1>7, NullFacts DEF Contexts
<1> HIDE DEF r
<1>9. /\ ctx' \in [Addrs -> Contexts] /\ ctx'[c] = r
      /\ \A b \in Addrs \ {c} : ctx'[b] = ctx[b]
  BY <1>1, <1>2, <1>6, <1>8
<1>10. \E f \in BOOLEAN :
         /\ prec' = [prec EXCEPT ![p] = [live |-> TRUE, view |-> pc[k].op,
                                         fresh |-> f, set |-> f]]
         /\ CreateAndCompute(k) => f
  <2>1. CASE CreateAndCompute(k) BY <2>1 DEF CreateAndCompute, p
  <2>2. CASE ~CreateAndCompute(k) BY <2>2 DEF CreateAndThrow, p
  <2> QED BY <2>1, <2>2
<1>11. /\ prec' \in [Addrs -> Precs] /\ prec'[p].live /\ prec'[p].view = pc[k].op
       /\ CreateAndCompute(k) => prec'[p].fresh
       /\ \A b \in Addrs \ {p} : prec'[b] = prec[b]
  <2>1. PICK f \in BOOLEAN :
          /\ prec' = [prec EXCEPT ![p] = [live |-> TRUE, view |-> pc[k].op,
                                          fresh |-> f, set |-> f]]
          /\ CreateAndCompute(k) => f
    BY <1>10
  <2> DEFINE new == [live |-> TRUE, view |-> pc[k].op, fresh |-> f, set |-> f]
  <2>2. new \in Precs /\ new.live /\ new.view = pc[k].op /\ new.fresh = f
    BY <1>5 DEF Precs
  <2>3. prec' = [prec EXCEPT ![p] = new] BY <2>1
  <2> HIDE DEF new
  <2> QED BY <1>2, <1>3, <2>1, <2>2, <2>3
<1>12. pc' = pc \/ pc' = [pc EXCEPT ![k].up = TRUE]
  BY DEF CreateAndCompute, CreateAndThrow
<1>13. /\ pc' \in [Ksps -> Pcs]
       /\ \A j \in Ksps : pc'[j].ctx = pc[j].ctx /\ pc'[j].op = pc[j].op
       /\ \A j \in Ksps \ {k} : pc'[j].up = pc[j].up
  <2> DEFINE u == [pc[k] EXCEPT !.up = TRUE]
  <2>1. u \in Pcs /\ u.ctx = pc[k].ctx /\ u.op = pc[k].op BY <1>2 DEF Pcs
  <2>2. pc' = pc \/ pc' = [pc EXCEPT ![k] = u] BY <1>12
  <2> HIDE DEF u
  <2> QED BY <1>2, <2>1, <2>2
<1>14. CreateAndThrow(k) => pc' = pc BY DEF CreateAndThrow
<1> QED BY <1>1, <1>3, <1>4, <1>6, <1>8, <1>9, <1>11, <1>13, <1>14 DEF p, i

\* Later computations.
LEMMA Recomputed ==
  ASSUME TypeOK, NEW k \in Ksps, Recompute(k)
  PROVE  /\ prec' \in [Addrs -> Precs] /\ pc' \in [Ksps -> Pcs]
         /\ \A a \in Addrs : /\ prec'[a].live = prec[a].live /\ prec'[a].view = prec[a].view
                             /\ prec[a].fresh => prec'[a].fresh
         /\ prec'[Prec(k)].fresh
         /\ \A j \in Ksps : pc'[j].ctx = pc[j].ctx /\ pc'[j].op = pc[j].op
         /\ \A j \in Ksps \ {k} : pc'[j].up = pc[j].up
<1> DEFINE p == Prec(k)
           r == [prec[p] EXCEPT !.fresh = TRUE, !.set = TRUE]
           u == [pc[k] EXCEPT !.up = TRUE]
<1>1. prec \in [Addrs -> Precs] /\ pc \in [Ksps -> Pcs] /\ p \in Addrs
  BY TypeParts DEF Recompute, Usable, LivePrec
<1>2. prec' = [prec EXCEPT ![p] = r] /\ pc' = [pc EXCEPT ![k] = u]
  <2>1. /\ prec' = [prec EXCEPT ![p].fresh = TRUE, ![p].set = TRUE]
        /\ pc' = [pc EXCEPT ![k].up = TRUE]
    BY DEF Recompute
  <2> HIDE DEF p
  <2> QED BY <1>1, <2>1
<1> HIDE DEF p
<1>3. r \in Precs /\ r.live = prec[p].live /\ r.view = prec[p].view /\ r.fresh
  BY <1>1 DEF Precs
<1>4. u \in Pcs /\ u.ctx = pc[k].ctx /\ u.op = pc[k].op BY <1>1 DEF Pcs
<1> HIDE DEF r, u
<1>5. /\ prec' \in [Addrs -> Precs] /\ prec'[p] = r
      /\ \A a \in Addrs \ {p} : prec'[a] = prec[a]
  BY <1>1, <1>2, <1>3
<1>6. /\ pc' \in [Ksps -> Pcs] /\ pc'[k] = u
      /\ \A j \in Ksps \ {k} : pc'[j] = pc[j]
  BY <1>1, <1>2, <1>4
<1> QED BY <1>3, <1>4, <1>5, <1>6 DEF p

\* KSPSetOperators with another matrix.
LEMMA OperatorSet ==
  ASSUME TypeOK, NEW k \in Ksps, NEW m \in Mats, SetOperators(k, m)
  PROVE  /\ pc' \in [Ksps -> Pcs]
         /\ \A j \in Ksps : pc'[j].ctx = pc[j].ctx /\ (pc'[j].up => pc[j].up)
<1> DEFINE r == [pc[k] EXCEPT !.op = m, !.up = FALSE]
<1>1. pc \in [Ksps -> Pcs] BY TypeParts
<1>2. pc' = [pc EXCEPT ![k] = r] BY <1>1 DEF SetOperators
<1>3. r \in Pcs /\ r.ctx = pc[k].ctx /\ ~r.up BY <1>1 DEF Pcs
<1> HIDE DEF r
<1>4. pc' \in [Ksps -> Pcs] /\ pc'[k] = r /\ \A j \in Ksps \ {k} : pc'[j] = pc[j]
  BY <1>1, <1>2, <1>3
<1> QED BY <1>3, <1>4

\* The application computes new entries.
LEMMA ValuesChanged ==
  ASSUME TypeOK, NEW m \in Mats, ChangeValues(m)
  PROVE  /\ prec' \in [Addrs -> Precs] /\ pc' \in [Ksps -> Pcs]
         /\ \A a \in Addrs : /\ prec'[a].live = prec[a].live /\ prec'[a].view = prec[a].view
                             /\ prec[a].fresh /\ prec[a].view # m => prec'[a].fresh
         /\ \A k \in Ksps : /\ pc'[k].ctx = pc[k].ctx /\ pc'[k].op = pc[k].op
                            /\ pc'[k].up => pc[k].up /\ pc[k].op # m
<1>1. prec \in [Addrs -> Precs] /\ pc \in [Ksps -> Pcs] BY TypeParts
<1>2. ASSUME NEW a \in Addrs
      PROVE  /\ prec'[a] \in Precs
             /\ prec'[a].live = prec[a].live /\ prec'[a].view = prec[a].view
             /\ prec[a].fresh /\ prec[a].view # m => prec'[a].fresh
  <2> DEFINE f == prec[a].fresh /\ prec[a].view # m
  <2>1. prec'[a] = [prec[a] EXCEPT !.fresh = f] BY DEF ChangeValues
  <2>2. f \in BOOLEAN BY <1>1 DEF Precs
  <2>3. prec[a] \in Precs BY <1>1
  <2> HIDE DEF f
  <2>4. prec'[a] \in Precs /\ prec'[a].live = prec[a].live /\ prec'[a].view = prec[a].view
        /\ prec'[a].fresh = f
    BY <2>1, <2>2, <2>3 DEF Precs
  <2> QED BY <2>4 DEF f
<1>3. ASSUME NEW k \in Ksps
      PROVE  /\ pc'[k] \in Pcs
             /\ pc'[k].ctx = pc[k].ctx /\ pc'[k].op = pc[k].op
             /\ pc'[k].up => pc[k].up /\ pc[k].op # m
  <2> DEFINE u == pc[k].up /\ pc[k].op # m
  <2>1. pc'[k] = [pc[k] EXCEPT !.up = u] BY DEF ChangeValues
  <2>2. u \in BOOLEAN BY <1>1 DEF Pcs
  <2>3. pc[k] \in Pcs BY <1>1
  <2> HIDE DEF u
  <2>4. pc'[k] \in Pcs /\ pc'[k].ctx = pc[k].ctx /\ pc'[k].op = pc[k].op /\ pc'[k].up = u
    BY <2>1, <2>2, <2>3 DEF Pcs
  <2> QED BY <2>4 DEF u
<1>4. DOMAIN prec' = Addrs /\ prec' = [a \in Addrs |-> prec'[a]]
      /\ DOMAIN pc' = Ksps /\ pc' = [k \in Ksps |-> pc'[k]]
  BY DEF ChangeValues
<1> QED BY <1>2, <1>3, <1>4

\* KSPDestroy on the root.
LEMMA PcsDestroyed ==
  ASSUME TypeOK, KspDestroy
  PROVE  /\ prec' \in [Addrs -> Precs] /\ pc' \in [Ksps -> Pcs]
         /\ \A a \in Addrs : prec'[a].live <=> prec[a].live /\ a \notin ToDelete
         /\ \A k \in Ksps : pc'[k].ctx = Null /\ ~pc'[k].up /\ pc'[k].op = pc[k].op
<1>1. prec \in [Addrs -> Precs] /\ pc \in [Ksps -> Pcs] BY TypeParts
<1>2. ASSUME NEW a \in Addrs
      PROVE  prec'[a] \in Precs /\ (prec'[a].live <=> prec[a].live /\ a \notin ToDelete)
             /\ prec'[a].view = prec[a].view
  <2> DEFINE l == prec[a].live /\ a \notin ToDelete
  <2>1. prec'[a] = [prec[a] EXCEPT !.live = l] BY DEF KspDestroy
  <2>2. l \in BOOLEAN BY <1>1 DEF Precs
  <2>3. prec[a] \in Precs BY <1>1
  <2> HIDE DEF l
  <2>4. prec'[a] \in Precs /\ prec'[a].live = l /\ prec'[a].view = prec[a].view
    BY <2>1, <2>2, <2>3 DEF Precs
  <2> QED BY <2>4 DEF l
<1>3. ASSUME NEW k \in Ksps
      PROVE  pc'[k] \in Pcs /\ pc'[k].ctx = Null /\ ~pc'[k].up /\ pc'[k].op = pc[k].op
  BY <1>1, NullFacts DEF KspDestroy, Pcs
<1>4. DOMAIN prec' = Addrs /\ prec' = [a \in Addrs |-> prec'[a]]
      /\ DOMAIN pc' = Ksps /\ pc' = [k \in Ksps |-> pc'[k]]
  BY DEF KspDestroy
<1> QED BY <1>2, <1>3, <1>4

\* destroyBlastedDataList
LEMMA ListDestroyed ==
  ASSUME TypeOK, DestroyList
  PROVE  /\ list' \in Lists /\ list'.nodes = <<>> /\ list'.size = 0
         /\ ctx' \in [Addrs -> Contexts]
         /\ \A a \in Addrs : ctx'[a].live <=> ctx[a].live /\ a \notin NodeSet
<1>1. ctx \in [Addrs -> Contexts] /\ list \in Lists BY TypeParts
<1>2. list' \in Lists /\ list'.nodes = <<>> /\ list'.size = 0
  <2>1. <<>> \in Seq(Addrs) /\ list' = [list EXCEPT !.nodes = <<>>, !.size = 0, !.default = FALSE]
    BY DEF DestroyList
  <2> QED BY <1>1, <2>1 DEF Lists
<1>3. ASSUME NEW a \in Addrs
      PROVE  ctx'[a] \in Contexts /\ (ctx'[a].live <=> ctx[a].live /\ a \notin NodeSet)
  <2> DEFINE l == ctx[a].live /\ a \notin NodeSet
  <2>1. ctx'[a] = [ctx[a] EXCEPT !.live = l] BY DEF DestroyList
  <2>2. l \in BOOLEAN BY <1>1 DEF Contexts
  <2>3. ctx[a] \in Contexts BY <1>1
  <2> HIDE DEF l
  <2>4. ctx'[a] \in Contexts /\ ctx'[a].live = l BY <2>1, <2>2, <2>3 DEF Contexts
  <2> QED BY <2>4 DEF l
<1>4. DOMAIN ctx' = Addrs /\ ctx' = [a \in Addrs |-> ctx'[a]] BY DEF DestroyList
<1> QED BY <1>2, <1>3, <1>4

LEMMA StepType == ASSUME TypeOK, [Next]_vars PROVE TypeOK'
<1>0. /\ opt \in RunOptions /\ app \in Places /\ todo \in Seq(Ksps) /\ list \in Lists
      /\ ctx \in [Addrs -> Contexts] /\ pc \in [Ksps -> Pcs] /\ prec \in [Addrs -> Precs]
      /\ infos \subseteq Addrs /\ factories \subseteq Addrs /\ mats \subseteq Mats
  BY TypeParts
<1> DEFINE TypeNext ==
             /\ opt' \in RunOptions /\ app' \in Places /\ todo' \in Seq(Ksps) /\ list' \in Lists
             /\ ctx' \in [Addrs -> Contexts] /\ pc' \in [Ksps -> Pcs]
             /\ prec' \in [Addrs -> Precs]
             /\ infos' \subseteq Addrs /\ factories' \subseteq Addrs /\ mats' \subseteq Mats
<1> SUFFICES TypeNext BY DEF TypeOK, Lists, Contexts, Pcs, Precs, Pointer, Places
<1>1. CASE SetupReturns BY <1>0, <1>1 DEF SetupReturns, Places
<1>2. ASSUME NEW k \in Ksps, Visit(k) PROVE TypeNext
  <2>0. Visiting(k) /\ NewFactory
    BY <1>2 DEF Visit, VisitNested, VisitFails, VisitOther, VisitShell, VisitShellFails
  <2>1. Tail(todo) \in Seq(Ksps) /\ Kids[k] \o Tail(todo) \in Seq(Ksps) /\ <<>> \in Seq(Ksps)
    BY <2>0, HeadTail
  <2>2. factories' \subseteq Addrs /\ WithFactory(list) \in Lists
    BY <2>0, ListType
  <2>3. CASE VisitNested(k) \/ VisitFails(k) \/ VisitOther(k)
    BY <1>0, <2>1, <2>2, <2>3 DEF VisitNested, VisitFails, VisitOther, Places
  <2>4. CASE VisitShell(k) \/ VisitShellFails(k)
    <3>1. list' \in Lists /\ ctx' \in [Addrs -> Contexts] /\ pc' \in [Ksps -> Pcs]
      BY <2>4, Appended
    <3> QED BY <1>0, <2>1, <2>2, <2>4, <3>1 DEF VisitShell, VisitShellFails, Places
  <2> QED BY <1>2, <2>3, <2>4 DEF Visit
<1>3. ASSUME NEW k \in Ksps, Compute(k) PROVE TypeNext
  <2>1. CASE OptionsAbort(k) \/ OptionsThrow(k) \/ RecomputeThrows(k) \/ RecomputeNothing(k)
    BY <1>0, <2>1 DEF OptionsAbort, OptionsThrow, RecomputeThrows, RecomputeNothing, Places
  <2>2. CASE CreateFails(k)
    <3>1. ctx' \in [Addrs -> Contexts] BY <2>2, NotCreated
    <3> QED BY <1>0, <2>2, <3>1 DEF CreateFails, Places
  <2>3. CASE CreateAndCompute(k) \/ CreateAndThrow(k)
    <3>1. /\ ctx' \in [Addrs -> Contexts] /\ prec' \in [Addrs -> Precs]
          /\ pc' \in [Ksps -> Pcs] /\ infos' \subseteq Addrs
      BY <1>0, <2>3, Made
    <3> QED BY <1>0, <2>3, <3>1 DEF CreateAndCompute, CreateAndThrow, Places
  <2>4. CASE Recompute(k)
    <3>1. prec' \in [Addrs -> Precs] /\ pc' \in [Ksps -> Pcs]
      BY <1>0, <2>4, Recomputed
    <3> QED BY <1>0, <2>4, <3>1 DEF Recompute
  <2> QED BY <1>3, <2>1, <2>2, <2>3, <2>4 DEF Compute
<1>4. ASSUME NEW k \in Ksps, Apply(k) \/ Relax(k) PROVE TypeNext
  BY <1>0, <1>4 DEF Apply, Relax, Places
<1>5. ASSUME NEW m \in Mats, ChangeValues(m) \/ DestroyMat(m) PROVE TypeNext
  <2>1. CASE ChangeValues(m) BY <1>0, <2>1, ValuesChanged DEF ChangeValues
  <2>2. CASE DestroyMat(m) BY <1>0, <2>2 DEF DestroyMat
  <2> QED BY <1>5, <2>1, <2>2
<1>6. ASSUME NEW k \in Ksps, NEW m \in Mats, SetOperators(k, m) PROVE TypeNext
  BY <1>0, <1>6, OperatorSet DEF SetOperators
<1>7. CASE Recover BY <1>0, <1>7 DEF Recover, Places
<1>8. CASE KspDestroy BY <1>0, <1>8, PcsDestroyed DEF KspDestroy, Places
<1>9. CASE DestroyList BY <1>0, <1>9, ListDestroyed DEF DestroyList, Places
<1>10. CASE Finished \/ UNCHANGED vars BY <1>0, <1>10 DEF Finished, vars
<1> QED
  BY <1>1, <1>2, <1>3, <1>4, <1>5, <1>6, <1>7, <1>8, <1>9, <1>10
  DEF Next, Setup, Callbacks, Application
-----------------------------------------------------------------------------
(***************************************************************************)
(* The invariant.                                                          *)
(***************************************************************************)
LEMMA InitIInv == ASSUME Init PROVE IInv
<1>1. \A a \in Addrs : ~ctx[a].live /\ ~prec[a].live BY DEF Init
<1>2. LiveCtx = {} /\ LivePrec = {} BY <1>1 DEF LiveCtx, LivePrec
<1>3. /\ \A k \in Ksps : pc[k].ctx = Null /\ ~pc[k].up /\ pc[k].op = FirstMat
      /\ list.nodes = <<>> /\ list.size = 0 /\ app = "setup" /\ infos = {} /\ mats = Mats
  BY DEF Init
<1>4. NodeSet = {} /\ WithContext = {} BY <1>3 DEF NodeSet, WithContext
<1>5. Listed BY <1>2, <1>3, <1>4 DEF Listed
<1>6. SettingUp /\ Attached /\ Pointers /\ Held /\ Ready
  BY <1>2, <1>3, <1>4 DEF SettingUp, Attached, Pointers, Held, Ready
<1>7. SameMatrix /\ UpToDate /\ NoBadAccess
  BY <1>2, <1>3 DEF SameMatrix, UpToDate, NoBadAccess
<1> QED BY <1>5, <1>6, <1>7, InitType DEF IInv

\* Steps that change nothing but where the application is.
LEMMA AsideIInv ==
  ASSUME IInv, TypeOK',
         UNCHANGED <<opt, ctx, pc, prec, infos, mats>>,
         list'.nodes = list.nodes, list'.size = list.size,
         app \notin {"closed", "done"},
         app' = app \/ app' \in {"running", "failed", "aborted", "crashed"},
         app' = "crashed" => opt.retries \/ opt.newmats,
         app' = "running" => opt.retries \/ app \in {"setup", "running"}
  PROVE  IInv'
<1>1. /\ LiveCtx' = LiveCtx /\ LivePrec' = LivePrec /\ NodeSet' = NodeSet
      /\ WithContext' = WithContext /\ \A k \in Ksps : Prec(k)' = Prec(k)
  BY DEF LiveCtx, LivePrec, NodeSet, WithContext, Prec
<1>2. Listed' BY <1>1 DEF IInv, Listed
<1>3. SettingUp' /\ Attached' BY <1>1 DEF IInv, SettingUp, Attached
<1>4. Pointers' /\ Held' BY <1>1 DEF IInv, Pointers, Held, WithContext
<1>5. Ready'
  <2>1. app = "setup" => \A k \in WithContext : ~ctx[pc[k].ctx].done
    BY DEF IInv, SettingUp, Attached
  <2> QED BY <1>1, <2>1 DEF IInv, Ready, WithContext
<1>6. SameMatrix' /\ UpToDate' /\ NoBadAccess'
  BY <1>1 DEF IInv, SameMatrix, UpToDate, NoBadAccess
<1> QED BY <1>2, <1>3, <1>4, <1>5, <1>6 DEF IInv

\* A new context has neither a preconditioner nor diagnostics.
LEMMA AppendIInv ==
  ASSUME IInv, TypeOK', NEW k \in Ksps, VisitShell(k) \/ VisitShellFails(k)
  PROVE  IInv'
<1>1. /\ UNCHANGED <<opt, prec, infos, mats>> /\ app = "setup"
      /\ app' \in {"setup", "failed"}
      /\ TypeOK
  BY DEF VisitShell, VisitShellFails, Visiting, IInv
<1>2. PICK a \in Addrs \ LiveCtx :
        /\ list'.nodes = <<a>> \o list.nodes
        /\ list'.size = list.size + 1
        /\ ctx'[a].live /\ ctx'[a].prec = Null /\ ctx'[a].info = Null /\ ~ctx'[a].done
        /\ \A b \in Addrs \ {a} : ctx'[b] = ctx[b]
        /\ VisitShell(k) => pc'[k].ctx = a
        /\ VisitShellFails(k) => pc'[k] = pc[k]
        /\ pc'[k].up = pc[k].up /\ pc'[k].op = pc[k].op
        /\ \A j \in Ksps \ {k} : pc'[j] = pc[j]
  BY <1>1, Appended
<1>3. LiveCtx' = LiveCtx \cup {a} /\ LivePrec' = {} /\ LivePrec = {} /\ infos = {}
  BY <1>1, <1>2 DEF LiveCtx, LivePrec, IInv, SettingUp
<1>4. pc'[k].ctx = a \/ pc'[k].ctx = pc[k].ctx BY <1>2
<1>5. \A j \in Ksps : pc'[j].up = pc[j].up /\ pc'[j].op = pc[j].op BY <1>2
<1>6. Listed'
  <2>1. list.nodes \in Seq(Addrs) BY <1>1, TypeParts DEF Lists
  <2>2. /\ Len(list'.nodes) = Len(list.nodes) + 1
        /\ list'.nodes[1] = a
        /\ \A n \in 1 .. Len(list.nodes) : list'.nodes[n + 1] = list.nodes[n]
    BY <1>2, <2>1
  <2>3. NodeSet' = NodeSet \cup {a}
    <3>1. ASSUME NEW n \in 1 .. Len(list'.nodes)
          PROVE  n = 1 \/ (n - 1 \in 1 .. Len(list.nodes) /\ list'.nodes[n] = list.nodes[n - 1])
      BY <2>1, <2>2
    <3>2. 1 \in 1 .. Len(list'.nodes)
          /\ \A n \in 1 .. Len(list.nodes) : n + 1 \in 1 .. Len(list'.nodes)
      BY <2>1, <2>2
    <3>3. ASSUME NEW n \in 1 .. Len(list'.nodes) PROVE list'.nodes[n] \in NodeSet \cup {a}
      <4>1. CASE n = 1 BY <2>2, <4>1
      <4>2. CASE n # 1 BY <3>1, <4>2 DEF NodeSet
      <4> QED BY <4>1, <4>2
    <3>4. NodeSet \cup {a} \subseteq NodeSet' BY <2>2, <3>2 DEF NodeSet
    <3>5. NodeSet' = {list'.nodes[n] : n \in 1 .. Len(list'.nodes)} BY DEF NodeSet
    <3> QED BY <3>3, <3>4, <3>5
  <2> QED BY <1>2, <1>3, <2>2, <2>3 DEF IInv, Listed
<1>7. SettingUp' BY <1>1, <1>2, <1>3, <1>5 DEF IInv, SettingUp, LiveCtx
<1>8. Attached'
  <2>1. \A j \in WithContext : pc[j].ctx # a BY <1>2 DEF IInv, Attached
  <2>2. \A j \in Ksps \ {k} : pc'[j].ctx = pc[j].ctx BY <1>2
  <2> QED BY <1>1, <1>2, <1>3, <1>4, <2>1, <2>2 DEF IInv, Attached, WithContext
<1>9. Pointers' BY <1>1, <1>2, <1>3 DEF IInv, Pointers, LiveCtx
<1>10. Held' BY <1>1, <1>3 DEF Held
<1>11. Ready' BY <1>1, <1>5 DEF IInv, Ready, SettingUp
<1>12. SameMatrix' /\ UpToDate' /\ NoBadAccess'
  BY <1>1, <1>3, <1>5 DEF IInv, SettingUp, SameMatrix, UpToDate, NoBadAccess
<1> QED BY <1>6, <1>7, <1>8, <1>9, <1>10, <1>11, <1>12 DEF IInv

\* The options are read, but no preconditioner can be made.
LEMMA NotCreatedIInv ==
  ASSUME IInv, TypeOK', NEW k \in Ksps, CreateFails(k)
  PROVE  IInv'
<1> DEFINE c == pc[k].ctx
<1>1. /\ UNCHANGED <<opt, list, pc, prec, infos, mats>>
      /\ app = "running" /\ app' = "failed" /\ TypeOK /\ k \in WithContext
  BY DEF CreateFails, FirstSetup, SetUp, Callback, WithContext, IInv
<1>2. /\ c \in Addrs /\ ~ctx[c].done
      /\ ctx'[c].live = ctx[c].live /\ ctx'[c].prec = Null /\ ctx'[c].done
      /\ ctx'[c].info = ctx[c].info
      /\ \A b \in Addrs \ {c} : ctx'[b] = ctx[b]
  BY <1>1, NotCreated
<1>3. c \in LiveCtx /\ ctx[c].prec = Null /\ ctx[c].info = Null
  BY <1>1, <1>2 DEF IInv, Attached, Pointers
<1> HIDE DEF c
<1>4. \A b \in Addrs : /\ ctx'[b].live = ctx[b].live /\ ctx'[b].prec = ctx[b].prec
                       /\ ctx'[b].info = ctx[b].info /\ (ctx[b].done => ctx'[b].done)
  BY <1>2, <1>3
<1>5. /\ LiveCtx' = LiveCtx /\ LivePrec' = LivePrec /\ NodeSet' = NodeSet
      /\ WithContext' = WithContext
  BY <1>1, <1>4 DEF LiveCtx, LivePrec, NodeSet, WithContext
<1>6. \A j \in WithContext : pc[j].ctx \in Addrs /\ Prec(j)' = Prec(j)
  BY <1>1, <1>4 DEF Prec, IInv, Attached, LiveCtx
<1>7. Listed' /\ SettingUp' BY <1>1, <1>5 DEF IInv, Listed, SettingUp
<1>8. Attached' BY <1>1, <1>5 DEF IInv, Attached, WithContext
<1>9. Pointers' BY <1>1, <1>4, <1>5 DEF IInv, Pointers, LiveCtx
<1>10. Held' BY <1>1, <1>4, <1>5, <1>6 DEF IInv, Held, LiveCtx
<1>11. Ready' BY <1>1, <1>5, <1>6 DEF IInv, Ready
<1>12. SameMatrix' BY <1>1, <1>5 DEF IInv, SameMatrix
<1>13. UpToDate' BY <1>1, <1>5, <1>6 DEF IInv, UpToDate, Ready
<1>14. NoBadAccess' BY <1>1 DEF NoBadAccess
<1> QED BY <1>7, <1>8, <1>9, <1>10, <1>11, <1>12, <1>13, <1>14 DEF IInv

\* A preconditioner and diagnostics are made for a context that has neither.
LEMMA MadeIInv ==
  ASSUME IInv, TypeOK', NEW k \in Ksps, CreateAndCompute(k) \/ CreateAndThrow(k)
  PROVE  IInv'
<1> DEFINE c == pc[k].ctx
           p == NewPrec
           i == NewInfo
<1>1. /\ UNCHANGED <<opt, list, mats>>
      /\ app = "running" /\ app' \in {"running", "failed"}
      /\ CreateAndThrow(k) => app' = "failed"
      /\ TypeOK /\ k \in WithContext
      /\ CreateAndCompute(k) \/ CreateAndThrow(k)
  BY DEF CreateAndCompute, CreateAndThrow, FirstSetup, SetUp, Callback, WithContext, IInv
<1>2. /\ c \in Addrs /\ ~ctx[c].done
      /\ ctx'[c].live = ctx[c].live /\ ctx'[c].prec = p /\ ctx'[c].done
      /\ ctx'[c].info = i
      /\ \A b \in Addrs \ {c} : ctx'[b] = ctx[b]
      /\ p \in Addrs \ LivePrec
      /\ prec'[p].live /\ prec'[p].view = pc[k].op
      /\ CreateAndCompute(k) => prec'[p].fresh
      /\ \A b \in Addrs \ {p} : prec'[b] = prec[b]
      /\ i # Null => i \in Addrs \ infos
      /\ infos' = infos \cup ({i} \ {Null})
      /\ \A j \in Ksps : pc'[j].ctx = pc[j].ctx /\ pc'[j].op = pc[j].op
      /\ \A j \in Ksps \ {k} : pc'[j].up = pc[j].up
      /\ CreateAndThrow(k) => pc' = pc
  BY <1>1, Made
<1>3. /\ c \in LiveCtx /\ ctx[c].prec = Null /\ ctx[c].info = Null
      /\ \A j \in WithContext \ {k} : pc[j].ctx # c
  BY <1>1, <1>2 DEF IInv, Attached, Pointers
<1>c. c = pc[k].ctx OBVIOUS
<1> HIDE DEF c, p, i
<1>4. /\ LiveCtx' = LiveCtx /\ LivePrec' = LivePrec \cup {p} /\ NodeSet' = NodeSet
      /\ WithContext' = WithContext
  BY <1>1, <1>2 DEF LiveCtx, LivePrec, NodeSet, WithContext
<1>5. /\ Prec(k)' = p
      /\ \A j \in WithContext \ {k} : Prec(j)' = Prec(j)
  BY <1>c, <1>2, <1>3 DEF Prec, IInv, Attached, LiveCtx, WithContext
<1>6. ~pc[k].up \/ CreateAndCompute(k)
  BY <1>1 DEF CreateAndThrow, FirstSetup, SetUp
<1>7. Listed' /\ SettingUp' BY <1>1, <1>4 DEF IInv, Listed, SettingUp
<1>8. Attached' BY <1>1, <1>2, <1>4 DEF IInv, Attached, WithContext
<1>9. Pointers'
  <2>1. \A b \in LiveCtx : ~ctx'[b].done => ctx'[b].prec = Null /\ ctx'[b].info = Null
    BY <1>2 DEF IInv, Pointers, LiveCtx
  <2>2. \A b \in LiveCtx : ctx'[b].prec # Null => ctx'[b].prec \in LivePrec'
    BY <1>1, <1>2, <1>4 DEF IInv, Pointers, LiveCtx
  <2>3. \A b \in LiveCtx \ {c} : ctx'[b].prec # p
    BY <1>1, <1>2, NullFacts DEF IInv, Pointers, LiveCtx
  <2>4. \A a, b \in LiveCtx : ctx'[a].prec = ctx'[b].prec /\ ctx'[a].prec # Null => a = b
    BY <1>2, <2>3 DEF IInv, Pointers, LiveCtx
  <2>5. \A b \in LiveCtx : ctx'[b].info # Null => ctx'[b].info \in infos'
    BY <1>2 DEF IInv, Pointers, LiveCtx
  <2>6. i # Null => \A b \in LiveCtx \ {c} : ctx'[b].info # i
    BY <1>2 DEF IInv, Pointers, LiveCtx
  <2>7. \A a, b \in LiveCtx : ctx'[a].info = ctx'[b].info /\ ctx'[a].info # Null => a = b
    BY <1>2, <2>6 DEF IInv, Pointers, LiveCtx
  <2> QED BY <1>4, <2>1, <2>2, <2>4, <2>5, <2>7 DEF Pointers
<1>10. Held'
  <2>1. \A q \in LivePrec : \E j \in WithContext \ {k} : Prec(j) = q
    <3>1. Prec(k) \notin LivePrec
      BY <1>c, <1>3, NullFacts DEF Prec, LivePrec
    <3> QED BY <3>1 DEF IInv, Held
  <2>2. \A q \in LivePrec' : \E j \in WithContext' : Prec(j)' = q
    BY <1>1, <1>4, <1>5, <2>1
  <2>3. ASSUME NEW d \in infos' PROVE \E a \in LiveCtx' : ctx'[a].info = d
    <3>1. CASE d \in infos
      <4>1. PICK a \in LiveCtx : ctx[a].info = d BY <3>1 DEF IInv, Held
      <4>2. a # c BY <1>1, <1>3, <3>1, <4>1, TypeParts, NullFacts
      <4> QED BY <1>2, <1>4, <4>1, <4>2 DEF LiveCtx
    <3>2. CASE d \notin infos BY <1>2, <1>3, <1>4, <2>3, <3>2
    <3> QED BY <3>1, <3>2
  <2> QED BY <2>2, <2>3 DEF Held
<1>11. Ready'
  <2>1. \A j \in WithContext : Prec(j) \in LivePrec \/ j = k => Prec(j)' \in LivePrec'
    BY <1>4, <1>5
  <2>2. \A j \in WithContext \ {k} : ctx'[pc'[j].ctx] = ctx[pc[j].ctx]
    BY <1>2, <1>3 DEF IInv, Attached, LiveCtx, WithContext
  <2> QED BY <1>1, <1>2, <1>4, <2>1, <2>2 DEF IInv, Ready, WithContext
<1>12. SameMatrix'
  BY <1>1, <1>2, <1>4 DEF IInv, SameMatrix, LivePrec
<1>13. UpToDate'
  <2>1. ASSUME NEW j \in Ksps, j # k, pc'[j].up, ~opt.newmats
        PROVE  /\ Prec(j)' \in LivePrec'
               /\ prec'[Prec(j)'].view = pc'[j].op
               /\ prec'[Prec(j)'].fresh
    <3>1. pc[j].up /\ Prec(j) \in LivePrec /\ j \in WithContext
      BY <1>2, <2>1 DEF IInv, Ready
    <3>2. prec'[Prec(j)] = prec[Prec(j)] BY <1>2, <3>1 DEF LivePrec
    <3> QED BY <1>2, <1>4, <1>5, <2>1, <3>1, <3>2 DEF IInv, UpToDate
  <2>2. ASSUME pc'[k].up
        PROVE  /\ Prec(k)' \in LivePrec'
               /\ prec'[Prec(k)'].view = pc'[k].op
               /\ prec'[Prec(k)'].fresh
    <3>1. CreateAndCompute(k) BY <1>1, <1>2, <1>6, <2>2
    <3> QED BY <1>2, <1>4, <1>5, <3>1
  <2> QED BY <1>1, <2>1, <2>2 DEF UpToDate
<1>14. NoBadAccess' BY <1>1 DEF NoBadAccess
<1> QED BY <1>7, <1>8, <1>9, <1>10, <1>11, <1>12, <1>13, <1>14 DEF IInv

\* Steps that leave the objects alive and where they are.
LEMMA KeptObjects ==
  ASSUME IInv, app = "running", UNCHANGED <<opt, app, list, ctx, infos>>,
         \A a \in Addrs : prec'[a].live = prec[a].live,
         \A j \in Ksps : pc'[j].ctx = pc[j].ctx
  PROVE  /\ LiveCtx' = LiveCtx /\ LivePrec' = LivePrec /\ WithContext' = WithContext
         /\ \A j \in Ksps : Prec(j)' = Prec(j)
         /\ Listed' /\ SettingUp' /\ Attached' /\ Pointers' /\ Held' /\ NoBadAccess'
         /\ \A j \in WithContext : ctx'[pc'[j].ctx] = ctx[pc[j].ctx]
<1>1. /\ LiveCtx' = LiveCtx /\ LivePrec' = LivePrec /\ WithContext' = WithContext
      /\ NodeSet' = NodeSet /\ \A j \in Ksps : Prec(j)' = Prec(j)
  BY DEF LiveCtx, LivePrec, WithContext, NodeSet, Prec
<1>2. Listed' /\ SettingUp' BY <1>1 DEF IInv, Listed, SettingUp
<1>3. Attached' BY <1>1 DEF IInv, Attached, WithContext
<1>4. Pointers' BY <1>1 DEF IInv, Pointers
<1>5. Held' BY <1>1 DEF IInv, Held, WithContext
<1>6. NoBadAccess' BY DEF IInv, NoBadAccess
<1> QED BY <1>1, <1>2, <1>3, <1>4, <1>5, <1>6 DEF WithContext

LEMMA RecomputeIInv ==
  ASSUME IInv, TypeOK', NEW k \in Ksps, Recompute(k)
  PROVE  IInv'
<1>1. /\ UNCHANGED <<opt, app, list, ctx, infos, mats>> /\ app = "running" /\ TypeOK
      /\ k \in WithContext /\ Prec(k) \in LivePrec
  BY DEF Recompute, SetUp, Callback, WithContext, Usable, IInv
<1>2. /\ \A a \in Addrs : /\ prec'[a].live = prec[a].live /\ prec'[a].view = prec[a].view
                          /\ prec[a].fresh => prec'[a].fresh
      /\ prec'[Prec(k)].fresh
      /\ \A j \in Ksps : pc'[j].ctx = pc[j].ctx /\ pc'[j].op = pc[j].op
      /\ \A j \in Ksps \ {k} : pc'[j].up = pc[j].up
  BY <1>1, Recomputed
<1>3. /\ LiveCtx' = LiveCtx /\ LivePrec' = LivePrec /\ WithContext' = WithContext
      /\ \A j \in Ksps : Prec(j)' = Prec(j)
      /\ Listed' /\ SettingUp' /\ Attached' /\ Pointers' /\ Held' /\ NoBadAccess'
      /\ \A j \in WithContext : ctx'[pc'[j].ctx] = ctx[pc[j].ctx]
  BY <1>1, <1>2, KeptObjects
<1>4. Ready' BY <1>1, <1>2, <1>3 DEF IInv, Ready, WithContext
<1>5. SameMatrix' BY <1>1, <1>2, <1>3 DEF IInv, SameMatrix, LivePrec
<1>6. UpToDate'
  <2>1. ~opt.newmats => prec[Prec(k)].view = pc[k].op BY <1>1 DEF IInv, SameMatrix
  <2> QED BY <1>1, <1>2, <1>3, <2>1 DEF IInv, UpToDate, LivePrec
<1> QED BY <1>3, <1>4, <1>5, <1>6 DEF IInv

LEMMA ChangeValuesIInv ==
  ASSUME IInv, TypeOK', NEW m \in Mats, ChangeValues(m)
  PROVE  IInv'
<1>1. /\ UNCHANGED <<opt, app, list, ctx, infos, mats>> /\ app = "running" /\ TypeOK
  BY DEF ChangeValues, IInv
<1>2. /\ \A a \in Addrs : /\ prec'[a].live = prec[a].live /\ prec'[a].view = prec[a].view
                          /\ prec[a].fresh /\ prec[a].view # m => prec'[a].fresh
      /\ \A k \in Ksps : /\ pc'[k].ctx = pc[k].ctx /\ pc'[k].op = pc[k].op
                         /\ pc'[k].up => pc[k].up /\ pc[k].op # m
  BY <1>1, ValuesChanged
<1>3. /\ LiveCtx' = LiveCtx /\ LivePrec' = LivePrec /\ WithContext' = WithContext
      /\ \A j \in Ksps : Prec(j)' = Prec(j)
      /\ Listed' /\ SettingUp' /\ Attached' /\ Pointers' /\ Held' /\ NoBadAccess'
      /\ \A j \in WithContext : ctx'[pc'[j].ctx] = ctx[pc[j].ctx]
  BY <1>1, <1>2, KeptObjects
<1>4. Ready' BY <1>1, <1>2, <1>3 DEF IInv, Ready, WithContext
<1>5. SameMatrix' BY <1>1, <1>2, <1>3 DEF IInv, SameMatrix, LivePrec
<1>6. UpToDate' BY <1>1, <1>2, <1>3 DEF IInv, UpToDate, LivePrec
<1> QED BY <1>3, <1>4, <1>5, <1>6 DEF IInv

LEMMA MatricesIInv ==
  ASSUME IInv, TypeOK', NEW m \in Mats,
         DestroyMat(m) \/ \E k \in Ksps : SetOperators(k, m)
  PROVE  IInv'
<1>1. /\ UNCHANGED <<opt, app, list, ctx, prec, infos>> /\ app = "running" /\ TypeOK
      /\ opt.newmats
  BY DEF DestroyMat, SetOperators, IInv
<1>2. \A j \in Ksps : pc'[j].ctx = pc[j].ctx /\ (pc'[j].up => pc[j].up)
  <2>1. CASE DestroyMat(m) BY <2>1 DEF DestroyMat
  <2>2. CASE \E k \in Ksps : SetOperators(k, m) BY <1>1, <2>2, OperatorSet
  <2> QED BY <2>1, <2>2
<1>3. /\ LiveCtx' = LiveCtx /\ LivePrec' = LivePrec /\ WithContext' = WithContext
      /\ \A j \in Ksps : Prec(j)' = Prec(j)
      /\ Listed' /\ SettingUp' /\ Attached' /\ Pointers' /\ Held' /\ NoBadAccess'
      /\ \A j \in WithContext : ctx'[pc'[j].ctx] = ctx[pc[j].ctx]
  BY <1>1, <1>2, KeptObjects
<1>4. Ready' BY <1>1, <1>2, <1>3 DEF IInv, Ready, WithContext
<1>5. SameMatrix' /\ UpToDate' BY <1>1 DEF SameMatrix, UpToDate
<1> QED BY <1>3, <1>4, <1>5 DEF IInv

\* All that is deleted lives, and belongs to one PC only.
LEMMA DeletedOnceHolds ==
  ASSUME IInv, app \in {"running", "failed"}
  PROVE  DeletedOnce /\ LivePrec = ToDelete
<1>1. ASSUME NEW k \in WithContext, Prec(k) # Null PROVE Prec(k) \in LivePrec
  BY <1>1 DEF IInv, Attached, Pointers, Prec
<1>2. ASSUME NEW j \in WithContext, NEW k \in WithContext, j # k, Prec(j) = Prec(k)
      PROVE  Prec(j) = Null
  BY <1>2 DEF IInv, Attached, Pointers, Prec
<1>3. LivePrec \subseteq ToDelete
  BY NullFacts DEF IInv, Held, ToDelete, LivePrec
<1> QED BY <1>1, <1>2, <1>3 DEF DeletedOnce, ToDelete

LEMMA KspDestroyIInv == ASSUME IInv, TypeOK', KspDestroy PROVE IInv'
<1>1. /\ UNCHANGED <<opt, list, ctx, infos, mats>> /\ app \in {"running", "failed"} /\ TypeOK
  BY DEF KspDestroy, IInv
<1>2. DeletedOnce /\ LivePrec = ToDelete BY <1>1, DeletedOnceHolds
<1>3. app' = "closed" BY <1>2 DEF KspDestroy
<1>4. /\ \A a \in Addrs : prec'[a].live <=> prec[a].live /\ a \notin ToDelete
      /\ \A k \in Ksps : pc'[k].ctx = Null /\ ~pc'[k].up /\ pc'[k].op = pc[k].op
  BY <1>1, PcsDestroyed
<1>5. LivePrec' = {} /\ WithContext' = {} /\ LiveCtx' = LiveCtx /\ NodeSet' = NodeSet
  BY <1>1, <1>2, <1>4 DEF LivePrec, WithContext, LiveCtx, NodeSet
<1>6. Listed' /\ SettingUp' /\ Attached' BY <1>1, <1>3, <1>5 DEF IInv, Listed, SettingUp, Attached
<1>7. Pointers' BY <1>1, <1>3, <1>5 DEF IInv, Pointers
<1>8. Held' BY <1>1, <1>5 DEF IInv, Held
<1>9. Ready' /\ UpToDate' BY <1>3, <1>4 DEF Ready, UpToDate
<1>10. SameMatrix' BY <1>1, <1>4, <1>5 DEF IInv, SameMatrix
<1>11. NoBadAccess' BY <1>3 DEF NoBadAccess
<1> QED BY <1>6, <1>7, <1>8, <1>9, <1>10, <1>11 DEF IInv

LEMMA DestroyListIInv == ASSUME IInv, TypeOK', DestroyList PROVE IInv'
<1>1. /\ UNCHANGED <<opt, pc, prec, mats>> /\ app = "closed" /\ app' = "done" /\ TypeOK
      /\ infos' = infos \ {ctx[a].info : a \in NodeSet}
  BY DEF DestroyList, IInv, Listed
<1>2. /\ list'.nodes = <<>> /\ list'.size = 0
      /\ \A a \in Addrs : ctx'[a].live <=> ctx[a].live /\ a \notin NodeSet
  BY <1>1, ListDestroyed
<1>3. LiveCtx' = {} /\ NodeSet' = {} BY <1>2 DEF LiveCtx, NodeSet, IInv, Listed
<1>4. LivePrec' = {} /\ WithContext' = {} /\ infos' = {}
  <2>1. LivePrec = {} /\ WithContext = {} BY <1>1 DEF IInv, Attached
  <2>2. \A i \in infos : \E a \in NodeSet : ctx[a].info = i BY DEF IInv, Held, Listed
  <2> QED BY <1>1, <2>1, <2>2 DEF LivePrec, WithContext
<1>5. Listed' BY <1>2, <1>3 DEF Listed
<1>6. SettingUp' /\ Attached' /\ Pointers' /\ Held' /\ NoBadAccess'
  BY <1>1, <1>3, <1>4 DEF SettingUp, Attached, Pointers, Held, NoBadAccess
<1>7. \A k \in Ksps : ~pc[k].up BY <1>1 DEF IInv, Attached, Ready
<1>8. Ready' /\ UpToDate' BY <1>1, <1>7 DEF Ready, UpToDate
<1>9. SameMatrix' BY <1>1, <1>4 DEF IInv, SameMatrix
<1> QED BY <1>5, <1>6, <1>8, <1>9 DEF IInv

LEMMA StepIInv == ASSUME IInv, [Next]_vars PROVE IInv'
<1>0. TypeOK' BY StepType DEF IInv
<1>1. CASE SetupReturns BY <1>0, <1>1, AsideIInv DEF SetupReturns
<1>2. ASSUME NEW k \in Ksps, Visit(k) PROVE IInv'
  <2>1. CASE VisitNested(k) \/ VisitFails(k) \/ VisitOther(k)
    <3>1. Visiting(k) /\ NewFactory /\ list' = WithFactory(list)
      BY <2>1 DEF VisitNested, VisitFails, VisitOther
    <3>2. list'.nodes = list.nodes /\ list'.size = list.size
      BY <3>1, ListType DEF IInv
    <3> QED BY <1>0, <2>1, <3>1, <3>2, AsideIInv DEF VisitNested, VisitFails, VisitOther, Visiting
  <2>2. CASE VisitShell(k) \/ VisitShellFails(k) BY <1>0, <2>2, AppendIInv
  <2> QED BY <1>2, <2>1, <2>2 DEF Visit
<1>3. ASSUME NEW k \in Ksps, Compute(k) PROVE IInv'
  <2>1. CASE OptionsAbort(k) \/ OptionsThrow(k) \/ RecomputeThrows(k)
    BY <1>0, <2>1, AsideIInv
       DEF OptionsAbort, OptionsThrow, RecomputeThrows, FirstSetup, SetUp, Callback
  <2>2. CASE CreateFails(k) BY <1>0, <2>2, NotCreatedIInv
  <2>3. CASE CreateAndCompute(k) \/ CreateAndThrow(k) BY <1>0, <2>3, MadeIInv
  <2>4. CASE Recompute(k) BY <1>0, <2>4, RecomputeIInv
  <2>5. CASE RecomputeNothing(k)
    <3>1. k \in WithContext /\ ctx[pc[k].ctx].done /\ app = "running"
      BY <2>5 DEF RecomputeNothing, SetUp, Callback, WithContext
    <3>2. ~opt.retries /\ ~opt.newmats => Usable(k)
      BY <3>1, MatsAssumption DEF Usable, IInv, Ready, SameMatrix
    <3> QED BY <1>0, <2>5, <3>1, <3>2, AsideIInv DEF RecomputeNothing
  <2> QED BY <1>3, <2>1, <2>2, <2>3, <2>4, <2>5 DEF Compute
<1>4. ASSUME NEW k \in Ksps, Apply(k) \/ Relax(k) PROVE IInv'
  <2>1. pc[k].up /\ app = "running" BY <1>4 DEF Apply, Relax, Callback
  <2>2. ~opt.newmats => Usable(k)
    BY <2>1, MatsAssumption DEF Usable, IInv, Ready, SameMatrix
  <2>3. /\ app' \in {"running", "failed", "crashed"}
        /\ app' = "crashed" => ~Usable(k)
    BY <1>4 DEF Apply, Relax
  <2> QED BY <1>0, <1>4, <2>1, <2>2, <2>3, AsideIInv DEF Apply, Relax
<1>5. ASSUME NEW m \in Mats, ChangeValues(m) PROVE IInv' BY <1>0, <1>5, ChangeValuesIInv
<1>6. ASSUME NEW m \in Mats, DestroyMat(m) \/ \E k \in Ksps : SetOperators(k, m)
      PROVE  IInv'
  BY <1>0, <1>6, MatricesIInv
<1>7. CASE Recover BY <1>0, <1>7, AsideIInv DEF Recover
<1>8. CASE KspDestroy BY <1>0, <1>8, KspDestroyIInv
<1>9. CASE DestroyList BY <1>0, <1>9, DestroyListIInv
<1>10. CASE Finished \/ UNCHANGED vars
  <2>1. UNCHANGED vars BY <1>10 DEF Finished
  <2> QED BY <2>1 DEF vars, IInv, TypeOK, Listed, SettingUp, Attached, Pointers, Held, Ready,
        SameMatrix, UpToDate, NoBadAccess, LiveCtx, LivePrec, NodeSet, WithContext, Prec
<1> QED BY <1>1, <1>2, <1>3, <1>4, <1>5, <1>6, <1>7, <1>8, <1>9, <1>10
      DEF Next, Setup, Callbacks, Application
-----------------------------------------------------------------------------
LEMMA Inductive == Spec => []IInv
<1>1. Init => IInv BY InitIInv
<1>2. IInv /\ [Next]_vars => IInv' BY StepIInv
<1> QED BY <1>1, <1>2, PTL DEF Spec

\* The shell keeps to its types.
THEOREM ShellTypes == Spec => []TypeOK
<1>1. IInv => TypeOK BY DEF IInv
<1> QED BY <1>1, Inductive, PTL

(***************************************************************************)
(* Whatever is set up in whatever order, fails and is tried again: each    *)
(* preconditioner has one context, whose PC will delete it, and each list  *)
(* of diagnostics is one node's, until the teardown deletes them.          *)
(***************************************************************************)
THEOREM OneOwner == Spec => []Owned
<1>1. ASSUME IInv PROVE Owned
  <2>1. ASSUME NEW p \in LivePrec
        PROVE  /\ \E k \in WithContext : pc[k].ctx \in LiveCtx /\ Prec(k) = p
               /\ \A a, b \in LiveCtx : ctx[a].prec = p /\ ctx[b].prec = p => a = b
    BY <1>1, <2>1, NullFacts DEF IInv, Held, Attached, Pointers, LivePrec
  <2>2. ASSUME NEW i \in infos
        PROVE  \E a \in NodeSet : /\ ctx[a].live /\ ctx[a].info = i
                                  /\ \A b \in LiveCtx : ctx[b].info = i => a = b
    <3>1. i # Null BY <1>1, NullFacts, TypeParts DEF IInv
    <3>2. PICK a \in LiveCtx : ctx[a].info = i BY <1>1 DEF IInv, Held
    <3> QED BY <1>1, <3>1, <3>2 DEF IInv, Listed, Pointers, LiveCtx
  <2> QED BY <2>1, <2>2 DEF Owned
<1> QED BY <1>1, Inductive, PTL

(***************************************************************************)
(* An application that stops after a failure and keeps its matrices goes   *)
(* through no null or dangling pointer and has nothing deleted twice.      *)
(***************************************************************************)
THEOREM NoBadPointer == Spec => []NoBadAccess
<1>1. IInv => NoBadAccess BY DEF IInv
<1> QED BY <1>1, Inductive, PTL

(***************************************************************************)
(* What PETSc takes to be set up was computed from the present values of   *)
(* its operator, unless the application gives solvers other matrices.      *)
(***************************************************************************)
THEOREM NeverStale == Spec => []UpToDate
<1>1. IInv => UpToDate BY DEF IInv
<1> QED BY <1>1, Inductive, PTL

(***************************************************************************)
(* KSPDestroy and destroyBlastedDataList leave neither contexts nor        *)
(* preconditioners nor diagnostics, whatever has failed before.            *)
(***************************************************************************)
THEOREM TeardownComplete == Spec => []NothingLeft
<1>1. IInv => NothingLeft BY DEF IInv, NothingLeft, Attached
<1> QED BY <1>1, Inductive, PTL
=============================================================================
