----------------------------- MODULE PetscShell ------------------------------
(***************************************************************************)
(* The PETSc interface (src/blasted_petsc.cpp): the life of the contexts,  *)
(* preconditioners, factories and diagnostic lists that an application and *)
(* PETSc's callbacks create and destroy between them.                      *)
(*                                                                         *)
(* The application sets BLASTed up in a stack of solvers (KSPs), changes   *)
(* matrices, solves, and tears everything down: KSPDestroy first, then     *)
(* destroyBlastedDataList, as blasted_petsc.h:93 demands.  PETSc calls     *)
(* compute_preconditioner_blasted before a shell PC is applied and again   *)
(* after its operator has changed.  One callback is one step; everything   *)
(* runs on one thread.  A return code other than 0 and an exception both   *)
(* reach the application as a failure; abort() ends the process.           *)
(*                                                                         *)
(* Objects have addresses, taken anew when they are free; 0 is null.  The  *)
(* numbers and the timers are not modelled.                                *)
(***************************************************************************)
EXTENDS Naturals, Sequences

CONSTANTS
  Ksps,                 \* the solvers of the stack
  Root,                 \* the one given to setup_blasted_stack
  Kind,                 \* ksp |-> "shell", "bjacobi", "mg", "ksp" or "other"
  Kids,                 \* ksp |-> the solvers its PC holds, in order of visit
  Addrs,                \* addresses of the heap (bound)
  Mats,                 \* matrices (bound)
  FirstMat,             \* the operator all solvers have at first
  Types                 \* values of -blasted_pc_type, "unset" and "unknown"

ASSUME StackAssumption ==
  /\ Root \in Ksps
  /\ Kind \in [Ksps -> {"shell", "bjacobi", "mg", "ksp", "other"}]
  /\ Kids \in [Ksps -> Seq(Ksps)]
ASSUME AddrsAssumption == Addrs \subseteq Nat \ {0}
ASSUME MatsAssumption == FirstMat \in Mats

SolverTypes == Types \ {"unset", "unknown"}

ASSUME TypesAssumption == SolverTypes # {}

VARIABLES
  opt,                  \* the options and the application's habits
  app,                  \* where the application is
  todo,                 \* solvers setup_blasted_stack has still to visit
  list,                 \* the Blasted_data_list
  ctx,                  \* address |-> Blasted_data
  pc,                   \* ksp |-> its PC, as far as BLASTed has set it
  prec,                 \* address |-> preconditioner object
  infos,                \* addresses of the live PrecInfoList objects
  factories,            \* addresses of the live factories
  mats                  \* the matrices not destroyed

vars == <<opt, app, todo, list, ctx, pc, prec, infos, factories, mats>>

Null == 0

\* The types for which setupDataFromOptions reads no asynchronous parameters.
Plain == {"jacobi", "level_sgs", "none"}
Ilu == {"ilu0", "sapilu0", "async_level_ilu0"}

(***************************************************************************)
(* The type asked for, the option missing and whether diagnostics are      *)
(* wanted; whether the application goes on after a failure, and whether it *)
(* gives solvers other matrices.                                           *)
(***************************************************************************)
RunOptions == [type : Types, missing : {"nothing", "sweeps", "scaling", "init"},
               info : BOOLEAN, retries : BOOLEAN, newmats : BOOLEAN]

\* An allocation; its callers are guarded with Addrs not being used up (bound).
FirstFree(used) == CHOOSE a \in Addrs : a \notin used

LiveCtx == {a \in Addrs : ctx[a].live}
LivePrec == {a \in Addrs : prec[a].live}

Init ==
  /\ opt \in RunOptions
  /\ app = "setup"
  /\ todo = <<Root>>
  /\ list = [nodes |-> <<>>, size |-> 0, factory |-> Null, default |-> FALSE]
  /\ \E t \in SolverTypes :
       ctx = [a \in Addrs |-> [live |-> FALSE, prec |-> Null, info |-> Null,
                               factory |-> Null, type |-> t, done |-> FALSE]]
  /\ pc = [k \in Ksps |-> [ctx |-> Null, relax |-> FALSE, up |-> FALSE, op |-> FirstMat]]
  /\ prec = [a \in Addrs |-> [live |-> FALSE, view |-> FirstMat, fresh |-> FALSE, set |-> FALSE]]
  /\ infos = {}
  /\ factories = {}
  /\ mats = Mats
-----------------------------------------------------------------------------
(***************************************************************************)
(* setup_blasted_stack.  Every call, the recursive ones included, makes a  *)
(* factory and puts it in the list over the one there.                     *)
(***************************************************************************)
Visiting(k) == app = "setup" /\ todo # <<>> /\ Head(todo) = k

NewFactory == /\ factories # Addrs
              /\ factories' = factories \cup {FirstFree(factories)}
WithFactory(l) == [l EXCEPT !.factory = FirstFree(factories), !.default = TRUE]

\* A PC that holds other solvers; block Jacobi and ASM must hold just one.
VisitNested(k) ==
  /\ Visiting(k)
  /\ Kind[k] \in {"bjacobi", "mg", "ksp"}
  /\ Kind[k] = "bjacobi" => Len(Kids[k]) = 1
  /\ NewFactory
  /\ list' = WithFactory(list)
  /\ todo' = Kids[k] \o Tail(todo)
  /\ UNCHANGED <<opt, app, ctx, pc, prec, infos, mats>>

\* More than one subdomain, or an error from setting up the outer solver.
VisitFails(k) ==
  /\ Visiting(k)
  /\ Kind[k] \in {"bjacobi", "mg", "ksp"}
  /\ NewFactory
  /\ list' = WithFactory(list)
  /\ todo' = <<>>
  /\ app' = "failed"
  /\ UNCHANGED <<opt, ctx, pc, prec, infos, mats>>

VisitOther(k) ==
  /\ Visiting(k)
  /\ Kind[k] = "other"
  /\ NewFactory
  /\ list' = WithFactory(list)
  /\ todo' = Tail(todo)
  /\ UNCHANGED <<opt, app, ctx, pc, prec, infos, mats>>

\* A new node at the head of the list.  Its prectype is what the memory holds.
AppendContext(a) ==
  /\ LiveCtx # Addrs
  /\ list' = [WithFactory(list) EXCEPT !.nodes = <<a>> \o @, !.size = @ + 1]
  /\ ctx' = [ctx EXCEPT ![a] = [live |-> TRUE, prec |-> Null, info |-> Null,
                                factory |-> FirstFree(factories),
                                type |-> ctx[a].type, done |-> FALSE]]

\* The test at blasted_petsc.cpp:660.
HasRelaxation(t) == t \notin {"ilu0", "cscbgs", "none"}

\* Faulty variant of VisitShell: the PC gets the context at the list's tail.
VisitShellTail(k) ==
  /\ Visiting(k)
  /\ Kind[k] = "shell"
  /\ NewFactory
  /\ LET a == FirstFree(LiveCtx)
         nodes == <<a>> \o list.nodes
     IN  /\ AppendContext(a)
         /\ pc' = [pc EXCEPT ![k].ctx = nodes[Len(nodes)]]
  /\ todo' = Tail(todo)
  /\ UNCHANGED <<opt, app, prec, infos, mats>>

\* setup_localpreconditioner_blasted on a local matrix.
VisitShell(k) ==
  /\ Visiting(k)
  /\ Kind[k] = "shell"
  /\ NewFactory
  /\ LET a == FirstFree(LiveCtx)
     IN  /\ AppendContext(a)
         /\ pc' = [pc EXCEPT ![k].ctx = a, ![k].relax = HasRelaxation(ctx[a].type)]
  /\ todo' = Tail(todo)
  /\ UNCHANGED <<opt, app, prec, infos, mats>>

\* The matrix is distributed: the context is in the list, the PC is as it was.
VisitShellFails(k) ==
  /\ Visiting(k)
  /\ Kind[k] = "shell"
  /\ NewFactory
  /\ AppendContext(FirstFree(LiveCtx))
  /\ todo' = <<>>
  /\ app' = "failed"
  /\ UNCHANGED <<opt, pc, prec, infos, mats>>

SetupReturns ==
  /\ app = "setup"
  /\ todo = <<>>
  /\ app' = "running"
  /\ UNCHANGED <<opt, todo, list, ctx, pc, prec, infos, factories, mats>>

Visit(k) == \/ VisitNested(k) \/ VisitFails(k) \/ VisitOther(k)
            \/ VisitShell(k) \/ VisitShellFails(k)
-----------------------------------------------------------------------------
(***************************************************************************)
(* compute_preconditioner_blasted(pc)                                      *)
(***************************************************************************)
Callback(k) == app = "running" /\ pc[k].ctx # Null
SetUp(k) == Callback(k) /\ ~pc[k].up
FirstSetup(k) == SetUp(k) /\ ~ctx[pc[k].ctx].done

\* An asynchronous type is asked for, of the ones that scale or of any.
AsyncMissing(what) ==
  /\ opt.missing = what
  /\ opt.type \in IF what = "scaling" THEN SolverTypes \cap Ilu ELSE SolverTypes \ Plain

OptionsRead == /\ opt.type \in SolverTypes
               /\ \A what \in {"sweeps", "scaling", "init"} : ~AsyncMissing(what)

\* get_string_petscoptions, get_int_petscoptions and the test of the sweeps
\* call abort().
OptionsAbort(k) ==
  /\ FirstSetup(k)
  /\ opt.type = "unset" \/ AsyncMissing("sweeps") \/ AsyncMissing("init")
  /\ app' = "aborted"
  /\ UNCHANGED <<opt, todo, list, ctx, pc, prec, infos, factories, mats>>

\* What setupDataFromOptions leaves in the context.
OptionsSet(c) == [c EXCEPT !.prec = Null, !.type = opt.type, !.done = TRUE]

\* Faulty variant of OptionsThrow: the context is filled in before the test.
OptionsThrowLate(k) ==
  /\ FirstSetup(k)
  /\ opt.type = "unknown" \/ AsyncMissing("scaling")
  /\ ctx' = [ctx EXCEPT ![pc[k].ctx] = OptionsSet(@)]
  /\ app' = "failed"
  /\ UNCHANGED <<opt, todo, list, pc, prec, infos, factories, mats>>

\* solverTypeFromString and get_bool_petscoptions throw, before the context is
\* set up.
OptionsThrow(k) ==
  /\ FirstSetup(k)
  /\ opt.type = "unknown" \/ AsyncMissing("scaling")
  /\ app' = "failed"
  /\ UNCHANGED <<opt, todo, list, ctx, pc, prec, infos, factories, mats>>

\* A diagonal entry is missing, the block size is not supported, or the
\* factory throws: the context has its options and no preconditioner.
CreateFails(k) ==
  /\ FirstSetup(k)
  /\ OptionsRead
  /\ ctx' = [ctx EXCEPT ![pc[k].ctx] = OptionsSet(@)]
  /\ app' = "failed"
  /\ UNCHANGED <<opt, todo, list, pc, prec, infos, factories, mats>>

\* Faulty variant of Created: the pointer to the object is not kept.
CreatedForgotten(k, p, i) ==
  /\ ctx' = [ctx EXCEPT ![pc[k].ctx] = [OptionsSet(@) EXCEPT !.info = i]]
  /\ infos' = infos \cup ({i} \ {Null})

\* The new objects p (preconditioner) and i (diagnostics) are the context's.
Created(k, p, i) ==
  /\ ctx' = [ctx EXCEPT ![pc[k].ctx] = [OptionsSet(@) EXCEPT !.prec = p, !.info = i]]
  /\ infos' = infos \cup ({i} \ {Null})

NewPrec == FirstFree(LivePrec)
NewInfo == IF opt.info THEN FirstFree(infos) ELSE Null
HeapLeft == LivePrec # Addrs /\ infos # Addrs

\* The first computation; the object views the arrays of the PC's operator.
CreateAndCompute(k) ==
  /\ FirstSetup(k)
  /\ OptionsRead
  /\ HeapLeft
  /\ Created(k, NewPrec, NewInfo)
  /\ prec' = [prec EXCEPT ![NewPrec] = [live |-> TRUE, view |-> pc[k].op,
                                        fresh |-> TRUE, set |-> TRUE]]
  /\ pc' = [pc EXCEPT ![k].up = TRUE]
  /\ UNCHANGED <<opt, app, todo, list, factories, mats>>

\* computeLevels throws in the first computation (see LevelSchedule).
CreateAndThrow(k) ==
  /\ FirstSetup(k)
  /\ OptionsRead
  /\ opt.type \in {"level_sgs", "async_level_ilu0"}
  /\ HeapLeft
  /\ Created(k, NewPrec, NewInfo)
  /\ prec' = [prec EXCEPT ![NewPrec] = [live |-> TRUE, view |-> pc[k].op,
                                        fresh |-> FALSE, set |-> FALSE]]
  /\ app' = "failed"
  /\ UNCHANGED <<opt, todo, list, pc, factories, mats>>

\* The preconditioner of a PC can be called: it is there, and so is its matrix.
Prec(k) == ctx[pc[k].ctx].prec
Usable(k) == Prec(k) \in LivePrec /\ prec[Prec(k)].view \in mats

\* Faulty variant of Recompute: nothing is done after the first setup.
RecomputeSkipped(k) ==
  /\ SetUp(k)
  /\ ctx[pc[k].ctx].done
  /\ Usable(k)
  /\ pc' = [pc EXCEPT ![k].up = TRUE]
  /\ UNCHANGED <<opt, app, todo, list, ctx, prec, infos, factories, mats>>

\* Later calls: updatePreconditioner only.
Recompute(k) ==
  /\ SetUp(k)
  /\ ctx[pc[k].ctx].done
  /\ Usable(k)
  /\ prec' = [prec EXCEPT ![Prec(k)].fresh = TRUE, ![Prec(k)].set = TRUE]
  /\ pc' = [pc EXCEPT ![k].up = TRUE]
  /\ UNCHANGED <<opt, app, todo, list, ctx, infos, factories, mats>>

\* Async_Level_ILU0 tries the level schedule again if it has failed before.
RecomputeThrows(k) ==
  /\ SetUp(k)
  /\ ctx[pc[k].ctx].done
  /\ Usable(k)
  /\ opt.type = "async_level_ilu0"
  /\ ~prec[Prec(k)].set
  /\ app' = "failed"
  /\ UNCHANGED <<opt, todo, list, ctx, pc, prec, infos, factories, mats>>

\* The member function is called through a null or dangling pointer.
RecomputeNothing(k) ==
  /\ SetUp(k)
  /\ ctx[pc[k].ctx].done
  /\ ~Usable(k)
  /\ app' = "crashed"
  /\ UNCHANGED <<opt, todo, list, ctx, pc, prec, infos, factories, mats>>

Compute(k) ==
  \/ OptionsAbort(k) \/ OptionsThrow(k) \/ CreateFails(k)
  \/ CreateAndCompute(k) \/ CreateAndThrow(k)
  \/ Recompute(k) \/ RecomputeThrows(k) \/ RecomputeNothing(k)
-----------------------------------------------------------------------------
\* apply_local_blasted.  ILU application throws if asked for no initialization.
Apply(k) ==
  /\ Callback(k)
  /\ pc[k].up
  /\ \/ app' = IF Usable(k) THEN "running" ELSE "crashed"
     \/ opt.type \in {"ilu0", "sapilu0"} /\ app' = "failed"
  /\ UNCHANGED <<opt, todo, list, ctx, pc, prec, infos, factories, mats>>

\* relax_local_blasted.  ILU and CSC_BGS have no relaxation and throw.
Relax(k) ==
  /\ Callback(k)
  /\ pc[k].up /\ pc[k].relax
  /\ app' = IF ~Usable(k) THEN "crashed"
            ELSE IF opt.type \in Ilu \cup {"cscbgs"} THEN "failed" ELSE "running"
  /\ UNCHANGED <<opt, todo, list, ctx, pc, prec, infos, factories, mats>>

\* The application computes new entries in a matrix; PETSc notices.
ChangeValues(m) ==
  /\ app = "running"
  /\ m \in mats
  /\ prec' = [a \in Addrs |-> [prec[a] EXCEPT !.fresh = @ /\ prec[a].view # m]]
  /\ pc' = [k \in Ksps |-> [pc[k] EXCEPT !.up = @ /\ pc[k].op # m]]
  /\ UNCHANGED <<opt, app, todo, list, ctx, infos, factories, mats>>

\* KSPSetOperators with another matrix.
SetOperators(k, m) ==
  /\ opt.newmats
  /\ app = "running"
  /\ Kind[k] = "shell"
  /\ m \in mats
  /\ m # pc[k].op
  /\ pc' = [pc EXCEPT ![k].op = m, ![k].up = FALSE]
  /\ UNCHANGED <<opt, app, todo, list, ctx, prec, infos, factories, mats>>

\* MatDestroy on the last reference: no solver has the matrix any more.
DestroyMat(m) ==
  /\ opt.newmats
  /\ app = "running"
  /\ m \in mats
  /\ \A k \in Ksps : pc[k].op # m
  /\ mats' = mats \ {m}
  /\ UNCHANGED <<opt, app, todo, list, ctx, pc, prec, infos, factories>>

Recover ==
  /\ opt.retries
  /\ app = "failed"
  /\ app' = "running"
  /\ UNCHANGED <<opt, todo, list, ctx, pc, prec, infos, factories, mats>>
-----------------------------------------------------------------------------
WithContext == {k \in Ksps : pc[k].ctx # Null}
ToDelete == {Prec(k) : k \in WithContext} \ {Null}
DeletedOnce == /\ ToDelete \subseteq LivePrec
               /\ \A j, k \in WithContext : j # k /\ Prec(j) = Prec(k) => Prec(j) = Null

\* Faulty variant of KspDestroy: cleanup_blasted forgets to delete.
KspDestroyKeeps ==
  /\ app \in {"running", "failed"}
  /\ app' = "closed"
  /\ pc' = [k \in Ksps |-> [pc[k] EXCEPT !.ctx = Null, !.up = FALSE]]
  /\ UNCHANGED <<opt, todo, list, ctx, prec, infos, factories, mats>>

(***************************************************************************)
(* KSPDestroy on the root: PETSc destroys every PC of the stack and calls  *)
(* cleanup_blasted for those that BLASTed was set up in.  It deletes the   *)
(* preconditioner; the context keeps the old pointer.                      *)
(***************************************************************************)
KspDestroy ==
  /\ app \in {"running", "failed"}
  /\ app' = IF DeletedOnce THEN "closed" ELSE "crashed"
  /\ prec' = [a \in Addrs |-> [prec[a] EXCEPT !.live = @ /\ a \notin ToDelete]]
  /\ pc' = [k \in Ksps |-> [pc[k] EXCEPT !.ctx = Null, !.up = FALSE]]
  /\ UNCHANGED <<opt, todo, list, ctx, infos, factories, mats>>

NodeSet == {list.nodes[n] : n \in 1 .. Len(list.nodes)}

\* destroyBlastedDataList: the factory, then every node and its diagnostics.
DestroyList ==
  /\ app = "closed"
  /\ app' = IF list.size = Len(list.nodes) THEN "done" ELSE "failed"
  /\ factories' = IF list.default THEN factories \ {list.factory} ELSE factories
  /\ infos' = infos \ {ctx[a].info : a \in NodeSet}
  /\ ctx' = [a \in Addrs |-> [ctx[a] EXCEPT !.live = @ /\ a \notin NodeSet]]
  /\ list' = [list EXCEPT !.nodes = <<>>, !.size = 0, !.default = FALSE]
  /\ UNCHANGED <<opt, todo, pc, prec, mats>>

Finished == app \in {"aborted", "crashed", "done"} /\ UNCHANGED vars

Setup == SetupReturns \/ \E k \in Ksps : Visit(k)
Callbacks == \E k \in Ksps : Compute(k) \/ Apply(k) \/ Relax(k)
Application == \/ \E m \in Mats : ChangeValues(m) \/ DestroyMat(m)
               \/ \E k \in Ksps, m \in Mats : SetOperators(k, m)
               \/ Recover \/ KspDestroy \/ DestroyList

Next == Setup \/ Callbacks \/ Application \/ Finished

Spec == Init /\ [][Next]_vars
-----------------------------------------------------------------------------
\* Type invariant.
TypeOK ==
  /\ opt \in RunOptions
  /\ app \in {"setup", "running", "failed", "aborted", "crashed", "closed", "done"}
  /\ todo \in Seq(Ksps)
  /\ list \in [nodes : Seq(Addrs), size : Nat, factory : Addrs \cup {Null}, default : BOOLEAN]
  /\ ctx \in [Addrs -> [live : BOOLEAN, prec : Addrs \cup {Null}, info : Addrs \cup {Null},
                        factory : Addrs \cup {Null}, type : SolverTypes, done : BOOLEAN]]
  /\ pc \in [Ksps -> [ctx : Addrs \cup {Null}, relax : BOOLEAN, up : BOOLEAN, op : Mats]]
  /\ prec \in [Addrs -> [live : BOOLEAN, view : Mats, fresh : BOOLEAN, set : BOOLEAN]]
  /\ infos \subseteq Addrs
  /\ factories \subseteq Addrs
  /\ mats \subseteq Mats

(***************************************************************************)
(* No callback goes through a null or dangling pointer and nothing is      *)
(* deleted twice, if the application stops solving after a failure and     *)
(* keeps its matrices.                                                     *)
(***************************************************************************)
NoBadAccess == app = "crashed" => opt.retries \/ opt.newmats

(***************************************************************************)
(* Ownership: a live preconditioner is that of just one context, whose PC  *)
(* still exists and will delete it; a live list of diagnostics is that of  *)
(* just one node of the list, which will delete it.                        *)
(***************************************************************************)
Owned ==
  /\ \A p \in LivePrec :
       /\ \E k \in WithContext : pc[k].ctx \in LiveCtx /\ Prec(k) = p
       /\ \A a, b \in LiveCtx : ctx[a].prec = p /\ ctx[b].prec = p => a = b
  /\ \A i \in infos : \E a \in NodeSet :
       /\ ctx[a].live /\ ctx[a].info = i
       /\ \A b \in LiveCtx : ctx[b].info = i => a = b

(***************************************************************************)
(* A PC that PETSc takes to be set up has a preconditioner made of the     *)
(* present values of its operator, as long as the application changes      *)
(* values only, whatever has failed before: blasted_petsc.h:149, "Update   *)
(* the local preconditioner for a new matrix".  (Given another matrix, a   *)
(* PC goes on with a view of the one it was first set up with.)            *)
(***************************************************************************)
UpToDate ==
  \A k \in Ksps : pc[k].up /\ ~opt.newmats =>
    /\ Prec(k) \in LivePrec
    /\ prec[Prec(k)].view = pc[k].op
    /\ prec[Prec(k)].fresh

(***************************************************************************)
(* After the teardown no context, preconditioner or diagnostics are left,  *)
(* whatever has failed.  (Factories are: see SameFactory.)                 *)
(***************************************************************************)
NothingLeft == app = "done" => LiveCtx = {} /\ LivePrec = {} /\ infos = {}

(***************************************************************************)
(* blasted_petsc.cpp:594, "set the factory to use - same for each solver   *)
(* context in the tree".                                                   *)
(***************************************************************************)
SameFactory == \A a, b \in LiveCtx : ctx[a].factory = ctx[b].factory
=============================================================================
