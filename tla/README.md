# BLASTed in TLA+

BLASTed is a C++ library of preconditioners for sparse linear systems, scalar
and block, with a PETSc interface. Most of them are *asynchronous*: the threads
of an OpenMP team sweep over the rows of a triangular solve or of an incomplete
factorization, read each other's results whenever they happen to be there, and
do not wait for each other. This directory holds TLA+ models of that code, the
configurations with which TLC checks them, and proofs that TLAPS checks.

Run from here:

    tlasany M.tla                          parse a module
    tlc -workers 2 -config X.cfg M         model-check it
    tlapm M.tla                            check its proofs

Paths of the source are relative to the root of the repository.

## 1. The system

### 1.1 Components

| component | files | state | operations |
|---|---|---|---|
| Level scheduling | `src/levelschedule.cpp` | the list of levels, a dependency list per row | `computeLevels` |
| Level-scheduled preconditioners | `src/solverops_levels_sgs.cpp`, `solverops_levels_ilu0.cpp` | `levels`, `ytemp`, factors | `compute`, `apply`, `apply_relax` |
| Asynchronous triangular solves | `src/solverops_ilu0.cpp`, `solverops_sgs.cpp`, `kernels/kernels_ilu_apply.hpp`, `kernels_sgs.hpp` | `ytemp`, the result `z` | `apply` |
| Asynchronous factorization | `src/async_ilu_factor.cpp`, `async_blockilu_factor.cpp`, `kernels/kernels_ilu0_factorize.hpp` | `iluvals`, scaling | `compute` and its initializations |
| ILU positions | `src/ilu_pattern.cpp` | `posptr`, `lowerp`, `upperp` | `compute_ILU_positions_CSR_CSR` |
| Relaxations | `src/solverops_jacobi.cpp`, `relaxation_chaotic.cpp`, `solverops_sgs.cpp`, `solverops_levels_sgs.cpp` | the iterate, Jacobi's second vector | `apply_relax`, `apply` of the chaotic ones |
| Column sweeps | `CSC_BGS_Preconditioner` in `src/solverops_sgs.cpp` | block columns, `temp` | `compute`, `apply` |
| Sparse approximate inverses | `src/sai.cpp`, `solverops_sai.cpp`, `solverops_sgs_sai.cpp` | pattern of the local systems | pattern, gather, scatter |
| Reordering and scaling | `src/reorderingscaling.cpp` | permutations, scale vectors | apply and undo, on matrices and vectors |
| Solver factory, types | `src/solverfactory.cpp`, `include/solvertypes.h` | none | `create_preconditioner`, names |
| PETSc interface | `src/blasted_petsc.cpp` | list of contexts, preconditioner, factory and diagnostics of each | setup of a stack of solvers, callbacks, teardown |
| Matrices | `src/blockmatrices.ipp`, `coomatrix.cpp`, `blas/matvecs.cpp` | row pointers, column indices, values, diagonal positions | set structure, read, insert, add, scale, reorder, multiply |
| Derived structures | `src/scmatrix.cpp`, `adjacency.cpp` | block columns, rows of each column | convert |
| Storage | `include/arrayview.hpp`, `srmatrixdefs.hpp`, `src/rawsrmatrixutils.cpp` | memory blocks and who owns them | wrap, copy, move, take control, view, destroy |
| Helpers, diagnostics | `src/helper_algorithms.cpp`, `matrix_properties.cpp`, utilities | none | scan, search, sort, norms |

PROJECT.json lists all of them with their status.

### 1.2 How they interact

An application (or PETSc, through callbacks) owns the matrix. The PETSc
interface reads options and asks the factory for a preconditioner, which keeps a
*view* of the arrays of the matrix; a few classes keep a copy instead, reordered
(`ReorderedAsyncILU0`) or by columns (`CSC_BGS`), and make it again in `compute`. `compute` is called when the matrix has
changed, then `apply` any number of times. The level-scheduled classes call
`computeLevels` in their first `compute` and index rows through the result from
then on: `LevelSchedule` promises what `LevelSolve` assumes (theorem
`PreparesProblems`). The asynchronous
classes factorize and solve in parallel regions that open and close inside one
call, so two calls never overlap; everything concurrent happens between the
threads of one region, through one shared array.

### 1.3 What is hard

* **Overlapping sweeps.** Each sweep is an `omp for schedule(dynamic, chunk)
  nowait`. A thread that finds no chunk left goes on to the next sweep while
  others are in the last one: the same row may be in flight several times, and
  an old value may be stored after a newer one. No number of sweeps guarantees
  the exact result. What does hold, and when, is the main question here.
* **In-place kernels.** The array that is swept is the array that is read. That
  only works because a kernel stores once, after all its reads.
* **Levels.** Rows of a level run in any order; one wrong entry in a dependency
  list becomes a race in another file, in another call.
* **Silent preconditions.** Structural symmetry, "to be called from within a
  parallel region", options that must be present, `first_setup_done`.
* **Positions instead of searches.** Diagonal positions, offsets around them,
  permutations and their inverses, positions of blocks in other arrays: a value
  that lands one place off is a wrong number, never an error.
* **Objects with several owners.** Arrays are wrapped, moved, taken control of
  and viewed; raw matrices do not know which of their arrays they own. Contexts hang on a list that the application
  destroys, preconditioners on PCs that PETSc destroys, the factory on the list.

The properties that make each component correct are stated at the end of its
module; the places where they may bite are the hazards of PROJECT.json.

## 2. Modules

| module | models | extends / instances |
|---|---|---|
| `SparsityPattern` | patterns, their lower and upper parts, what a schedule is | |
| `GreedyLevels` | *abstract*: a division of a symmetric pattern into levels, each as long as it can be | `SparsityPattern` |
| `LevelSchedule` | `computeLevels`, statement by statement of its loops | implements `GreedyLevels` |
| `Substitution` | *abstract*: a forward and a backward substitution, row by row | `SparsityPattern` |
| `LevelSolve` | `apply` of the level-scheduled classes | implements `Substitution` |
| `AsyncApply` | `apply` of the asynchronous ILU(0) and SGS classes | |
| `IluPattern` | the products and operands of each entry of the factors | `SparsityPattern` |
| `AsyncFactor` | `compute` of the asynchronous ILU(0) classes, entry by entry | `IluPattern` |
| `ChaoticIteration` | *abstract*: what all asynchronous kernels do to a shared array, with the rounds that make it converge | |
| `ApplyRounds`, `FactorRounds` | the two above with the rounds observed | implement `ChaoticIteration` |
| `PetscShell` | the PETSc interface over a stack of solvers | |
| `Contraction` | *abstract*: a relaxation in place, in which every component may need every other, with the rounds that make it contract | |
| `Relaxation` | the loops of `apply_relax` of Jacobi, level-scheduled and asynchronous SGS, chaotic relaxation; `apply` of `CSC_BGS` | `SparsityPattern` |
| `RelaxRounds` | `Relaxation` with the rounds observed | implements `Contraction` |
| `DenseMatrix` | *abstract*: the matrix interface on a matrix of scalars | |
| `StoredMatrix` | the arrays of a matrix and the methods of `BSRMatrix` as operators | |
| `MatrixReordering` | orderings and scalings of matrices and vectors, products | `StoredMatrix` |
| `CooConversion` | Matrix Market triplets to CSR and block CSR | `MatrixReordering` |
| `ColumnStructures` | block columns, adjacency lists, approximate-inverse problems | `MatrixReordering` |
| `MatrixAssembly` | a matrix between calls, with threads that add to it | composes the last two, implements `DenseMatrix` |
| `MatrixStorage` | which object owns and frees which array | |
| `LevelProofs` | theorems about `LevelSchedule`, `LevelSolve` and the two together | |
| `StoredMatrixProofs` | theorems about the operators of `StoredMatrix`, `MatrixReordering` and `ColumnStructures` | |
| `MatrixProofs` | theorems about `MatrixAssembly` and `MatrixStorage` | extends the former |
| other `*Proofs` | theorems about the module they are named for | |
| `MC*` | instances for TLC | |

### 2.1 Numbers

No floating-point number is modelled. A component is *final* (or *exact*) when
it has the value that serial substitution (serial ILU(0)) gives; a kernel that
has read only such components stores such a one, any other store is taken to be
not final. That is the pessimistic reading: a component that is right by luck
counts as wrong, so a property that says "final" holds of the program, while a
property never says that something is *not* final. A pattern is a function from
rows to sets of columns; indices start at 0 as in the code.

### 2.2 `LevelSchedule`

Variables are the locals of `computeLevels`: `depends` (lists, kept as sets
because they are sorted and only shrink), `inode`, `levels`, and `jnode`, the
row being released. `TakeNode` is a pass of the inner `while`, `CloseLevel` its
end, `ReleaseNeighbours` a pass of the loop over the rows just placed,
`FaultyList` the exception. Nothing checks that a matrix is structurally
symmetric: the model takes any pattern, and the properties say what is promised in
which case. On a pattern that is not symmetric a call throws or adds the same
level for ever; the comment in `levelschedule.hpp` does not mention it.

### 2.3 `LevelSolve`

One action per event of a row: `Start`, `Read` of one operand, `Store`; and of
the loops: `EndLevel` is the implicit barrier of `omp parallel for`, `TurnBack`
the change from the upward to the downward traversal, `ReturnResult` the end of the
call (with the second scaling of the scaled ILU classes). Calls follow each
other, with new right-hand sides. The schedules are those that `computeLevels`
returns (`Prepared`); that it returns such ones is theorem `PreparesProblems`.

### 2.4 `AsyncApply` and `AsyncFactor`

`Claim` is OpenMP's dynamic scheduling: an idle thread takes the next chunk of
the sweep that is being handed out. Iterations are numbered through all sweeps
of a region; `claimed` is how many are gone, `job[t]` is what a thread holds,
and iteration `k` is row `k % N` (or `N-1-k%N` on the way down). `Begin`, `Read`
and `Store` are the kernel; in `AsyncFactor` they are about one entry, and a row
is stored entry by entry, from left to right. The team is the one thread where
the region has `if(usethreads)` and it is off, and where SGS runs its forward
sweeps outside of any region. The initializations, the exception of the ILU
application for `INIT_A_NONE`, the fall-through of `INIT_F_ZERO` and the
inversion of the diagonal blocks are as in the code.

OpenMP promises no atomicity of the plain loads and stores here. A scalar is
read and stored whole on the platforms the library is built for. A block is
not: a reader may see a part of the old and a part of the new block. If both are
exact the mixture is; otherwise the model allows the read before or after the
store, one of which counts as not exact whenever the mixture may not be. Two
stores to one block at the same time are taken in some order; a mixture of two
exact blocks is exact, but a mixture with an inexact one that the model would
store first is exact in the model and not in memory. `RootsExact`, `Converges`
and the others quantify over all orders and rest on stores of exact values only
(in the entries they speak of), so they do not depend on it.

### 2.5 `ChaoticIteration`

The argument for convergence, once for all kernels. Some thread picks a
component, reads what it needs, stores it. History variables cut a behaviour
into rounds: a round is over when every component's last store was by work begun
in the round, and no work begun before it is still going on. `front` is what the
rounds so far must have made final; `Converges` says that it is final and that
no thread is about to spoil it, `RoundsAdvance` that each round keeps the front
and adds to it. For N rows in a chain N rounds are enough. How many rounds a
given number of sweeps makes is up to the scheduler: a thread that sleeps
through all sweeps keeps the number at zero. The convergence tests
(`tests/solverops/async_*_convergence.cpp`) therefore cannot be theorems, but
they are right about every run in which no thread is left far behind.

### 2.6 `PetscShell`

The application sets BLASTed up in a tree of KSPs, solves, changes values and
matrices, may go on after failures, and tears down. One PETSc callback is one
action; each way a callback can end (returns, throws, aborts the process, calls
through a bad pointer) is an action of its own. Objects have addresses that are
used again. PETSc is modelled from how `blasted_petsc.cpp` uses it.

### 2.7 `Relaxation`, `RelaxRounds` and `Contraction`

Every relaxation is a list of OpenMP loops that is the same in every step, so
the module has one list per class (`JacobiLoops`, `LevelLoops`, ...) and one set
of actions for the team: `Claim` hands out rows (a row of a loop without
`schedule`, else the next chunk), `Proceed` lets a thread go on, at once or when
the whole team has come to the end of a loop that waits. The team is in one
region for the whole call; where the code opens one for each loop, its loops wait.
`Begin`, `Read` and `Store` are the kernel; `StoreColumn` and `Subtract` are the
column sweeps, whose second loop runs over columns and subtracts atomically from
the components above. `ToleranceMet` is the `break` of Jacobi, possible after any
step, since norms are not modelled.

A component carries the sweep that stored it, which a serial run determines
(`SerialSweep`), and a *generation*: one more than the lowest it was computed
from. In the norm of Chazan and Miranker a generation is a factor q < 1 off the
error. A component that overlaps with another store is taken in some order, as
in 2.4; since only the lowest generation counts, a mixture of two blocks is
covered by the older one. `Contraction` has the argument by itself.

`temp` of `CSC_BGS` holds what has been subtracted from each component, by sweep
and column. In one sweep the value a column takes can be too early, in several it
can also be spoiled by a late subtraction of the sweep before, which lands after
the reset. `NothingLost` is what holds in spite of this: at the end, everything
the last sweep had to subtract has been.

### 2.8 `MatrixAssembly` and its operators

Numbers matter here, so scalars are integers modulo a prime: scaling can be
undone, and a value that is added twice, lost or put elsewhere shows. A matrix is
the record of its arrays. The methods of `BSRMatrix` and of its specialization to
scalars (another code for each) are operators that list the *positions* a call
visits; `MatrixAssembly` makes calls of them. A call that several threads may make
(`updateBlock`, `updateDiagBlock`) is a list of atomic additions, made one at a
time by each thread. What the caller must respect is in the guards: the places
exist (`Fits`; a CSR matrix silently writes to other columns otherwise), no
diagonal calls on a reordered matrix, a reordering has the length of the matrix.

`Dense(m)` is what the arrays represent. The refinement maps the dense matrix to
`Dense(Completed)`: stored values with the additions on their way made. Whether
those may be made in any order, to which scalar, and whether other calls see
them is then the content of `ImplementsDense`.

The search loops of the code (which triplet changes the row, which column a block
lies in, the selection sort of `sortBlockInnerDimension`) are operators over
sequences; results of parallel loops whose iterations are independent, and of the
parallel scan, are modelled by what they compute.

`gather_lhs_matrix` of the approximate inverses asserts that a block row has as many
coefficients for an unknown as there are equations (`sai.cpp:352`). Whether a
build has assertions is the constant `Assertions` (`CMakeLists.txt:338` turns them
off for release builds): with them `GatherLhs` is `Aborted` for a row where the
assertion fails (`RunsThrough` says when it does not), without them it goes on.
`SaiExact` is about the rows for which the program goes on.

### 2.9 `MatrixStorage`

Memory blocks, objects, and for each array of an object its block and whether it
owns it. `bcolind`, `vals` and `diagind` are always handled alike and are one
array here. Each constructor, `setStructure`, move, view, copy and destruction
function is an action, for CSR and for block matrices apart where their code is:

* From a structure: `ConstructCSR` and `ConstructBlock`. The second reads `nbrows`
  before anything has set it (`blockmatrices.ipp:180`), so the matrix has no rows,
  whatever was asked for.
* Around four arrays of the caller: `WrapFourCSR` and `WrapFourBlock`. The first takes
  the number of entries from one past the end of the row pointers
  (`blockmatrices.ipp:497`): `counted` is then any of the two, and where it is false
  the matrix is not copied, which would have no bounds.
* From a raw matrix: `FromRawBlock` takes control of the arrays, `FromRawCSR` only
  wraps them. Both null their argument, so after the second nobody is left to
  free the arrays.
* Triangular views of a raw matrix have end pointers of their own, and
  `alignedDestroyCRawBSRMatrixTriangularView` frees both; the comments at
  `include/srmatrixdefs.hpp:173` and `185`, that only `browptr` needs to be deleted, are out
  of date.
* `CopyOver` is what a preconditioner that keeps a copy does when it is computed
  again.

The lengths that `ArrayView` records are left out, since only its assertions read
them. (The constructor of block matrices from a raw one records one pointer too few,
`blockmatrices.ipp:216`; a build with assertions ends when the last one is read.)

## 3. Runs

All passing runs explore their instance completely. Deadlock is checked in all
but `matrix`, which ends after its bound on calls.

| run | instance | shows |
|---|---|---|
| `level_schedule` | all 4096 patterns of 4 rows with a diagonal | symmetric ones: returns, the greedy schedule, no exception, exact lists at every step; others: no schedule is returned; on none does `front()` see an empty list |
| `level_solve_apply` | all 64 symmetric patterns of 4 rows with their schedules, SGS and scaled ILU | no race, result of serial substitution, call after call |
| `async_apply` | a chain of 4 rows, 2 threads, 3 sweeps, chunks of 1 and 3, all classes, initializations and threadings | rows without operands final (in `ytemp` also when the call throws), both solves are chaotic iterations and converge by rounds, on one thread exact, calls end |
| `async_factor` | a chain and the full pattern of 3 rows, 2 sweeps; on one thread all 16 options with chunks of 2; on 2 threads the block version warm-started, chunks of 1 and of a sweep | one thread and whole-sweep chunks: exact from every start, also after in-place inversion of the diagonal; otherwise a chaotic iteration that converges by rounds; entries without operands exact; calls return |
| `petsc` | KSP, multigrid, block Jacobi with 2 shell PCs; 6 values of the type; all missing options and failures; retries after failures, new matrices | every PC has its own context, every object one owner, nothing left after the teardown; without retries and new matrices, no bad pointer; without new matrices, a PC that is set up is up to date |
| `relax` | a chain and an arrow of 3 rows; every class on 2 threads, the overlapping ones also on one; up to 3 steps, chunks of 1 and 2 | loops that wait, and all loops on one thread, read what a serial run reads; no subtraction of a column sweep is lost; overlapping sweeps are a chaotic relaxation that contracts once per round; calls return |
| `matrix` | 3 block rows, of scalars and of 2 x 2 blocks, from four structures and three files; 2 threads; 2 calls after the first | the matrix interface acts as on a dense matrix; reordering and restoring gives the same arrays back; vectors follow; block columns, adjacency, approximate-inverse problems exact, in a build without assertions |
| `storage` | 3 objects, 7 blocks, 0 and 2 rows, scalar and block | no block is freed twice or after it was freed; no step leaves a block to nobody, but the one of `storage_csr`; row ends stay with row starts |

Runs that end in a counterexample, each a place where a comment or document and
the code disagree:

| run | what it finds |
|---|---|
| `factor_init` | `INIT_F_ZERO` of the scalar version has no `break`: the factorization starts from the matrix. The other half of `InitAsDocumented` fails as well when it is checked by itself: the scaled scalar SGS initialization looks the scale of a row up at the position of its diagonal entry. |
| `sai_assertion` | The assertion of `gather_lhs_matrix` fails unless every row that is met has all columns that are equations; a band does not. Theorem `WhenAssertionHolds` says for which matrices it holds. |
| `storage_csr` | The arrays of a raw matrix leak when a CSR matrix is made of it (`FreedOnce`), which the header says takes them over (`include/blockmatrices.hpp:339`). |
| `petsc_factory` | Contexts of one tree do not share their factory; all factories but the last are lost. |

Other things the models follow the code in, and that have no run of their own:
blocks of a block row are stored in the order in which they are met, where
`coomatrix.cpp:332` says that they end up sorted (kernels, triangular views and diagonal
offsets take sorted rows for granted, and `SortedRows` is a guard of the calls that
need it); `applyOrdering` leaves `diagind` as it was, which `include/srmatrixdefs.hpp:140`
calls the locations of the diagonal blocks; the constructors of 2.9; `first_setup_done` is set although no preconditioner could be created, and the
next setup goes through a null pointer (why `NoBadAccess` excludes `opt.retries`);
the test for relaxation comes before the type is known (`VisitShell` tests what
the memory holds); a missing `-blasted_async_sweeps` ends the process where the
user's guide promises a default (`OptionsAbort`); after `KSPSetOperators` with
another matrix the preconditioner is computed from the old one (why `UpToDate`
excludes `opt.newmats`).

Met while modelling the matrices, and outside of what the guards let a caller do:
`updateBlock` of a CSR matrix reads its buffer with the stride of rows where
`submitBlock` takes the one of columns, the same for square blocks only; the copy
constructors read the row pointers of an empty matrix; `copyRawBSRMatrix`
allocates before it throws for missing end pointers; an entry without a diagonal
leaves its diagonal position as the memory was; a row without entries shifts all
row pointers of the reader unless assertions are on (`Readable`);
`ReorderedAsyncILU0` keeps diagonal positions from before the reordering and
orders its result `FORWARD` by columns where `VectorsFollow` needs `INVERSE`,
which is the same only for a permutation that is its own inverse, such as the one
the test uses.

### 3.1 Bounds

* *Rows* (`N`): 3 and 4. Three rows in a chain are the shortest case in which a
  wrong operand makes a right one wrong two steps later; four allow levels of
  different sizes, and make a chain longer than the number of sweeps, so that a
  serial solve cannot come out right merely by repetition. The proofs remove
  this bound.
* *Sweeps, threads, chunks*: two overlapping sweeps let one old store land; the
  third lets it land after a good one. Chunks of 3 with 4 rows and of 2 with 3
  rows are cut at the border of a sweep, chunks of 3 with 3 rows are whole
  sweeps. The proofs remove these bounds too.
* *Options of `async_factor`*: the initializations differ in what the sweeps
  start from; on several threads the one is taken that leaves the old factors
  with their inverted diagonal. In the first `compute` no entry is exact then,
  which is how the other initializations start as well. The scalar version,
  whose old diagonal stays exact, is left to the one-thread options and to the
  proofs, which cover every combination.
* `MaxLevels` bounds the list of `computeLevels` on patterns where it runs away;
  `RunsAway` stutters there. Four symmetric rows have at most four levels, the
  bound of 6 is not met by them.
* `Addrs`, `Mats` of `PetscShell`: as many addresses as factories can be alive,
  and two matrices, so that one can replace the other and be destroyed. The proofs
  hold for every stack of solvers and any set of addresses, matrices and types.
* `relax`: generations are counted to `MaxGen` = 6, past the rounds three steps
  of three rows can complete. Two sweeps of SGS overlap in both directions with
  chunks of 2; chunks of 1 are left to one sweep, where the state space is
  already large. The proofs remove these bounds, and that on the steps.
* `matrix`: three block rows are the least in which a permutation differs from
  its inverse (`MCOrderings` has the 3-cycles). Two calls after the one that
  makes the matrix are the least with a reordering and its undoing, or two threads
  that add at the same time. Modulo 5, every factor but 0 has an inverse.
* `storage`: two objects can pass arrays on, a third can view them meanwhile.
  Six blocks are the least for a copy that is computed again from a matrix that
  owns its arrays. When too few are free,
  allocation is not possible. The proofs hold for any objects, blocks and numbers of rows.
* Symmetry is used in `storage` only (objects are interchangeable, and it checks
  no liveness); threads are not (`Master`).

### 3.2 Fairness

Liveness is checked for `LevelSchedule`, `LevelSolve`, `AsyncApply`,
`AsyncFactor` and `Relaxation`. Weak fairness is on the sequential steps of the calling thread
and on the work of each thread of the team (of each row, where the code runs
rows): the operating system runs every runnable thread, kernels have no locks,
and a chunk that is left is taken by whoever asks for it. Nobody is obliged to
call: `Call` of `LevelSolve` and `compute` of `AsyncFactor` may never happen
again; nor of `Relaxation`. `PetscShell`, `MatrixAssembly` and `MatrixStorage` assume
no fairness and state no liveness: their calls are those of an application.

## 4. Proofs

For every value of the constants: any number of rows, threads, sweeps, steps and
levels, any chunk size, any pattern with a full diagonal; any stack of solvers; any
number of objects and memory blocks. Assumptions are the named `ASSUME`s of the
modules: types, `Master \in Threads`, positive chunks and sweeps; in `PetscShell`,
that a stack is a function from solvers to kinds and to lists of solvers, that the
null pointer is no address and that some type of solver exists; in `MatrixStorage`
(`SizesAssumption`), that sizes are natural numbers; in `LevelSolve`
(`ProblemsAssumption`) and `Relaxation` (`RelaxProblems`), that schedules are what
`computeLevels` returns, which theorem `PreparesProblems` says they are; and, for
matrices, that a build has assertions or not (`AssertionsAssumption`), that there are finitely many threads (`ThreadsAssumption`), that every
scalar but 0 has an inverse (`ModAssumption`), that pointers
ascend from 0 and no row stores a column twice (`StructuresAssumption`), that a file
names an entry once and inside of its matrix (`FilesAssumption`), that blocks are square and as long
as their buffers (`ArgumentsAssumption`), and that orderings are permutations and
their factors not 0 (`OrderingsAssumption`).

* **`LevelProofs`, `computeLevels`.** `TypeCorrect`; `ListsKeepTheirRow` (property
  `NoEmptyList`): no list is ever empty, on any pattern; `ScheduleCorrect`: on structurally symmetric patterns the levels are
  independent, contiguous, maximal, the exception is not reached, and a returned
  schedule covers all rows. The inductive
  invariant says what the lists hold *while* a level is being released: entries
  of rows below `jnode` are gone from later rows, all others are there
  (`ListsExact`). Without it the exception cannot be excluded and `Ready` says
  nothing about the matrix. `RefinesGreedy` follows; `ReturnsOnlyForSymmetric`
  rests on the converse, that what is gone has been found on the other side.
  `ReturnsWholeSchedule` and `SymmetricNeverThrows` are the two ways a call can
  end, stated by themselves.
* **`LevelProofs`, `apply`.** `ApplyCorrect` (race-free, only final values, result)
  and `RefinesSubstitution`. The invariant: rows of levels that are done are
  final, rows of the present level are final once stored, and unread operands
  lie in levels that are done. `NoDataRace`: a row that runs
  has no operand left to read in its own level. `PreparesProblems` closes the gap
  between the two modules: what a call of `computeLevels` returns, with its matrix,
  is a problem `LevelSolve` is assumed to be given.
* **`AsyncApplyProofs`.** `TypeCorrect`, `FrontNeverRetreats`
  and `SerialSolveIsExact`. The invariant `AInv` bounds claims by `claimed` and
  makes them disjoint; for one thread, all rows before its iteration in the
  sweep are final, after the first sweep as in it. `RootsAreFinal`: a row without
  operands is final once a solve has swept over it once, on any number of threads.
  During the sweeps the result says nothing, because the store may still be owed;
  `RootInv` says that such a row is final, or not handed out yet, or in a chunk
  that some thread has not finished. `AppliesChaotically`: each
  step of the observed application is a step of the chaotic iteration or
  stutters, the rows being the components. `SolveConverges` and `SolveAdvances`
  are then the theorems of `ChaoticIterationProofs`.
* **`ChaoticIterationProofs`.** First the arithmetic of sweeps and chunks, which
  no solver gets without help (quotient and remainder, the next row, the last
  chunk); the proofs about kernels take it from here through `INSTANCE`. Then
  `Convergence` and `EveryRoundAdvances`. The
  invariant has three parts: the front needs only itself and is settled; work
  begun in this round on a component that the front suffices for has read only
  final values so far; and such components are final once they are fresh. The
  last two are about the round that is going on, and are what makes the next
  front settled when it ends. Triangularity enters only in `EveryRoundAdvances`.
* **`AsyncFactorProofs`.** `TypeCorrect` with `FInv`, the bookkeeping of a thread
  at an entry of a row of a chunk. `RootsAreExact`: once its row is handed out,
  an entry without operands is exact or some thread has still to store it
  (`RootInv`). `InOrderExact`: all entries before the one a thread is at are
  exact, and so is all up to the last row of a claim that is done (`OrderInv`);
  it covers one thread with any chunks and many threads with whole sweeps.
  `FactorsChaotically`, `FactorizationConverges` and `FactorizationAdvances` as
  for the application, now with the entries as components; that they depend on
  each other triangularly is `OperandsTriangular`.
* **`RelaxRoundsProofs`.** `RelaxationTypes` with `RInv`, which says of a team
  member where it is: it holds rows only of a loop that is open, a row it has
  begun is one it holds, and between rows it has read nothing. That is what the mapping of
  `RelaxesChaotically` needs: steps of a kernel in place become steps of
  `Contraction`, all others stutter. `RelaxationContracts` is about `Contraction`
  itself, from `WellFormed` only: kernels read components of the problem. No
  triangularity is needed, which is what separates relaxation from the triangular
  solves: nothing becomes final, but the lowest generation never falls and rises
  in every round. The invariant says of the round that is going on: what was
  stored by work begun in it has a generation above the rounds that are complete,
  and such work has read nothing below them; older work is not worse than the
  rounds before. `RelaxationsContract` carries this over to the kernels.
  `NothingIsLost`, for at least one sweep, rests on `ColInv`: from when the last
  loop of columns is open nobody resets any more, thanks to the one barrier of
  `CSC_BGS::apply`, and each subtraction of the last sweep is made or owed, by
  a column that nobody took yet or by a thread that has not come to it.
  `SerialWhereItWaits`: Jacobi and the level-scheduled relaxations on any number
  of threads, and all relaxations and the column sweeps on one, read in every
  step what a serial run reads. `ReadsAsSerial` is not inductive, because a kernel
  compares what it reads with a sweep number that follows from the position of
  its loop alone, and nothing in the state ties the two together. `SInv` does:
  for each kind of loop it says which sweep every component is from *while* that
  loop is open. For Jacobi, the old vector is whole and the new one is the copy
  that is being made (`JacobiAt`); with levels, the levels that are done are from
  this sweep and the later ones from the last, on the way up and on the way down
  (`LevelsAt`); on one thread the same with the place in the order of the rows
  instead of the level (`SweepAt`); and for the column sweeps, `temp` of a
  component holds just the columns to the right that have been subtracted so far
  (`ColumnsAt`). `Gathered` adds that nobody holds rows of a loop that is closed,
  which is what the barrier gives. Most of the work is in the arithmetic that
  finds the step, the sweep and the level from the number of a loop (`NextLoop`,
  `Here`, `FindsSerial`).
* **`PetscShellProofs`.** For every tree of solvers and every order of callbacks,
  failures and retries: `ShellTypes`, `OneOwner`, `NoBadPointer`, `NeverStale`,
  `TeardownComplete`. The last four are one argument. The list counts its nodes,
  and these are the live contexts (`Listed`); while the stack is set up there is
  nothing but contexts (`SettingUp`); every PC has a context of its own that
  outlives it (`Attached`); what a context points to lives and belongs to it alone
  (`Pointers`), what lives is pointed to, a preconditioner by the context of a PC
  that still exists (`Held`); a PC that is set up, and one whose options have been
  read, has a preconditioner (`Ready`); and as long as the application keeps its
  matrices, all views are of the first one (`SameMatrix`). Each part is needed by another: a teardown that deletes
  each preconditioner once rests on `Attached`, that no node is left behind on
  the count in `Listed`, and that callbacks find a preconditioner on `Ready`,
  the second half of which holds only if nobody goes on after a failure.
* **`MatrixProofs`, storage.** `NoSecondFree` (property `FreedAtMostOnce`),
  `OnlyOneWayToLeak` (`NothingElseLeaks`) and `EndsStayWithStarts` (`EndsFollow`).
  The blocks are shared out: no two objects free the same one, and if no CSR
  matrix is ever made of a raw one, every one that is allocated is freed by some
  object (`SharedOut`); `NeitherLeakNorDoubleFree` is that, with the hypothesis
  `1 \notin RawBlockSizes`. Sharing alone is not inductive, since steps wrap the row
  ends anew and so forget whether they were owned. `Shape` adds what makes it safe: a
  matrix of `ArrayView`s owns its row ends only as a triangular view, and a raw matrix
  that is freed whole has them in the block of its row starts. That a step leaks
  nothing (`Tidy`) needs the same two facts and is proved along with them.

* **`StoredMatrixProofs`, reordering.** What `reorderScale` and its relatives compute, for
  every matrix, block size, ordering and scaling. An order of a row's
  positions by their new columns is found as a fixed point of the selection the
  code makes (`Nth`, `Ordered`: the k-th smallest of a finite set), and everything
  else follows from which old entry each new position holds (`EntriesFollow`).
  `ReorderingUndone`: the inverse of a reordering gives back every array; it needs
  rows that are sorted, because the inverse sorts. `RestoredStructure`: it gives
  back the structure also when the values have been changed meanwhile, which is
  what a call between the two may do. `MovedBack` is the same for vectors, and
  `ProductsFollow` relates the two: sums over the columns of a row are the same
  sums in another order.
* **`StoredMatrixProofs`, columns and approximate inverses.** Lists of lists, one
  behind the other, are where the prefix sums of their lengths say (`JoinedFacts`,
  from which all of `ColumnStructures` follows, whose arrays are such lists). So
  the columns name every entry once, with its row, from the top (`ListedFacts`):
  the entries of a row, taken column by column, are a renaming of `Row(m, i)`, and
  the sum over them is the same sum (`ProductThroughColumns`). For an approximate
  inverse, `GathersRow` says what the pattern lists for an unknown: just the
  entries of its block row that have an equation, each with its place among them. Since no
  column is stored twice, the entry gathered for an equation and an unknown is the
  scalar of the matrix there, transposed, or zero where it stores none
  (`GatheredEntry`), and the scattered solution has zeros beside the blocks of the
  row (`ScatteredEntry`). A sum over all columns is then one over the columns of
  the row (`SumOverSupport`), and these are the unknowns renamed:
  `EquationIsProduct`, for any equations that list no column twice and any solution,
  in every row for which the program goes on. With assertions these are the rows of
  `WhenAssertionHolds`: an unknown has a coefficient for each block of its row
  among the equations (`CoefficientCount`), so there are as many as equations just
  when each row that is met has all of those columns.
* **`MatrixProofs`, assembly.** `LoadedDense`: what is read from a file is a
  sound matrix - no column of a row twice, all places inside of the arrays, and
  diagonal blocks where `diagind` says - and has exactly the entries of the file,
  for CSR and for blocks.
  `DiagonalEntries`: the offsets around the diagonal that `updateDiagBlock` uses
  reach the rows and columns of the block, given sorted rows that have them
  (`Fits`). `MatrixStaysSound` is the inductive invariant `MatrixInv` of the whole
  module. That a matrix is sound (`Sound`) is not inductive: while it is reordered,
  `diagind` still has the positions from before, so `Found` fails, and the undoing
  is correct only if the matrix is what the reordering left behind. `MatrixInv`
  therefore says of a reordered matrix that there is one from before, sound and
  with sorted rows, of whose reordering it has the structure (`Reordered`), and
  that a copy that is still good is that very matrix (`CopyReordered`). Of the
  threads it says that every addition under way names a place of the matrix
  (`Pending`), and that nothing is under way while there is a good copy.
  `RestoredAsBefore` (property `Restored`) and `VectorsFollowMatrix` (property
  `VectorsFollow`) follow.
* **`MatrixProofs`, derived structures.** `ColumnsStayExact` (property
  `ColumnsExact`) and `SaiStaysExact` (property `SaiExact`). Besides `MatrixInv`
  they need that what was derived is from the matrix as it is, `DerivedInv`: every
  call that may change the matrix drops it, nobody adds to the matrix while there
  is any, and it is never from a matrix that is reordered, which need not be
  sound. The rest is `StoredMatrixProofs`; that the equations of both
  approximate inverses list no column twice and have the row's own
  (`AreEquations`) follows from sorting a set for the full one and from `Distinct`
  for the incomplete one, given the diagonal blocks.
* **`MatrixProofs`, refinement.** `MatrixImplementsDense`: `MatrixAssembly`
  implements `DenseMatrix` (property `ImplementsDense`). Everything goes through
  one relation, `Holds`: place `k` of block `jj` is the scalar of this row and
  column. In a matrix that stores no column of a row twice no scalar has two
  places (`HoldsOnce`), so that `Dense` is a function of the stored values alone
  (`DenseFacts`) and a step that changes every value by a rule changes every
  scalar by it (`DenseChanged`). For a block that is set or added it is left to
  show that the places of the call are those of the scalars of the block and that
  each is visited once with its entry of the buffer (`Exact`): by rows and columns
  in CSR, where the search for the next column stops at consecutive ones, by
  blocks otherwise (`FittingExact`, `FittingDiagonal`). The threads' additions are
  a fold over the set of threads of folds over their lists; what it adds to a place is the
  sum of what each of them owes to it (`ThreadsAdd`), so making the first addition of a
  list changes nothing (`OneMade`) and a new list adds its block (`ListTaken`).
  `DenseMoved` says the same of `reorderScale`. For its inverse the abstract step
  runs backwards: reordering again what was restored gives what there was before
  (`InverseMoved`), also when values were changed in between; this needs the
  invariant that the structure is that of a sorted matrix reordered
  (`Reordered`), and `OrderPassed`, that what is undone was passed by the caller.

Recursion and folds are no operators a prover can use by themselves. The proofs
about sums, scans and sorted lists go by the least counterexample instead: the
least number (`MinFacts`), or the least size of a set, of which a
fact fails, which the well-ordering of the naturals gives for a set defined by
that fact.

Type invariants and facts that a stronger checked property implies
(`LevelsIndependent`, `OnlyFinalValues`, `FrontAdvances`, and `RoundsAdvance` of the
application, where the run checks `Converges`) are proved and not checked again by a run.

Only model-checked: all liveness (`Terminates`, `Returns`, `Ends`, and that
`ImplementsGreedy` never stops short), because fairness and `ENABLED` are out of the
prover's reach. Every other property of a passing run is a theorem. The products
of `ColumnsExact` and the solutions of `SaiExact` are with fixed numbers, which is
enough for TLC to tell the entries apart; `ProductThroughColumns` and
`EquationIsProduct` say the same for any.

## 5. Not modelled

* Floating-point arithmetic, norms, `matrix_properties.cpp` and the diagnostics:
  nothing a finite model tells apart.
* File parsing, option parsing, timers, printing, build files and scripts.
* Code outside of the repository: MC64, PETSc beyond the calls made to it, Eigen's
  solvers. The SAI preconditioner classes are stubs or unfinished.
* `ReorderedAsyncILU0` as a class (its parts are in `MatrixReordering`,
  `MatrixStorage` and `AsyncFactor`), `compute` of level-scheduled classes after it
  has thrown, a second setup of BLASTed on the same solver: see the hazards.
* Constructor arguments of the factory's classes: which value lands in which
  parameter is fixed at compile time.
* Mixed representations: all instances of the library are `double` and `int`, and
  no index of a matrix that fits in memory overflows.

## 6. Plan

What could follow, in this order:

1. `IluPositions`: the two-pass fill of `posptr`, `lowerp`, `upperp`, which
   implements the sets of `IluPattern`; proof that each product is found once.
2. Proof that the products of `IluPositions` are those of the factorization, once
   they are modelled.
3. Life of a preconditioner: `compute` that throws and is called again
   (`Level_SGS`, `Async_Level_ILU0`), composed with `LevelSchedule`;
   `ReorderedAsyncILU0` composed from its parts.
