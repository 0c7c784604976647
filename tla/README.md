# Verification of fishplate

fishplate runs workflows. A control plane (Go) keeps workflow definitions,
walks their graphs and hands out tasks; workers (Go) poll it for tasks over
connect-RPC, run a handler and report back; a library in TypeScript holds the
definition model, its validation and the reference walker. This directory
holds TLA+ modules translated from that source, the TLC configurations that
check them, and theorems about them checked by TLAPS.

    tlc -config MCTaskStore.cfg MCTaskStore           # one run
    tlapm TaskStoreProofs.tla                         # the proofs of a module

Paths below are relative to the repository; `cp/` stands for
`apps/controlplane/`.

## 1. The system

| Component | State | Operations | Status |
|---|---|---|---|
| Task table (`cp/internal/store/postgres.go`, `cp/migrations/002`) | rows of `tasks`: status, worker_id, result, error, created_at, deadline | CreateTask, ClaimTask, CompleteTask, FailTask, GetTenantByKeyHash | modelled: `TaskStore` |
| Dispatcher (`cp/internal/dispatcher`) | none, stamps created_at and deadline | CreateTask, ClaimTask, CompleteTask, FailTask | modelled: `TaskStore`, `Dispatch` |
| Worker API, authentication (`cp/internal/api`, `cp/internal/auth`) | none of its own; reads `api_keys` | GetTask, SubmitTaskResult, Validate | modelled: `Dispatch` |
| Worker (`apps/worker`) | handlers, worker_id, the poll in progress | New, Handle, Run, poll | modelled: `Dispatch` |
| Control plane process (`cp/cmd/server`) | the pool and the HTTP server | main | its restart only |
| Graph walker and loop guard, Go (`cp/internal/graph`) | cursor, lastNode, pendingErr, context, traversal counts | NewWalker, Next, Resolve, Check | modelled: `Walker`; compared with TypeScript: `WalkerParity` |
| CEL, Go (`cp/internal/cel`) | none | EvaluateCondition, EvaluateInput | reduced to true/false/error: `WorkflowGraph` |
| Walker and loop guard, TypeScript (`libs/workflow-core/src/graph`) | cursor, stopNodeId, pendingError, context, traversal counts | next, resolve, setBounds, check | modelled: `TsWalker` |
| CEL, TypeScript (`libs/workflow-core/src/cel`) | none | evaluateCondition, evaluateInput | reduced to true/false/error: `WorkflowGraph` |
| Definition validation, TypeScript (`graph/validator.ts`, `validation/`, `cel/validator.ts`) | queue and visited nodes of its searches | validateWorkflowGraph and its three layers | modelled: `Validation`, `GraphValidator` |
| Repository, TypeScript (`storage/repository.ts`) | `workflow_definitions`, `workflow_executions` | create, get, update: one SQL statement each | not modelled, see 7 |
| Orchestrator | `executions` table and data types only | none in the source | nothing to model |
| Admin service | a `.proto` file | none in the source | nothing to model |
| Generated code, build, deployment, seed | | | left out |

How they interact:

    worker.poll --GetTask-->  authenticate -> Dispatcher.ClaimTask -> one UPDATE (FOR UPDATE SKIP LOCKED)
                <--task-----
         handler
                --SubmitTaskResult--> authenticate -> CompleteTask | FailTask   (status = 'claimed')
                <--ok-------

A walker is a pure object driven by a host: `Next` returns a command, the host
carries it out and gives the result to `Resolve`. No code in the repository
joins a walker to the dispatcher yet; the walkers are therefore modelled with
the host as their environment.

    definition -> validateWorkflowGraph -> (stored) -> GraphWalker (TypeScript)  <-next, resolve-> host
                                                    -> Walker (Go, its port)     <-Next, Resolve-> host

What is hard in this code, and which properties are about it, is listed line by
line under `hazards` in `PROJECT.json`. In short:

- **Claims race.** Any number of GetTask calls run the claim statement at once,
  each on a snapshot of its own; rows are skipped, locked, rechecked, and handed
  back when a statement is rolled back.
- **Every call can break between its two ends.** The claim is committed before
  the answer travels; the report is sent once, its error is ignored, and
  neither the worker nor the number of updated rows is looked at.
- **Nothing gives a claimed task back.** The deadline is stored and not read.
- **The loop guard counts, refuses and shares counters in an order that
  matters**, and only some edges are subject to it.
- **Two node pointers** (`cursor`, `lastNode`): `Next` reads one, `Resolve` moves
  by the other, and the host may call them in any order.
- **The validator computes, the walker relies on it.** Two hand-written
  breadth-first searches, over an adjacency that is not the one the walker
  walks (joinNodes are left out), decide what the walker may be given.
- **One definition, two walkers.** The Go walker is a port that differs in its
  loop bound, its gates and its guard; a host that changes over must know where.

## 2. The modules

| Module | What it is |
|---|---|
| `TaskLifecycle` | abstract: a task is created once, taken by one worker, settled once |
| `TaskStore` | the table; the claim statement one row at a time |
| `TaskStoreProofs` | theorems about `TaskStore` |
| `Dispatch` | workers, calls, handlers of the API and faults, on top of `TaskStore` |
| `DispatchProofs` | theorems about `Dispatch` |
| `StrandedProofs` | the theorem about how many tasks a fault strands |
| `WorkflowGraph` | definitions, edges, conditions, shared by all that follow |
| `Walker` | the Go walker with its loop guard, one loop iteration at a time |
| `WalkerProofs` | theorems about `Walker` |
| `Validation` | abstract: which definitions are valid, with reachability by its meaning |
| `ValidationProofs` | theorems about `Validation`, and the lemmas about definitions that the modules below share |
| `GraphValidator` | how the validator decides it: its searches, one turn at a time |
| `GraphValidatorProofs` | theorems about `GraphValidator` |
| `TsWalker` | the TypeScript walker with its loop guard and bounds |
| `TsWalkerProofs` | theorems about `TsWalker` |
| `WalkerParity` | both walkers beside each other, on the same definition and results |
| `ParityProofs` | theorems about `WalkerParity` |
| `MCTaskStore`, `MCDispatch`, `MCWalker`, `MCGraphValidator`, `MCWalkerParity` | instances for TLC |

`Dispatch` extends `TaskStore`; `Walker`, `TsWalker` and `GraphValidator` extend
`Validation`; `WalkerParity` extends `TsWalker` and has an instance of `Walker`.

Operators whose comment begins with "Mutant:" are not part of the
specifications. Each is a plausible mistake in the definition that follows it;
`PROJECT.json` pairs each with the property that has to catch it.

### TaskStore

`status`, `owner`, `result`, `createdAt` are columns of `tasks`; the error
column is not kept apart, since it is written exactly when the status becomes
`failed`. `clock` is `time.Now()`, read when `Dispatcher.CreateTask` stamps the
task (`Stamp`), before `Store.CreateTask` inserts it (`Insert`). `clock` never
runs backwards; two tasks may get the same time.

`ClaimTask` is one statement in the code and five actions here, because
PostgreSQL runs the statements of different sessions side by side:
`BeginClaim` takes the statement's snapshot, `PassOver` visits the oldest
remaining row and skips it (locked, or no longer pending when rechecked),
`LockRow` locks it, `FindNone` ends without a row, `CommitClaim` writes
`claimed` and the worker id. `AbortClaims` rolls statements back. The variables
`phase`, `snapshot`, `todo` and `claim` are that statement's progress.
PostgreSQL is external: what is modelled is READ COMMITTED with row locks, as
this statement uses it. Reports (`CompleteTask`, `FailTask`) are one step: they
match one row by its key and only while it is `claimed`, and an uncommitted
claim still reads `pending`.

`excused` is a history variable: the tasks a younger one may overtake. A task
joins it when it is inserted after a claim already went past its place in the
order, or when the claim that had locked it is rolled back after another claim
had skipped it. `ClaimOrder` says these are the only two reasons, and
`EmptyMeansTaken` that only such a task can be missed by a claim that answers
"no task".

### Dispatch

`proc[w]` is where worker `w` is in `Run`/`poll`; `hold` and `answer` what it
runs and will report. `req`, `stage` and `reply` are its call: *sent* (on the
way), *admitted* (authenticated), *claiming* (statement running), *replied*
(answer on the way). Client steps and server steps are separate actions, so
that any fault can fall between them:

| Fault | In the code |
|---|---|
| `Interrupt`, then `AbandonCall` or a failed `Submit` | SIGINT cancels the context that the running poll goes on to use |
| `BreakCall`, `LoseRequest` | a connection fails, with the request before or after the server |
| `Crash` | the process dies, also by a handler that panics |
| `FailCall` | a statement ends with an error, or its request context is cancelled, and PostgreSQL has rolled it back |
| `RestartServer` | the control plane stops, without a shutdown: calls in progress fail, and of their statements PostgreSQL rolls back some and goes on with the others |
| `RevokeKey` | `revoked_at` is set between two calls |

Nothing in the source ties the end of a call to the end of its statement:
PostgreSQL may go on, keep the lock and commit or roll back later. In the model
that is `BreakCall`, `AbandonCall`, `Crash` and the calls that `RestartServer`
leaves: the client has gone on, and the rest of the call takes its steps behind
it, as slowly as it likes. `FailCall` and the calls that a restart ends are those
whose statement PostgreSQL has rolled back by then.

`faults` counts them, once for each call or process they hit. No fault begins
after `MaxFaults`; a restart counts one for each call in progress, and so may
count more. Four simplifications: a worker polls again only when the server
has finished with its broken call (with no bound on how long that takes); a
worker asks for tasks of the tenant its key belongs to (see section 6); a process
that restarts has a fresh worker_id, as `worker.New` gives it, and so is another
member of `Workers`; `SubmitTaskResult` is never sent a status that is neither
success nor error, which it would refuse (`worker_handler.go:83`).

### WorkflowGraph and Walker

A definition is a record of nodes, types, edges and their options. Limits and
priorities are whole numbers of either sign: neither language's schema rejects a
negative one (fractions, which a TypeScript `number` could be, are left out). CEL is
reduced to what the walker tells apart: a condition is true, false or cannot be
evaluated, from one context key (unset, true, false) and from the loop map. The
loop map handed to an expression is the one from before the traversal, and
reading a count that is not there is an error, as in cel-go.

`CallNext` enters the loop of `Next`; each iteration is one of `FailHere`,
`Complete`, `FollowEdge`, `RefuseEdge`, `FailToChoose`, `Panic`,
`AskToExecute`, `AskHost`, or `Exhaust` when the bound is reached. `Resolve` is
one step, as in the code. `followed` counts edge traversals for the properties
(it stops one above the limit, to be finite). With `Disciplined = TRUE` the
host calls as the tests and the design document say it does: `Next`, then
`Resolve` of what was asked, until the workflow completes or fails. With `FALSE`
it may call either function at any time. `sort.Slice` keeps the order of edges
of equal priority only while it sorts by insertion, up to 12 edges: above
`StableUpTo` edges any of those with the least priority may be chosen.

### Validation and GraphValidator

`validateWorkflowGraph` looks at three layers, each only if the one before found
nothing: the schema (`validateSchema`, written by hand), the graph, the expressions. `Validation` says what
each accepts, one operator per check: `ForksWired`, `EdgesWired`,
`TimeoutsWired`, `NoOrphans`, `DegreeOK`, `JoinsReached`, `CelOK`. `Reach` is
defined by its meaning, as what every closed set around a node contains.

`GraphValidator` is how the code computes it. The loop over orphans and
`isReachable` are the same breadth-first search; the second has a target. A turn
of the loop is `Visit` (a node is marked when it is taken from the queue, not
when it is put there) or `Meet`; `EndOrphans` and `Miss` are what follows an
empty queue, `CheckBranch` starts the search for the joinNode of a branch.
Errors are reduced to whether there is one, neighbours are queued in any order.

### TsWalker and WalkerParity

`TsWalker` has the actions of `Walker` where the code does the same, and these
differences: the loop of `next` has no bound of its own; `setBounds` puts a
walker at a branch and makes it stop at the joinNode; a result is applied to the
node at the cursor (`Throw` is the TypeError when it is not there); a gate
without a signal takes its timeoutEdge or fails (`TakeTimeout`); every edge
is asked of the loop guard (`Advance`); an absent limit falls back to the
definition's, then to 100, but 0 is a limit. Up to `MaxStray` calls are made out
of turn, each kind at any point in the host's hands.

`WalkerParity` runs both in step. A step of the pair is one that both take on
the same result (`Both`), as long as they have agreed so far. When they part,
the TypeScript walker goes on alone. `Agree` is what the host can see (whether
the walker is running, the last command, its node and its reason) and what
determines the next command without a further result (the cursor, a pending
error). `PartsOnlyWhere` says the two part only

| because of | which is |
|---|---|
| `LoopBound` | the Go loop's bound by maxIterations |
| `GuardsAdvance` | the guard of edges that leave actions, child workflows and gates, only in TypeScript |
| `GateTimesOut` | a gate resolved without an error and without the signal: TypeScript takes the timeoutEdge or fails, Go stays |
| `LimitNotPositive` | an edge at a decision with a limit of 0 or below, of its own or the definition's: TypeScript refuses it, to Go it is absent |
| `CountsDiffer` | at a decision, a loop condition on an edge that no decision takes |
| `UnstableTies` | at a decision, equal priorities among many edges |
| `IllFormed` | a definition that was not validated, at a decision without edges, a terminal node with edges, or a fork without a joinNode |
| `Unmatched` | `setBounds`, which Go lacks, or a call out of turn |

A gate that is signalled, or resolved with an error, is no reason to part.

## 3. The runs

| Run | What is asked | Bounds |
|---|---|---|
| `store` | `TypeOK`, `LockExclusive`, `ScanOrder`, `ClaimOrder`, `EmptyMeansTaken`, and that the table implements `TaskLifecycle` | 3 tasks of one tenant, 2 concurrent statements, symmetric |
| `dispatch_safety` | `DispatchTypeOK`, `HolderOwnsRow`, `RunsOnce`, `RecordsReport`, `StrandedBound`, that a stranded task stays stranded (`StrandedForGood`), and that `Dispatch` uses the table only as `TaskStore` allows (`StoreSpec`) | 2 workers (one with handlers for both tasks, one for one), 2 tasks, `MaxFaults` 1 (a restart with two calls in progress counts two): 1,270,636 states |
| `dispatch_live` | `Picked`: no fault that spares one worker leaves a task unclaimed for good; `Settles`: until a fault happens every inserted task is settled; no deadlock | 2 workers, one dependable with a handler for one task, one without handlers, 2 tasks, `MaxFaults` 1: 451,120 states |
| `validator` | `ValidatorTypeOK`, `VerdictRight`, that the searches end (`Terminates`) and that each turn gets nearer to it (`Advances`) | every definition of 3 nodes with up to 3 edges whose first node is a fork, an action or a decision and whose second a gate, an action or a decision, with each branch, joinNode and timeoutEdge; and definitions with one thing wrong: 99,176 states |
| `parity` | `TsWalkerTypeOK`, `EdgeLimits`, `SoundWhenValid`, `NextReturns`, `Finishes`, `MovesSpend`, `PartsOnlyWhere` | definitions of 3 nodes with up to 2 edges, forks and gates with every joinNode and timeoutEdge, 23 curated ones, limits of 0 and -1 among them; 1 call out of turn; `StableUpTo` is 3, in place of 12, so that a definition of 4 edges shows what 13 would: 267,006 states |
| `walker_graphs` | `SoundWhenValid`, `FollowsGraph`, `Finishes` | every definition of 3 nodes (action, decision, terminal) with up to 3 edges, conditional or not, and 8 written by hand: 595,539 states |
| `walker_anyhost` | `WalkerTypeOK`, `EdgeLimits`, `SoundWhenValid`, `NoNodeSkipped` whatever the host calls | the 8 definitions by hand, some of them valid for the TypeScript library and have decisions, a fork and a gate between them; counts up to 4: 5,803 states |
| `dispatch_swept`, `walker_default`, `walker_backedge`, `walker_gate`, `walker_loopcond` | what the documents say and the code does not do (section 6) | one small definition each |

Why these bounds are enough for what is asked. An overtaking needs three tasks
(the one locked, the older one skipped, the younger one taken) and two
statements; a race for a row needs two. One fault
falls at every point of every call of either worker, while the other worker runs
on, and a restart hits both at once; with two tasks one fault could strand both,
and strands one. In `dispatch_live` the dependable worker runs the one task or
rejects the other, each while the other task waits. That no number of
faults breaks the other safety properties of the protocol is proved. Two iterations of a cycle are enough to
exceed a limit of one, three nodes enough for a decision with a choice and a
way back. Three nodes suffice for a search that meets a node twice, by a cycle, a
self-loop or parallel ways, and for a fork whose joinNode only a branch, only
another branch, or nothing reaches. Every reason in `PartsOnlyWhere` is needed:
without any one of them TLC finds a definition among these where the walkers
part. Time is bounded without a constant: the clock moves only when a task
is created. For the safety properties the theorems below remove the bounds.

Deadlock is checked wherever the system cannot stop: in `dispatch_live` the
dependable worker polls for ever, and the table of `store` always answers one more
claim. In `dispatch_safety` both workers may have exited, and a workflow or a
validation ends.

### Fairness

`Dispatch` assumes weak fairness of three things: a dependable worker is
started; a worker that runs makes its next step (the Go scheduler is fair, the
ticker fires, a handler returns); the server makes the next step of each call
it has. Nothing is assumed of faults, of task creation, or of workers nobody
promised to start. That a handler returns is the one assumption the code cannot
guarantee: it gives handlers no time limit.

`GraphValidator` is one synchronous call: it goes on until it returns.

`Walker` and `TsWalker` assume that the loop of next runs on and that the host
keeps calling next and resolve in turn; for stray calls nothing is assumed, and
the pair is fair as the TypeScript walker is, which always goes on. `Finishes` is
claimed of the *guarded* definitions only, those without a cycle of nodes that
resolve leaves without asking the loop guard. For Go these are actions,
workflows, forks and gates; a node without outgoing edges, and a gate that is
not signalled, is such a cycle by itself. For TypeScript they are the
timeoutEdges of gates, the joinNodes of forks, and nodes without edges.
`NextReturns` needs no such condition: only decisions are walked inside `next`,
and every edge they follow is asked of the guard.

## 4. What is proved

For every set of tasks, workers, tenants and results, and every interleaving:

| Theorem (`TaskStoreProofs`) | States |
|---|---|
| `TypeCorrect` | `TypeOK` |
| `LocksExclusive` | concurrent claims hold distinct rows, pending while held |
| `ScansInOrder` | `ScanOrder` |
| `OldestFirst` | `ClaimOrder` |
| `EmptyIsHonest` | `EmptyMeansTaken` |
| `ImplementsLifecycle` | every step of the table is a step of `TaskLifecycle`, or a stutter |

The inductive invariant is `TypeOK /\ LockExclusive /\ ScanOrder /\ ClaimOrder`.
`ClaimOrder` is not inductive: a scan that is about to lock a row must already
have accounted for the older rows it no longer looks at. `ScanOrder` says that:
a free pending row which a scan has behind it (in its snapshot, or older than a
row it still has before it) is excused. Preservation goes action by action; the
interesting steps are `BeginClaim` (an older row not in the snapshot is not
pending), `PassOver` (the row passed over is locked or no longer pending),
`LockRow` (which relies on `ScanOrder` and on the row being foremost),
`Insert` and `AbortClaims`, where a row becomes free again and the definition of
`excused` has to have covered every claim that went past it.
`EmptyMeansTaken` follows from `ScanOrder` with nothing left to visit.

For every set of well-formed definitions:

| Theorem (`WalkerProofs`) | States |
|---|---|
| `TypeCorrect` | `WalkerTypeOK` |
| `LimitsKept` | `EdgeLimits`, whatever the host calls |
| `AnswersSkipNothing` | `NoNodeSkipped`, whatever the host calls |
| `NeverJumps` | `FollowsGraph`, for such a host |
| `ValidIsSoundInGo` | `SoundWhenValid`: what the TypeScript validator accepts does not fail for its form in Go, whatever the host calls |

`EdgeLimits` needs a strengthening: the count that is shared by parallel edges
is at least what any of them was followed, so that an edge the guard lets pass
was followed less than its limit. `NoNodeSkipped` is what is left of the host's
protocol when the host does not keep to it. A late or repeated answer may move the
cursor back to where the last one led, for `Resolve` goes by `lastNode` alone; it
cannot move it past a node that was never asked about. It is stated over the sets
of nodes that have with each decision all that it may choose, so that no path
has to be named, and each step is shown to stay in all of them. `NeverJumps`
needs to know that in the hands of a host that keeps to the protocol `cursor` and
`lastNode` are both the node that was asked about.
`ValidIsSoundInGo` joins the two languages: the Go walker looks at no validator,
but given a definition that one of them accepted its cursor stays on the nodes,
each of them has a type it knows, and `edges[0]` in the error of a decision is
there.

For every set of tasks, every finite set of workers and every number of faults:

| Theorem (`DispatchProofs`) | States |
|---|---|
| `DispatchTypeCorrect` | `DispatchTypeOK` |
| `UsesStore` | `StoreSpec`: every step of the protocol is a step of `TaskStore` or leaves the table alone |
| `DispatchKeepsStorePromises` | hence `ClaimOrder`, `EmptyMeansTaken` and `LifecycleSpec` hold of the protocol |
| `ReportsFindTheirRow` | `HolderOwnsRow` |
| `HandlersRunOnce` | `RunsOnce` |
| `TableRecordsReports` | `RecordsReport` |
| `StrandedStaysStranded` | `StrandedForGood`: whatever follows, a stranded task is not settled and not handed out |

The argument has three layers. `Calls` relates a worker's process, its call and
its claim statement (a statement is open exactly while the call is *claiming*; a
call that reports has a task and an outcome); with it `StoreStep` shows that
the steps map. `LockStep` of `TaskStoreProofs` then carries over. `Promise(w, t)`
says what a worker may rely on while it is offered, runs or reports `t`, and
`Record(t)` what the table says of `t`. Most steps, all faults among them, are
*quiet*: they put no task into anyone's hands and leave the table alone, and one
lemma covers them. The others are the claim's commit (a locked row is pending,
so nobody holds it), the report (its row is claimed by the reporter, so nobody
else holds it), the start and the end of a handler, and creation.

`StrandedStaysStranded` closes the other direction. A stranded task is claimed, and
no worker runs it, reports it or awaits it (`Unreached`). What remains of a dead
call or a stopped server is a statement that PostgreSQL may still finish: a report
of another task, or a claim, whose locked row is pending and so is another. None
of these reaches the stranded row; the sweeper is therefore not a refinement of
something the protocol does anyway.

| Theorem (`StrandedProofs`) | States |
|---|---|
| `FaultsStrandOneEach` | `StrandedBound`: there are at most as many stranded tasks as faults |
| `NobodyIsMissed` | until a first fault each claimed task is in a worker's hands or on its way to one |

A fault need not strand its task at once: a cancelled worker runs its handler to
the end, a call its client gave up still claims a row, a revoked key is noticed
when the report is refused. Until then the worker is *endangered*. The inductive
invariant (`Debt`) says that stranded tasks and endangered workers together are
no more than the faults: a fault endangers one worker or strands one task, a restart
strands the tasks of the calls it ends and endangers the workers of those it leaves, and an
endangered worker that strands its task is endangered no longer.

For every well-formed definition, with no machine around it:

| Theorem (`ValidationProofs`) | States |
|---|---|
| `DecisionTotal` | of any edges exactly one is tried first, by priority and then by order |
| `ReachIsPaths` | `Reach`, the least closed set, is what a path leads to |
| `ValidEndsAtTerminals` | in a valid definition the nodes without a next one are the terminal ones |
| `ValidConnects` | in a valid definition a path leads from entry to each node, and from each branch of a fork to its joinNode |

`Reach` is defined without recursion, so that the search can be proved to compute
it; `ReachIsPaths` shows that this definition is the usual one. It needs an
induction over the length of a path, and `DecisionTotal` a least edge in an order
over priorities of either sign. The induction theorems of the library cannot be
used, because they take an operator as a parameter. Both are arguments by least
counterexample instead, from what the library says of sets, that the strict subset
order on finite sets is well-founded: the first by way of `LeastNatural` (every set
of naturals that is not empty has a least element), the second with the sets of the
edges that come before an edge.

For every set of finite, well-formed definitions:

| Theorem (`GraphValidatorProofs`) | States |
|---|---|
| `TypeCorrect` | `ValidatorTypeOK` |
| `VerdictIsRight` | `VerdictRight`: the searches accept exactly what `Valid` says |
| `EveryStepAdvances` | `Advances`: every step lowers a variant |
| `SearchesAreFinite` | what the variant counts is finite: the nodes not visited, the branches to do |

The invariant of a search is the classical one: what is visited or queued can be
reached, and the neighbours of what is visited are visited or queued. With an
empty queue the visited nodes are therefore a closed set around the source, and
so all that can be reached. The other half keeps track of the checks: `valid` is
the conjunction of those done, and the branches not in `todo` have been
searched.

The variant of `Advances` is lexicographic: the stage of the validation, the
branches to do, whether a search is on, the nodes not visited, the length of the
queue. A node may be queued many times, once for each edge to it, but it takes a
node not yet visited to queue any.

For every set of well-formed definitions and every number of calls out of turn:

| Theorem (`TsWalkerProofs`) | States |
|---|---|
| `TypeCorrect` | `TsWalkerTypeOK` |
| `LimitsKept` | `EdgeLimits`, for the edges of every node |
| `ValidIsSound` | `SoundWhenValid`: what the validator accepts does not fail for its form |
| `EveryMoveSpends` | `MovesSpend`: every move along an edge uses up one of the traversals that the limits still allow |
| `CreditRunsOut` | these are finitely many |
| `DecisionsDecide` | at a decision there is no edge to choose or exactly one, and its condition is true or an error |

`ValidIsSound` is where validator and walker meet. The validator's searches are
about reachability, but the walker needs something else: that every edge, branch,
joinNode and timeoutEdge it may follow leads to a node of the definition, and
that a fork has a joinNode. `ValidParts` derives this from the checks, and the
invariant that the cursor is on a node, with no reason among those of form, is
kept by every action.

`EveryMoveSpends`, `CreditRunsOut` and `DecisionsDecide` are why the `while(true)`
of `next` ends: `Credit` is the set of traversals that are left, one element for
each edge and each time it may still be followed; a turn of the loop that does not
return takes at least one away, nothing gives one back, there are finitely many,
and a decision always has something to do. `EdgeLimits` alone would not do: it
bounds what has been followed, also where a loop goes on without following
anything.

| Theorem (`ParityProofs`) | States |
|---|---|
| `PartsForReasons` | `PartsOnlyWhere`, for every definition, number of stray calls and `StableUpTo` |
| `PairIsTsWalker` | every behaviour of the pair is one of the TypeScript walker |
| `PairKeepsPromises` | hence the invariants of `TsWalker`, and `MovesSpend`, hold of the pair |

While the walkers are together, `Together` holds: they agree, the Go walker's
`lastNode` is the node at the cursor while the host is asked (`Asked`), and their
loop guards have counted the same for the edges that leave decisions
(`Tallied`). The guards differ on all other edges, which only TypeScript counts.
The proof has two parts. A step after which they agree keeps `Together`, whatever
reasons there were to part (`AgreeKeeps`); and if none of the reasons holds, they
agree after each step that both take (`BothAgree`), because they choose the same
edge (`SameChoice`) and allow it alike (`SameLimit`).

Assumptions: the named `ASSUME`s of the modules, that is, that `None` is none of
the other values, that every task has one tenant, that a worker has one, that
`Workers` is finite, that tasks are not named like answers, and that definitions
are well-formed records (edge endpoints may be missing nodes; for the validator
their nodes are finitely many).

## 5. What is only model-checked

- Liveness, because fairness and ENABLED are beyond the prover. For some of it
  the safety part is a theorem, and what is left to TLC is that fair steps of
  a variant over finite sets come to an end:

  | Property | What is proved of it |
  |---|---|
  | `Terminates` | every step lowers a variant (`EveryStepAdvances`) that is finite (`SearchesAreFinite`) |
  | `NextReturns` | every turn that goes on spends credit (`EveryMoveSpends`), credit is finite (`CreditRunsOut`), a decision has a next step (`DecisionsDecide`) |
  | `Finishes` (TypeScript) | the moves of an answer spend credit too, but for those of `MovesFreely`, which `Guarded` excludes from cycles |
  | `Finishes` (Go) | nothing: only decisions are guarded there, and the loop bound starts anew with each call |
  | `Settles`, `Picked` | until a first fault no claimed task is missed (`NobodyIsMissed`) |
- The five divergences, which are counterexamples.

Every invariant and action property that a passing run checks is also a theorem.

## 6. Where the code and the documents differ

| Run | Document | Code |
|---|---|---|
| `dispatch_swept` | architecture, line 141: a background sweeper resets a claimed task after its deadline | the deadline is stored and never read (`dispatcher.go:36`); a lost answer strands the task |
| `walker_default` | plan, line 293, core design, line 29: `maxIterations` defaults to 100 | the default reaches the loop guard only; the loop of `Next` runs `MaxIterations` times, so 0 fails at once (`walker.go:93`); the seeded demo workflow is such a definition |
| `walker_backedge` | core design, line 364: back-edges beyond their limit emit `fail` | `advanceCursor` does not ask the guard (`walker.go:221`) |
| `walker_gate` | core design, line 77: `timeoutEdge` when the gate times out | `TimeoutEdge` is never read; the cursor stays (`walker.go:205`) |
| `walker_loopcond` | core design, line 129: the counter is incremented before `edge.when` is evaluated | conditions see the counts from before, and a missing count is an error (`walker.go:236`) |

A decision without edges fails in the TypeScript walker, as the core design says
(line 73), and panics in the Go walker, on `edges[0]` (`walker.go:255`). It is one
of the cases of `IllFormed` in the `parity` run; the validator accepts no such
definition.

The architecture document has a worker receive only tasks of the tenant its API
key belongs to (lines 30 and 92). `GetTask` and `SubmitTaskResult` validate the key
and drop the tenant that `Validate` returns (`worker_handler.go:39` and `:61`);
the claim is for the `TenantId` of the request, and a report for whatever task it
names. The shipped worker takes both values from one configuration, and the model
assumes that they agree: `WorkerTenant` is the tenant of both. No run is about it.

## 7. What is not modelled, and why

- Message formats, context payloads, error texts, logging, configuration.
- The deadline column, since nothing reads it; the absence of its reader is
  what `dispatch_swept` shows.
- PostgreSQL's crash recovery: the table is as durable as the database.
- cel-go, connect and net/http beyond how the code uses them.
- The orchestrator and the admin service, which the source does not contain.
- The TypeScript repository. Each of its methods is one SQL statement
  (`storage/repository.ts`, lines 20, 32, 37, 48, 62 and 94) and nothing in the source
  calls them. The version is the caller's, and its uniqueness is a constraint of
  the table; `updateExecution` sets what it is given, from any status to any
  other. A model would have the database's constraints for its only properties,
  and an interleaving of callers that do not exist.
- Of the validator: handlers and workflowRefs (looked up in lists of names that
  the caller gives), duplicate identifiers, and the wording of errors.
- Of the TypeScript walker: the merge of more than one key of the context, and a
  host that sets bounds with a branch of its own choosing.

## 8. Plan

Done, in this order: the task table with its abstract specification; the dispatch
protocol with its faults; the Go walker; the validator against its abstract
specification; the TypeScript walker; both walkers beside each other; the theorems
of section 4, first the safety of each machine, then what definitions and
validation mean without a machine, and the variants behind the liveness
properties. Possible next: that the rows of `tasks` are consistent whatever is
reported (`result` and `owner` are set exactly in the statuses that have them), as
a promise of `TaskLifecycle` that `TaskStore` inherits. The rest waits for code
that the repository does not have yet:

1. a sweeper that resets tasks after their deadline: it turns `dispatch_swept`
   into a liveness property and breaks `RunsOnce`, which will have to say what
   a task that is run twice may do;
2. the orchestrator, which joins a walker to the dispatcher: a composition of
   `Walker` and `Dispatch`, with executions as its state, and forks with a walker
   for each branch;
3. the repository, once the orchestrator calls it.
