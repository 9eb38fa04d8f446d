# Verification of CADGenesis-LM

This directory holds TLA+ models of the stateful parts of the package
`cadgenesis` (`src/src/cadgenesis/`), the TLC configurations that check them, and
theorems about them whose proofs TLAPS checks. Paths below are relative to that
package unless they start with `src/` or `docs/`.

CADGenesis-LM is a large package (a language model for CAD with its training,
serving, agent, governance and marketplace layers). Most of it is tensor code, data
schemas, parsers and reports, which keep no state from one call to the next. The
models are about the rest: the objects that outlive a call, are shared by threads or
written to files, and promise something over several calls; and the few algorithms
whose result has a definition of its own (decoding, ordering, resolving).

Contents:

1. [Parts and how they interact](#1-parts-of-the-system-and-how-they-interact)
2. [Modules and the code they model](#2-modules-and-the-code-they-model)
3. [Runs](#3-runs-what-is-checked-and-what-it-shows)
4. [Findings](#4-where-the-code-and-its-documents-disagree)
5. [Proofs](#5-proofs)
6. [Only model-checked, and not modelled](#6-what-is-only-model-checked-and-what-is-not-modelled)
7. [Plan](#7-plan)

How to run: `tlc -config MCDesign_all.cfg MCDesign` for a model (the name of a
configuration starts with the name of its module), `tlapm DesignProofs.tla` for a
proof module.

## 1. Parts of the system and how they interact

### Concurrency, failure and persistence in this code

Five patterns recur, and the models are built around them.

*A lock around the data and calls outside of it.* The batcher, the event bus, the
runner, the shared memory and the alert manager hold a `threading.Lock`, `RLock` or
`Condition` while they touch their own fields and release it before they call a
client's function (dispatch, handler, node, listener). What was read under the lock is
used after it. In the models a critical section is one step and everything between
two of them is a step of its own.

*No lock at all.* The plugin manager, the coordinator with its task scheduler, the
dynamic scheduler and the workflow orchestrator's worker share dictionaries between threads without one. A step
is then what happens between two reads or writes of what is shared.

*A whole file rewritten after each change.* The model registry, the credit ledger, the
contributor registry and the dataset marketplace hold dictionaries in memory and
rewrite a JSON file as the last part of a call. The write can raise with the memory
already changed; the process can die between the rename of one file and the write of
the next; the constructor takes a file it cannot read for an empty one. The checkpoint
manager writes, ranks and deletes files in turn; the memory log appends lines under a
lock file. In the models memory and file are two variables, a write is a step that can
fail, and the process can die and restart.

*A gate that moves on by one.* The approval and promotion pipelines keep a current
stage and a history and are driven by calls that come late, twice or out of order.

*A structure that is edited freely and walked later.* Vocabularies, task graphs,
feature trees and parameter tables take any edit and are expected to give a sound
order or assignment whatever the edits left behind.

No part of the package talks to another one over a network with its own protocol; the
REST, gRPC and websocket front ends hand requests to the objects below.

### Inventory

For each part: its state, its operations, its partners, what is hard, and what makes
it correct. The full list, with the parts that are not modelled, is in `PROJECT.json`
under `components`; the lines where each hazard bites are under `hazards`.

| Part | State | Operations | Interacts with | Hard | Correct when |
|---|---|---|---|---|---|
| `serving/batching.py` `DynamicBatcher` | pending list, stopped flag, one worker thread, a Future per request | `submit`, `_run`, `_execute`, `shutdown` | created and shut down by `serving/api.py`; calls the injected `dispatch`, there a greedy decoding of each payload by the loaded engine | worker, submitters, cancelling clients and several `shutdown()` calls; Condition with two kinds of wait | every accepted request is settled once, by one thread; shutdown ends |
| `inference/engine.py`, `eagle.py` decoders | the sequence, the cache, the draft of a round, the confidences | greedy search with and without a cache, `sample`, n-gram and EAGLE speculation | called by the batcher's dispatch | a cache and a sequence that must agree; a draft accepted up to a point; the end token inside a draft | a faster decoder gives what the plain one gives |
| `memory/persistence.py` log | lines, lock file, the stores in memory | `append`, `replay`, `truncate_log` | several processes on one directory | a process dies, or a write fails half-way, under the lock file | what `append()` acknowledged is replayed |
| `autonomous_platform/orchestrator.py` | stages, results, errors, checkpoints, status | `register_stage`, `execute_workflow`, `pause_workflow`, `resume_workflow` | the stages' functions | registration and control calls during a run | an order that respects the dependencies; the status tells how the stages ended |
| `cad/features/base.py`, `cad/parametric/parameters.py` | features with their references; parameters with their expressions | `add`, `remove`, `execution_order`; `set`, `remove`, `resolve` | the builders of parts | dangling names and circles; an expression that has no value for the values there are | parents first; parameters after what they use, and a reason for those without a value |
| `platform/registry.py` `ModelRegistry` | versions, aliases, deployment records; `index.json` | `register`, `set_alias`, `promote`, `rollback`, `get`, `deployment_history` | used by `cli/deploy.py`, `platform/sdk.py` and `serving/api.py` | failed write, crash around the rename, unreadable index, hand-named versions | the log explains what runs, what was acknowledged survives |
| `serving/lifecycle.py` `ModelLifecycle` | the served model of each name | `load` (also a reload), `unload`, `get`, `engine` | the handlers of `serving/api.py` | reload or unload between a request's admission and its use of the engine; a failed reload | a reload that succeeds is seen by no request |
| `tokenizer/vocabulary.py` `CADVocabulary`; restore in `cad_tokenizer.py` | tokens, ids, next slot of each family's range | `register`, `remove_token`, `trim_unused`, `migrate_layout`, `save`, `load`, `restore_vocab_tokens` | checkpoints and weights name tokens by id | slots given back, pinned ids, other layouts, a registration during a migration | no two tokens share an id; ids survive |
| `training/checkpoint.py` `CheckpointManager` | files, ranking, last path, `meta.json` | `save`, `save_best`, `cleanup_checkpoints`, `resume_from` | the trainer | deaths between write, ranking, deletion and `meta.json` | what is ranked best, and what resuming names, is on disk |
| `continual_learning/adapter_isolation.py` | flags of the parameters, saved flags of each task | `isolate`, `release` | continual training | overlapping tasks released in any order | only an active task's parameters move; the model comes back |
| `agents/event_bus.py` `EventBus`, `SharedEventStore` | heap, subscriptions, response buffers, store | `publish`, `flush`, `subscribe`, `unsubscribe`, `request`, `respond`, `replay` | the agents' handlers, which call the bus again | handlers run outside the lock and re-enter; several threads drain one heap; filters raise | each event is stored and delivered once; responses reach their request |
| `agents/scheduling.py` `TaskGraph`, `DAGScheduler` | graph, statuses, retries, deadlines | `add`, `add_dependency`, `run` | the tasks' functions | retries against deadlines; one reading of the clock per batch; repeated runs | every outcome has its reason; `run()` returns |
| `agents/scheduling.py` `DynamicScheduler` | list of submitted tasks, running flag | `submit`, `run` | the tasks' functions | submission during a run; two runs at once | a run executes and counts what it found |
| `agents/coordinator.py`, `agents/scheduler.py` | tasks and statuses; a list per call | `submit`, `step`, `next_tasks`, `mark_*`, `run_batch`, `run_all` | the coordinator calls the scheduler and the agents | threads read and write status after status, each with a list of its own; `step()` writes "ready" over what a task has become; agents that raise | tasks come in the order of their dependencies, none forgotten |
| `agents/shared_memory.py` `LayeredSharedMemory` | regions with capacity and time to live, listeners, a mirror | `set`, `remove`, `clear`, `get`, `on_change` | agents | eviction; listeners and mirror called after the lock | copies are never older than a write that was over |
| `autonomous_research/runner.py` `AutomatedExperimentRunner` | execution status, node status, results, checkpoints, errors; a thread pool | `run_experiment`, `cancel_execution`, `pause_execution`, `resume_execution` | takes its order from the edges in `experiment_planner.py` and its inputs from the dependencies; calls the nodes' functions | worker writes the status without the lock that control calls hold; edges and dependencies that disagree | inputs are there, checkpoints and outcome are true, every run ends |
| `autonomous_research/approval.py` `HumanApprovalPipeline` | stage, requests, decision history, pending request | `create_experiment`, `submit_for_approval`, `record_decision`, `request_changes` | reviewers | late and repeated decisions, re-created experiment | a rejection is final, no stage is left without an approval |
| `research_lab/promotion.py` `SafePromotionPipeline` | stage, stage history, results, approvals | `create_pipeline`, `advance_stage`, `submit_*_results`, `submit_approval` | the laboratories | stages skipped, states outside the chain | history climbs to the current stage |
| `platform/config.py` `ConfigStore` | merged values, digests of the sources, callbacks | `reload`, `watch`, `on_change` | everything | files and environment change during a reload; a reload that raises half way | the listeners know what is in force |
| `platform/plugins.py` `PluginManager` | discovered manifests, active plugins | `discover`, `load`, `load_all`, `unload` | loaded code | activation that fails, circles, several threads, no lock | an active plugin has its dependencies beside it |
| `monitoring/alerts.py` `AlertManager` | rules, last firing, history | `evaluate`, `add_rule`, `remove_rule` | monitors in several threads | cooldown tested and set outside the lock | one alert per cooldown |
| `collaboration/compute_credits.py` `ComputeCreditLedger` | balances, usage records, grants; three files | `add_credits`, `deduct_credits`, `record_usage`, `create_grant` | contributors and agents | two or three file writes in one call; amounts of any sign | no deduction overdraws; usage records and cut-off calls explain the balances |
| `collaboration/contributors.py`, `dataset_marketplace.py` | contributors and records; datasets; a file for each | `register`, `update`, `delete`, `add_contribution`, `verify_contribution`, export and import; `publish_dataset`, `update_dataset`, `add_version` | publishing asks and credits the contributor registry | two locks in turn, with a deletion between them; writes that raise and leave memory ahead of the files; deaths between files; files that cannot be read | every dataset has its owner's record, every record its contributor and its dataset, every contributor an email of their own |
| `trust/` `TrustLayer`, `ExperimentLedger` | signed records chained by hashes | `create_record`, `verify_chain`, `export_records`, `import_records` | provenance objects, which it shares with the program | a payload changed after it was signed; imports | the chain has no gap |
| all other packages | none between calls, or plain maps | | | | |

Interactions that are modelled: the batcher with its submitters, the function it
dispatches to and its closers; handlers with the bus that calls them; the runner's
pool with the calls that control it; the coordinator with the task scheduler it drives
and the agents that raise; the marketplace with the contributor registry it asks and
credits; the served model with the request handlers of the API; the vocabulary with
the tokenizer's restore; each file-backed object with its files and with the next
process. Beyond these the modelled objects do not call one another and share no
state.

## 2. Modules and the code they model

| Module | Models | Checked by | Proofs in |
|---|---|---|---|
| `FutureService` | nothing in the code: what the batcher promises its clients | refined by `DynamicBatcher` | |
| `DynamicBatcher` | `serving/batching.py`, class `DynamicBatcher` | `MCDesign` | `DesignProofs` |
| `GreedySearch` | nothing in the code: what every decoder promises | refined by `Decoding` | |
| `Decoding` | decoders of `inference/engine.py` and `inference/eagle.py` | `MCDesign` | `DesignProofs` |
| `MemoryLog` | the log of `memory/persistence.py` | `MCDesign` | `DesignProofs` |
| `WorkflowOrchestrator` | `autonomous_platform/orchestrator.py` | `MCDesign` | `DesignProofs` |
| `CadTree` | `cad/features/base.py`, `cad/parametric/parameters.py` | `MCDesign` | `CadProofs` |
| `ModelRegistry` | `platform/registry.py`, class `ModelRegistry` | `MCModels` | `ModelsProofs` |
| `ServingLifecycle` | `serving/lifecycle.py` and the handlers of `serving/api.py` | `MCModels` | `ModelsProofs` |
| `Vocabulary` | `tokenizer/vocabulary.py`, `restore_vocab_tokens` of `cad_tokenizer.py` | `MCModels` | `ModelsProofs` |
| `CheckpointRetention` | `training/checkpoint.py`, class `CheckpointManager` | `MCModels` | `ModelsProofs` |
| `TaskIsolation` | `continual_learning/adapter_isolation.py` | `MCModels` | `ModelsProofs` |
| `EventBus` | `agents/event_bus.py`, classes `EventBus` and `SharedEventStore` | `MCEventBus` | `EventBusProofs` |
| `ExperimentRunner` | `autonomous_research/runner.py`, class `AutomatedExperimentRunner`, and `get_execution_order` of `experiment_planner.py` | `MCResearch` | `ResearchProofs` |
| `ApprovalPipeline` | `autonomous_research/approval.py`, class `HumanApprovalPipeline` | `MCResearch` | `ResearchProofs` |
| `PromotionPipeline` | `research_lab/promotion.py`, class `SafePromotionPipeline` | `MCResearch` | `ResearchProofs` |
| `DagScheduler` | `agents/scheduling.py`, `TaskGraph` and `DAGScheduler` | `MCAgents` | `AgentsProofs` |
| `DynamicScheduler` | `agents/scheduling.py`, class `DynamicScheduler` | `MCAgents` | `AgentsProofs` |
| `TeamCoordinator` | `agents/scheduler.py` under `agents/coordinator.py` | `MCAgents` | `AgentsProofs` |
| `SharedMemory` | `agents/shared_memory.py`, class `LayeredSharedMemory` | `MCAgents` | `AgentsProofs` |
| `ConfigStore` | `platform/config.py`, class `ConfigStore` | `MCServices` | `ServicesProofs` |
| `PluginManager` | `platform/plugins.py`, class `PluginManager` | `MCServices` | `ServicesProofs` |
| `AlertManager` | `monitoring/alerts.py`, class `AlertManager` | `MCServices` | `ServicesProofs` |
| `CreditLedger` | `collaboration/compute_credits.py`, class `ComputeCreditLedger` | `MCServices` | `ServicesProofs` |
| `DatasetMarketplace` | `collaboration/contributors.py` under `dataset_marketplace.py` | `MCServices` | `ServicesProofs` |
| `TrustChain` | `trust/core.py`, with the records of the experiment ledger | `MCServices` | `ServicesProofs` |
| `DesignLayer`, `ModelLayer`, `ResearchLayer`, `AgentLayer`, `ServiceLayer` | nothing of their own: the parts above, side by side | the MC modules of the same names | the five proof modules of the same names |
| `Lists` | nothing in the code: operators on sequences that several modules share | with them | `ListProofs` (lemmas) |

`PROJECT.json` (`map`) gives for each definition the lines it stands for. A definition
whose comment begins with "Mutant" is not part of a model: it is a plausible bug in
the definition that follows it, and each property listed with a run is violated when
its mutant takes that definition's place.

**The layers drive one part at a time.** `DesignLayer`, `ModelLayer`, `ResearchLayer`,
`AgentLayer` and `ServiceLayer` each extend several component modules. Those components
share no state and do not call one another, so that the interleavings of one with
another say nothing; the variable `driven` is chosen from `Parts` in the first state,
and only that part moves from then on. The state space is the sum of the parts and not
their product, and every invariant is evaluated in all of it. That nothing is lost in
this is proved: by `DesignCompose` and its like, each behaviour of a layer is a
behaviour of every one of its parts, so what is proved of a part holds in the layer.
Components that do interact (coordinator and task scheduler, marketplace and
contributors, lifecycle and API, the experiment ledger and the trust layer it writes to)
are one module. `MCDesign`, `MCModels`, `MCResearch`, `MCAgents` and `MCServices` give
the constants of a layer their small values; the event bus stands alone, in
`MCEventBus`. The configurations of the findings reduce `Parts` to the part the
finding is about.

### DynamicBatcher

One step is one critical section of `self._lock`, or one thing done without the lock.
`submit()` is two steps: the test of `_stopped` at its head, which is outside the lock
(`SubmitCheck`), and the locked append (`SubmitAppend`), which does not look at
`_stopped` again. The worker is at the top of its loop, parked in `wait()`, in the
timed wait of a batch that is filling (`window`), in `dispatch`, resolving futures, or
gone. `set_result` is called unguarded; `set_exception` comes after a `done()` test,
and a client's `cancel()` may come between the two: hence the place `guarded`. A
future that is done makes either raise `InvalidStateError`, which nothing catches, so
the thread dies with the rest of the batch in `batch`. `shutdown()` takes the list and
wakes the worker in one step, resolves the taken futures one by one and joins with a
timeout, so that the worker may outlive it. Payloads, results and times are left out:
a window may close at any moment.

`FutureService` is the abstract specification: a service that admits requests while it
is open, gives each admitted request one Future, and completes every Future at most
once. The refinement maps `open` to `~stopped` and `admitted` to the requests whose
`submit()` passed the test. It says that no lock, list or hand-over is visible to a
client; it does not say that every future is completed, which is `EveryoneEnds`.

### Decoding

The model is a function of the ids it has seen. Its greedy choices along their own path
are fixed in the first state (`target`), every choice of them; off that path, after a
rejected guess, it may say anything, and so may the draft. A cache is the sequence of
ids that `decode_step()` was fed, a confidence the sequence it was computed after. The
full and the cached search are a step per token. An n-gram round drafts, verifies the
rows of one forward pass over sequence and draft up to the first disagreement, adds the
model's own token, and looks for the end token only when the round is over; an EAGLE
round feeds and verifies one id after the other, so that its cache never holds a refused
guess and nothing has to be rolled back. `outcome` is what the result says of the end,
`raised` included: sampling without a cache raises.

`GreedySearch` is the abstract specification: tokens come one at a time and are the
model's, nothing follows the end token, and the result says truthfully why it ended. The
refinement hides cache, draft and rounds; a round is several of its steps.

### MemoryLog

`append()` is the store's change, the lock file opened with `O_EXCL`, the log opened by
name (which file that is matters, since `truncate_log()` removes it at any time), two
halves of a line, the removal of the lock, the return. A writer waits for the lock and
gives up at a deadline. A write may raise before or after the first half, and a process
may die anywhere, leaving its lock behind. `replay()` applies lines until a broken one
raises.

### WorkflowOrchestrator

The stages are read into a graph, sorted by Kahn's algorithm one pop at a time, compared
with the stages registered *by then*, and executed. Another thread registers a stage or
replaces one at any step, and pauses or resumes with a test and a write of its own. The
settings of a stage are read again when it starts, as in the code.

### CadTree

Edits are actions: features and parameters are added, replaced and removed, with
references to names that are not there and to themselves. `execution_order()` and
`resolve()` recurse in the code; here each is a stack of the calls under way (`visits`,
`calls`), on which a step enters a name, goes on to its next reference, or returns or
raises. A part has one owner, so that edits wait for the walk to end. Whether an
expression has a value for the values of what it names is arithmetic: `broken` is any set
of parameters for which it has none (a division by zero), chosen when `resolve()` begins,
and the walk that evaluates one of them ends with `ValueError`, or with an exception that
`resolve()` does not catch (an overflow). What a walk leaves is compared with definitions that speak of reachability
only.

### ModelRegistry

One model name; the versions, aliases and log of one name never touch another's. Each
operation is one step because all of it runs under the lock, and ends in `Persist`:
the file is renamed and the call returns; or the write raises, the memory keeping what
the file lacks; or the process dies just after the rename. `Crash` is death at any
other moment. `Restart` loads the file or, when it cannot be read, nothing. A version
string is reduced to what the code compares: its first number (`parse_version`) and a
tag for the rest of its spelling. `rollback` reads the last but one *promotion* of the
environment, as line 254 does. `acked` is a ghost: what the last call that returned
had recorded.

### ServingLifecycle

`load()` holds the lock from the test of the path to the new record, in two steps since
other threads go on meanwhile; a `load_fn` or warm-up that raises leaves a record
without an engine. A request is admitted by `in lifecycle`, which takes no lock, and
asks for the engine later, under the lock and in the thread pool, where it may fail. An
engine that is replaced goes on answering whom it was given to. Engines are numbered;
`disturbed`, `retired` and `before` are ghosts.

### Vocabulary

A vocabulary is a record of layout, next slots and the family and id of each token.
Registering and removing are one step each, by the lock. `trim_unused` is a sequence of
removals. A migration builds a second vocabulary record by record while the first may
change, and the caller takes or forgets the result. `SaveAndLoad` registers again in
the order of ids; `RestartFromCheckpoint` starts from the default vocabulary and
registers what is missing under the family each name suggests.

### CheckpointRetention

`save()` is the file, the ranking with its deletion, and `meta.json`, three steps
between which the process may die; a new manager ranks nothing of what it finds.
`save_best()` and `cleanup_checkpoints()` are steps too. The order of modification times
is the order of the list.

### TaskIsolation

`isolate()` and `release()` as single calls on one model, in any order of tasks;
`saved` keeps the tasks in the order of the dictionary, with the flags each found.

### EventBus

A handler runs in the thread that popped the event and may publish, so each thread has
a stack of the methods it is inside of; a frame says which event and which
subscribers remain. Critical sections (push, pop and copy of the subscriptions, buffer
changes, store append) are one step. The bus's own `capture_response` is subscribed
first. `request()` is a loop that flushes, takes what was captured, and may time out
at each round. A filter that raises unwinds the stack to the nearest handler, since
`_deliver` swallows what a handler raises and nothing else. Topics are one, with the
kind of the event deciding whether `capture_response` gets it; `auto_flush` is either
value. `received`, `raised` and `overlap` are ghosts.

### ExperimentRunner

The worker that runs a graph never takes the lock, and both it and the control calls
write `execution.status`. A step is what happens between two accesses to that field,
or between two calls of a node's function and the checkpoint writer. `run_experiment`
lists the execution, submits it, and only then keeps the future (`handle`), so that a
cancel may find none. Control calls exclude each other (`ctl` is the call that holds
the lock) and are two steps: test or write, then write or `future.cancel()`. `End` is
the code's last lines: whatever is not FAILED becomes COMPLETED.

The graph is one of `Graphs`, none of which is assumed to be sensible: its edges may name
ids that are no nodes, and the dependencies that its nodes were constructed with
(`declared`) need not be edges. `Listings` is what Kahn's algorithm in
`get_execution_order()` may list, from the edges alone; a list whose length is not the
number of nodes ends the run as a circle would, and one that names an id which is no node
ends it with `KeyError`. The inputs of a node are the results of its dependencies *that
are there*: what is missing is passed over, as in line 123.

### ApprovalPipeline and PromotionPipeline

Each operation holds the lock and is one step. The approval history is kept as the
number of decisions of each kind per request, which is all the code computes from it.
`RecordDecision` has the order of the code: history first, then rejection, then
approvals, then `index()`, which raises for a rejected experiment with the decision
already kept. Nothing compares the stage of a request with the current one, and
nothing refuses a decision on a request that is decided. `AdvanceStage` accepts any
later stage of the list; REJECTED and ROLLED_BACK are offered as targets and are
refused, because `index()` raises before the test that would admit them.

### DagScheduler and DynamicScheduler

The graph is built by `Add` and `AddDependency`, so that every small graph is an input;
`is_acyclic()` is computed as the code computes it, with counts that a task named twice
never brings to zero. `run()` reads a batch and the clock once, then takes, skips and
attempts tasks in the order of the sort key. `DynamicScheduler.run()` is: enter, copy
the list, take a task, end it, leave the loop, return the stats; submissions and the
steps of other threads come between any two of these.

### TeamCoordinator

Neither class has a lock, so a step reads or writes one status. A thread in `run_all()`,
`run_batch()` or `step()` reads the status of each task (`ReadStatus`), then that of what
the pending ones wait for (`ReadDependency`), and has a list of its own then
(`TakeList`), which it goes through without asking again: `run_all()` and `run_batch()`
execute its tasks, `step()` writes "ready" into them one after the other, whatever has
become of them since (`StepWrites`). A task that was completed meanwhile is set back by
that, and `next_tasks()` does not offer what is ready. A submission breaks the loop of a
thread that is reading the tasks, since the dictionary changes its size. An agent's
exception leaves the call with the task still running.

### SharedMemory

`set()` is: read the clock, write and evict under the lock, call the listeners, mirror,
return. `remove()`, `clear()` and the expiry found by `get()` are steps of their own.
The n-th write stands for its value; `finished` and `earlier` are ghosts that say which
writes had returned before which began.

### ConfigStore, AlertManager

`reload()` reads the sources one by one while files and environment change, keeps each
digest before it parses, and raises at the first file that is missing or that it cannot
parse. Its last step overlays the environment and tells the listeners. `evaluate()` copies the rules and reads the clock in one step, then tests and sets each rule's last
firing in two steps without the lock.

### PluginManager

Each thread has a stack of `load()` calls. A plugin is put in the table before its
`activate()` is called; a failing activation takes it out and unwinds the whole stack,
leaving the dependencies that were loaded for it; a circle ends by the limit of the
recursion.

### CreditLedger

A call holds the lock but writes two or three files in turn: `create_grant` the
grants, then everything the balances, then the usage. `current` is the call and the
file it writes next; `WriteFails` ends the call there with its changes in memory, and
`Crash` may come between any two writes. `Restart` loads each file on its own, and
any set of them may be found unreadable. Amounts are integers of either sign, since
nothing tests them: a negative amount that is added reduces a balance, one that is
deducted raises it. `applied` is the set of calls whose amount is in a balance: the code
keeps only the sum, and `BalanceExplained` does without the set; it explains the sum by
the usage records. Accounts are of the five credit types that `CreditBalance` declares.

### DatasetMarketplace

`publish_dataset` holds the marketplace's lock, but asks the contributor registry whether
the owner is known, writes the dataset's metadata, and credits the owner under that
registry's lock, which raises if the owner was deleted meanwhile: three steps
(`BeginPublish`, `WriteMetadata`, `AddContribution`) between which the registry's own
callers go on. Every other call holds one lock from its first look at the tables to its
last write and is one step.

`email`, `credits` and `owner` are the tables in memory, `stored` is what the three files
say of them. A call changes the tables first and then rewrites a file, or two in turn; any
of these writes may raise, so that each such action has an outcome for every place where
that can happen: all files written, or only the first, or none, with the tables changed in
each case. A death of the process at the same place leaves the same files, and is such an
outcome followed by `RestartMarket`. `RestartMarket` reads the files, any set of which may
be unreadable and then counts as empty; the file stays as it is until it is written again.
A later call that rewrites a file stores with it what an earlier failed write had left out
(`RewriteContributions` and `RewriteMetadata` are the calls that do only that). Imports
compare nobody's email. The ghosts remember what the property excuses: `cutOff`, whose
last registration or deletion raised half way (it is taken back by one that does not);
`uncredited`, the datasets whose publication raised or died before it was credited and
written; `deleted`; `unread`, the files that could not be read at some start; and `mixed`,
that a backup was imported.

### TrustChain

A record keeps its payload by reference; its hash is over the payload as it was then,
so content and hash are two things (`content`, and the object with its content at that
time). `ChangeProvenance` changes the shared object, `ExportRecords` and
`ImportRecords` copy, and an import leaves out what does not verify; `Reopen` is a new
process with an empty chain. The ghost `relinked` says that records came in which do
not follow on what was there.

## 3. Runs: what is checked and what it shows

States are distinct states. Every passing run explores its whole state space.

| Run | Parts driven | States |
|---|---|---|
| `design` | batcher (98,077), decoding (53,654), memory log (15,126), workflow (116,824), features (87,198), parameters (47,990) | 418,869 |
| `models` | registry, served model, vocabulary, checkpoints, task isolation | 533,933 |
| `eventbus` | the event bus | 362,285 |
| `research` | runner, approval, promotion | 947,115 |
| `agents` | task graph, dynamic scheduler, team, shared memory | 1,266,154 |
| `services` | configuration, plugins, alerts, credits, marketplace, trust | 2,351,919 |

The other six runs are the counterexamples of section 4.

What the properties say, apart from one type invariant for each run that has several
parts with types of their own:

**design**

- `HeldByOne`: a request on its way is in the list, in the batch or with one
  `shutdown()`, never in two of them and never in none; and who holds one goes on with it:
  the worker never parks over a list or past a shutdown, and no shutdown returns with
  what it took.
- `FailsOnlyOnCancel`: the only thing that kills the worker or makes `shutdown()` raise
  is a cancelled future, so the worker and the closers never resolve the same one.
- `EveryoneEnds` (liveness): a request in the list is settled, and a shutdown stops the
  worker and returns, from any of the worker's waits: no lost wake-up.
- `ImplementsService`: the batcher refines `FutureService`.
- `ImplementsGreedy`: full, cached, n-gram and EAGLE search refine `GreedySearch`: the
  model's tokens, none after the end token, and the true reason of the end.
- `ConfidencePerToken`: the i-th confidence was computed after the i - 1 tokens before.
- `AckedReplays`: a record whose `append()` returned is read by every later `replay()`,
  unless a half-written line that raised came before it.
- `CompletedMeansDone`: the order the workflow runs is an order of its dependencies, and
  the status, results, errors and checkpoints tell how each stage ended, whoever
  registers, pauses and resumes.
- `TreeResolves`: after any edits, features come after their parents or the circle is
  reported; a parameter has a value exactly if all below it is there, free of circles and
  has a value for its expression, and a failure names no reason that is not there.

**models**

- `LogIsKept`: every environment runs the version of its last log entry, and what a
  returned call recorded survives failed writes and crashes.
- `RollbackUndoes`: after promotions only, a rollback undoes the last one.
- `ReloadIsSeamless`: an admitted request fails only if an unload or a failed load came
  between; none is given an engine that was gone when it was admitted.
- `IdsApart`: no two tokens share an id, and the next slot is free.
- `BestIsKept`: what the manager ranks is on disk, with the lowest loss among it.
- `TasksIsolated`: only what an active task owns may move; released in reverse order,
  the tasks leave the model as they found it.

**eventbus**

- `NoneLost`: the store has each published event once, and misses only those whose
  `publish()` raised; a response is queued, under way or with its request, once; and
  with `auto_flush` no event stays in the heap with nobody draining.
- `DeliveryOrder`: deliveries that do not overlap come by priority and then arrival.
- `EventuallyDelivered` (liveness): every queued event is delivered.

**research**

- `NodesGrounded`: a node is called with the results of all nodes that an edge leads from,
  and of its other dependencies it lacks only those that have not completed; between two
  nodes the checkpoints are those of the completed ones.
- `OutcomeIsTrue`: a run nobody controlled ends as its nodes did, and a task cancelled
  in the queue ran nothing.
- `VerdictsHold`: a rejection is final, and no experiment leaves the first stage without
  one request that has all its approvals; under late and repeated decisions and
  re-created experiments.
- `HistoryClimbs`: the stages of a promotion climb, and the history ends at the current.
- `EveryRunEnds` (liveness): every run ends, or was cancelled before it began.

**agents**

- `OutcomeExplained`: a task was executed with all its dependencies completed, within
  its attempts, and skipped only for its deadline or for a dependency.
- `RunServesItsTasks`: a `DynamicScheduler.run()` that returned has executed and counted
  all it found, although other threads submit and run meanwhile.
- `TasksInOrder`: whatever threads in `run_all()`, `run_batch()` and `step()` do to each
  other's lists, no task starts before what it waits for has completed once, none is lost
  but by `step()` or an agent that raised, and a completion is taken back by no other
  overlap than a stale `step()` or a task that two threads ran.
- `CopiesAreRecent`: listener and mirror never hold a write that had returned before a
  finished one began.
- `RunReturns` (liveness): `DAGScheduler.run()` ends for all retries and deadlines.

**services**

- `ListenersKnow`: the listeners were told what is in force, unless a reload raised or
  the last variable left the environment since.
- `DependenciesBeside`: an active plugin has its dependencies beside it, but for those
  unloaded or failed since its load began.
- `CooldownKept`: a rule that fired in an evaluation on its own stays quiet for the
  cooldown in every evaluation that begins later.
- `ReturnedIsRecorded`: what returned is in every ledger file that was never unreadable
  (for the five declared credit types: an amount of a sixth is never written).
- `BalanceExplained`: in the files, and in memory, each balance is the sum of the usage
  records and of calls that were cut off before their record, each counted once at most,
  as long as both files could be read at every start; without a failure there are no such
  calls.
- `RecordsAgree`: before and after every restart a dataset has its owner's record, a record
  its contributor and the owner of its dataset, and no two contributors have one email;
  each clause with the failures that it excuses named in the definition: a deletion or a
  publication that raised or died half way, a registration whose write raised, a file that
  could not be read, an import.
- `ChainUnbroken`: each trust record names the hash of the one before it.

### Bounds, and why they are enough

*batcher:* three requests and batches of two give a full batch, a partial batch, and a
batch with another request waiting behind it; two closers give two drains, the second
one of what was appended between them. *decoding:* three tokens (one of them the end
token), sequences of five and two guesses give a draft that is accepted in whole, in
part and not at all, an end token inside a draft, and a round that meets `max_len`.
*memory log:* two writers and three records leave one append behind a failed one; two
troubles are a half-written line and a death, or two deaths. *workflow:* two known
stages and a third registered late, with every graph on them; one registration during a
run is what the late comparison is about. *CAD:* three names make circles of one, two
and three and a chain with a dangling end; a feature with two references is one that is
reached by two ways, or that has a way around a circle; any of the expressions may have no
value.

*registry:* three versions with the hand-named `v2-rc` and `v3` give gaps, suffixes and
a shared first number; three log entries give two promotions and a rollback, in one
environment or split over two; two faults give a failed write followed by a crash. The
rollback finding needs five entries and has its own instance. *served model:* three
loads are a load, a reload and a failed one; two loaders overlap. *vocabulary:* three
tokens in two families of two layouts fill a family, leave a gap and migrate it.
*checkpoints:* four saves with two kept give a ranking that deletes twice. *isolation:*
three tasks on two parameters overlap in every order.

*eventbus:* three events are an event, its reaction and one that overtakes, or a
request, its response and another event; a stack of six holds a request that drains,
delivers, and publishes from the handler.

*runner:* two runs on one worker make the second one wait in the queue, where a cancel
succeeds; two control calls are pause and resume, or pause and cancel. Its graphs are two
nodes with an edge and a dependency that no edge orders, two nodes of which one has an edge
to an id that is none, and what the factory functions of the planner make: dependencies
without edges. *approval and
promotion:* the stages are the code's eight; two requests make one of them the old one,
and two decisions of a kind make one of them repeated.

*task graph:* three tasks with up to two dependencies are chains, forks, joins and
circles; one retry, two runs and a clock of one tick give a deadline that passes during
a run and a second run over failed tasks. *dynamic scheduler:* three submissions by two
threads in two calls of `run()` put a submission before, inside and after a run, and one
run inside another. *team:* two jobs and two threads, each in any of the three calls: one
thread's list is stale while the other starts or completes what is on it.
*shared memory:* one place for two keys makes every second write an eviction; three
writes are one that is over, one that overlaps and a third.

*configuration:* four edits change a file, change it back, break it and repair it.
*plugins:* three plugins are a chain or a circle, with two threads inside it. *alerts:*
a cooldown of two and four ticks let a rule fire, stay quiet and fire again, with two
evaluations. *credits:* three calls on two accounts, of a positive or a negative amount,
are a grant, a deduction from it and another call; two faults are a failed write and a
death, or two deaths with two reloads. *marketplace:* two people, two emails and one
dataset; four stops are, for instance, a registration that is not written, a restart, an
export and an import, or an export, an import that is cut off between its files, and two
restarts. (A second dataset with three stops, 778,034 states, shows nothing else.) Nothing
tells the people or the emails of this run from one another and it has no liveness
property, so that `MCSymmetry` may permute them.
*trust:* three records over two objects, one of which changes after it was signed.

The constants named `Max…` in the modules stand in guards and cut off nothing but
further calls. Each part really stops when its calls are used up, as the program does
when nobody calls it, so every configuration of a passing run switches the check for
deadlock off; that nobody waits for ever is what the liveness properties say.

### Fairness, and why the code justifies it

- `DesignFairness`: weak fairness of the batcher's worker as a whole, because the thread is
  scheduled, its timed wait ends as `time.monotonic()` grows, and `dispatch` returns;
  and of each `shutdown()` in progress. No fairness of submit, cancel or the start of a
  shutdown: nobody has to call. A parked worker has no step enabled, so that a
  forgotten `notify_all()` shows as a violation.
- `EventBus!FairSpec`: weak fairness of each thread going on with the methods it is
  inside of: threads are scheduled and handlers return. Nobody has to publish.
- `ResearchFairness`: weak fairness of each run's own steps: the caller inside
  `run_experiment` and the pool's thread are scheduled, and node functions end. Nobody
  has to cancel or resume, which is the point of `EveryRunEnds`.
- `AgentsSpec`: weak fairness of the loop of `DAGScheduler.run()`, which is one thread's
  and calls task functions that end.

## 4. Where the code and its documents disagree

Each of these is a run that TLC ends with a counterexample. The property is the
statement of the document; the model is that of the passing runs.

| Run | Property | What happens |
|---|---|---|
| `batcher_latesubmit` | `ShutdownResolvesPending` | A `submit()` that passed the test of `_stopped` (`serving/batching.py:62`) appends after `shutdown()` has drained the list; nobody is left to serve it and its Future stays pending. Line 116 says that pending futures are resolved with an error. |
| `sampling_cache` | `CachedIsFull` | `sample()` feeds its whole prefix to the cache (`inference/engine.py:284`) and starts each call by feeding the last id again: every token is drawn after a sequence that is not the one returned. `docs/LLM_MODEL.md:410` says that cached decoding is exactly equivalent to full-sequence decoding. |
| `registry_rollback` | `RollsBackToPrevious` | Promote v1, v2, roll back to v1, promote v3, roll back: the environment lands on v2, which it had left, because rollbacks are not in the history that `rollback` reads (`platform/registry.py:250`). Line 245 says "to its previous deployment". |
| `vocabulary_restore` | `RestoreKeepsIds` | A restart registers missing tokens one after the other, under the family their names suggest and without their ids (`tokenizer/cad_tokenizer.py:1081`): a gap closes, another family is another range. Line 1070 says "so ids match exactly". |
| `checkpoint_resume` | `ResumeExists` | The ranking deletes a checkpoint that is not among the best, the one just written too (`training/checkpoint.py:144`), and `last_path` goes on naming it. Line 8 says that training can resume exactly where it left off. |
| `gates_approval` | `ProductionWasApproved` | Every further decision on a request that has its approvals moves the experiment another stage on, whatever stage the request is for (`autonomous_research/approval.py:196`): one request for the first stage leads to production. `docs/v8.0_CHANGES_SUMMARY.md:71` says "mandatory approval gates". |

The passing runs check the nearest statement that does hold: `EveryoneEnds` for
requests in the list before the shutdown, `ImplementsGreedy` for the other decoders,
`RollbackUndoes` after promotions only, `IdsApart` for the ids, `BestIsKept` for what
is ranked, `VerdictsHold` for the first stage.

Seen while modelling, without a run of its own:

- `serving/batching.py:29` says that pending requests are served shortest first; line
  86 takes them in the order of arrival.
- `inference/engine.py:290`: `sample()` without a cache takes the last row twice and
  raises `IndexError`.
- A handler that publishes drains the heap inside its delivery
  (`agents/event_bus.py:181`), so the next subscriber gets the later event first; line
  68 promises priority, then arrival order.
- The event store gets an event when its `publish()` ends (`agents/event_bus.py:150`),
  so what a handler publishes is stored before the event it reacted to, while line 252
  speaks of oldest first. `publish()` may return while another thread that popped its
  event has still to deliver it (line 170), while line 136 says that delivery is
  immediate. A response that comes after its request returned stays in
  `_pending_requests`.
- `agents/scheduling.py:436`: `DynamicScheduler.run()` copies the list of tasks once, so
  a task submitted during the run is accepted and counted, and not executed; line 418
  says that it "Accepts tasks while a run is in progress (admission at any time)". The
  list is never emptied, so that a second `run()` executes everything again, and the
  first of two runs to end clears `is_running`.
- `autonomous_research/runner.py:141`: a control call that lands after a node failed
  replaces FAILED, and the run ends COMPLETED with errors. `resume_from` is looked up in
  the checkpoints of the execution that is just starting, which has none; line 46 says
  "with isolation, checkpointing, and recovery".
- `autonomous_platform/orchestrator.py`: ROLLED_BACK is always overwritten by FAILED, a
  late pause leaves PAUSED after the end, `timeout` and `retry_count` are never used and
  AWAITING_HUMAN is never set.
- `memory/persistence.py`: an append that fails half-way releases the lock and spoils
  the record after it; the lock file of a dead writer blocks all later appends;
  `truncate_log` takes no lock.
- `cad/parametric/parameters.py`: `resolve()` lets `NameError` through for an unknown
  name and for a parameter that uses itself, and `OverflowError`; line 159 raises a
  `ValueError` for the other failures.
- `autonomous_research/experiment_planner.py:87`: `get_execution_order()` lists the ids that
  an edge names and compares their number with that of all nodes, while line 67 says "Return
  nodes in topological order." The graphs of `create_training_experiment()` and
  `create_comparison_experiment()` (lines 136 and 206) have dependencies and no edges, so
  that each run of one ends FAILED before its first node. The inputs of a node
  (`runner.py:122`) are the dependencies that have a result by then; one that no edge orders
  may be missing, and nothing tells.
- `agents/scheduler.py:131`: `step()` sets a task back to "ready" that was started or
  completed since it was read; what waits for it is not offered again.
- `platform/registry.py:109`: an index that cannot be read counts as empty, and the next
  change rewrites the file without the earlier events; line 9 says "append-only log".
- `serving/lifecycle.py:80`: a reload that fails takes the healthy model down.
- `platform/config.py:200` says that listeners are called "whenever a reload changes data". A
  reload that only takes the last variable's setting out of force calls none (line 153), nor
  does one that reads a repaired file, or another one, whose digest was kept by a reload that
  then raised (line 149).
- `research_lab/promotion.py:133`: stages may be skipped, and neither the decision nor
  `check_promotion_ready()` is consulted; no experiment can become REJECTED or
  ROLLED_BACK.
- `collaboration/compute_credits.py:359`: a death between the grants file and the
  balances file leaves a grant that is listed and was never paid. No amount is tested, so
  that `add_credits()` of a negative one overdraws; and `to_dict()` writes the five
  declared credit types only, so that an amount of another is gone after a restart.
- `collaboration/contributors.py:222`, `282`, `292`, `359`: memory changes before the
  write, so that a call which raised is in force until the process ends. A file that cannot
  be read counts as empty (145, 156) while the others are kept. `import_data()` compares no
  emails and appends the records that are there already once more (452).
- `trust/core.py:224`: the payload of a signed record can change after it was signed,
  and is exported with the hash of then.

## 5. Proofs

Every theorem is of the form `Spec => []P` (or `Spec =>` an action property or an
abstract specification) for every value of the constants, from the named assumptions of
the component's module and nothing else. They are proved from the component's own
specification, without fairness. The layers of section 2 have a theorem each that says
that their behaviours are behaviours of every part (`...Compose`), and one on the types
of all parts together; with the first, each theorem about a part is one about the layer
that the runs check.

| Module | Theorems (the run property each states) |
|---|---|
| `DesignProofs` | batcher: `TypeCorrect`, `HoldersExclusive`, `NothingDropped`, `NobodySleeps`, `OneHolderAlways` (`HeldByOne`), `OnlyCancelKills` (`FailsOnlyOnCancel`), `Refinement` (`ImplementsService`); decoders: `DecodingInvariance`, `GreedyRefinement` (`ImplementsGreedy`), `ConfidenceOfEachToken` (`ConfidencePerToken`); memory log: `AcknowledgedReplays` (`AckedReplays`); workflow: `WorkflowTellsTheTruth` (`CompletedMeansDone`); layer: `DesignCompose`, `DesignTypeCorrect` (`DesignTypeOK`) |
| `CadProofs` | `OrdersAndValues` (`TreeResolves`) |
| `ModelsProofs` | registry: `TypeCorrect`, `AliasesResolve`, `AutomaticVersionIsFresh`, `LogExplainsAll`, `AcknowledgedStays`, `LogAlwaysKept` (`LogIsKept`), `RollbackRestores` (`RollbackUndoes`); others: `ReloadsAreSeamless` (`ReloadIsSeamless`), `TasksAreIsolated` (`TasksIsolated`), `IdsStayApart` (`IdsApart`), `BestAreKept` (`BestIsKept`); layer: `ModelsCompose`, `ModelsTypeCorrect` (`ModelsTypeOK`) |
| `EventBusProofs` | `BusTypeCorrect` (`TypeOK`), `NothingGetsLost` (`NoneLost`), `DeliveredInOrder` (`DeliveryOrder`) |
| `ResearchProofs` | runner: `InputsAreThere`, `CheckpointsAgree`, `NodesAlwaysGrounded` (`NodesGrounded`), `OutcomesAreTrue` (`OutcomeIsTrue`); approval: `ApprovalTypeCorrect`, `RejectionIsFinal`, `PendingStaysOpen`, `AdvanceNeedsApproval`, `VerdictsAlwaysHold` (`VerdictsHold`); promotion: `StagesClimb` (`HistoryClimbs`); layer: `ResearchCompose`, `ResearchTypeCorrect` |
| `AgentsProofs` | `OutcomesAreExplained` (`OutcomeExplained`), `RunsServeTheirTasks` (`RunServesItsTasks`), `TasksComeInOrder` (`TasksInOrder`), `CopiesAreNeverOlder` (`CopiesAreRecent`); layer: `AgentsCompose`, `AgentsTypeCorrect` (`AgentsTypeOK`) |
| `ServicesProofs` | credits: `LedgerTypeCorrect`, `NoOverdraft`, `UsageFollowsBalance`, `GrantPrecedesCredit`, `ReturnedSurvives` (`ReturnedIsRecorded`), `BalancesAddUp` (`BalanceExplained`); others: `ListenersKnowTheConfiguration` (`ListenersKnow`), `QuietForTheCooldown` (`CooldownKept`), `RegistriesAgree` (`RecordsAgree`), `DependenciesAreBeside` (`DependenciesBeside`), `ChainHasNoGap` (`ChainUnbroken`); layer: `ServicesCompose`, `ServicesTypeCorrect` (`ServicesTypeOK`) |
| `ListProofs` | no theorem of a component: lemmas on filtered, sorted and repetition-free lists and on sums, cited by the others |

Assumptions, each the `ASSUME` at the head of its module, all evaluated by TLC in the
runs: a positive batch size (`MaxBatchAssumption`); a start token that is no token and an
end token that is one, positive lengths (`DecodingAssumption`); default stages that are
listed once, among finitely many that can be registered (`WorkflowAssumption`);
references that are lists of features, and a sequence that lists the parameters in the
order of their names in a text, finitely many therefore (`CadAssumption`); versions that
are versions and bounds that are numbers (`TagAssumption`, `ExplicitAssumption`,
`BoundAssumption`); at least one checkpoint to rank (`RetentionAssumption`; the
constructor makes `keep_best` at least 1); graphs that are made of ids, finitely many of
them (`GraphAssumption`, which says nothing of how edges and dependencies agree); finitely
many threads in `run_all()` (`TeamAssumption`) and finitely many plugins
(`PluginsAssumption`); layouts whose ranges do not overlap and defaults that fit them
(`LayoutAssumption`, `DefaultsAssumption`); filters that raise among the handlers, and
calls of threads and handlers among those of the bus (`PickyAssumption`,
`CallsAssumption`); that a placeholder such as "nobody" or "none" is no member of the
set it stands outside of (`CaptureAssumption`, `LifecycleAssumption`,
`MarketAssumption`, which also makes its bound a number); that the amounts of credits are
integers, of either sign (`LedgerAssumption`); and that bounds and times are numbers
(`LedgerAssumption`, `ApprovalAssumption`, `PromotionAssumption`, `SchedulerAssumption`,
`DynamicAssumption`, `MemoryAssumption` of the log and of the shared memory,
`ConfigAssumption`, `AlertAssumption`, `TrustAssumption`, `IsolationAssumption`).

The arguments:

**Batcher.** `OneHolder` alone is not inductive: an append keeps it only if a
request whose `submit()` has not returned is held by nobody, and taking a batch keeps
it only if the batch is empty while the worker collects. The inductive invariant adds
`CallerInv` (a Future exists exactly when its `submit()` returned), `HeldInv` (the
Future of what is held is pending or was cancelled by its client), `WorkerInv` (what
the worker's place says of its batch and outcome) and `HolderInv` (pending futures are
held). That a thread dies only on a cancelled future follows because a held request has
one holder, so that no other thread can have resolved it. `HoldersAct`, that a holder is
never asleep, is the part of `EveryoneEnds` that needs no fairness. The hand-overs are lemmas on
what append, tail and split do to the members of a list. The refinement maps each step
to a step of `FutureService` or to a stutter, under the invariant.

**Decoding.** `DecodingInvariance` says that the sequence of a greedy decoder is the
greedy path so far, that the cache is that sequence without its last id, and that a
round never outgrows `max_len`; with the first two, the model's answer at each step is
the next id of the path, whatever was guessed. The refinement and the confidences follow
step by step.

**Memory log.** As long as no write has failed half way (`spoiled`), at most the last
line is torn, and then its writer is still in it or died and left the lock (`OnlyLastTorn`), and
what is written or acknowledged is a line (`WrittenThere`). Both need that who holds the
lock is alone (`LockHeld`), and a writer may have opened a file that was removed since,
so they speak of writers of the current file. What replays is then the list of lines up
to the first torn one, which is the last.

**Workflow.** `KahnInv`: the degree of a stage is the number of its needs that are not in
the order yet, so that a stage of degree 0 has all its needs before it. If the sort ends
with less than all the stages, each of those left needs another one that is left, which
is the circle that is reported (`LeftAreCircular`). `RunInv` and `StandsAtError` relate
position, results, errors and status; stages registered by another thread meanwhile are
what `GraphInv` lets `names` be longer than `listed` for.

**Features and parameters.** A walk is a stack of calls with different names, each
reached along references from all that are around it (`Nested`), so that no call is longer
than the names. `execution_order()`: a call has yet to look at what its feature names, or
it was visited (`Follows`), what was visited is in the result or on the stack
(`VisitedIsThere`), and a feature of the result comes after each one that it names,
unless that one leads back to it (`Ordered`): the only names that are passed over are on
the stack. `resolve()`: a value came of values and not of itself (`ResolvedWell`), what a
call waits for is resolved, left or called (`Awaits`), and an exception has its reason
below the parameter that was asked for (`Outcome`, `Circle`, `Unknown`, `Faulty`), while what
gave a value could be computed (`Computed`). Reachability is
the intersection of the closed sets, so that `ReachedStaysIn` and `ReachedOnwards` take
the place of an induction.

**Registry.** The invariant is that memory and file are each well formed: typed,
the numbers in use have a highest one, aliases and log entries name registered
versions, the log explains the environments. Because each operation changes one index
into another and `Persist` stores it or the old one, it is enough that each operation
takes a well-formed index to a well-formed one. `HasHighest` is what makes the automatic
number well defined for an unbounded set of versions. For what was acknowledged a second
invariant says that it is in the file and, while the process runs, in memory: without
the latter, the next write would lose it. `RollbackRestores` is about steps: where the
log of an environment has promotions only, its last but one is what ran before the last
one, and that is what `rollback` reads.

**Served model, vocabulary, isolation.** `LifecycleInv`: no engine comes back, neither
the one in service nor the one that is being loaded was replaced before
(`EnginesAreNew`), and an admitted request will find an engine
unless it was disturbed (`AdmittedFindEngine`). `VocabInv`: ids lie below the next slot
of their family and the ranges of families do not overlap, for the vocabulary and for
the one a migration builds. `IsolationInv` relates the saved flags of the tasks, in the
order of the dictionary, to the flags before the first.

**Checkpoints.** `RetentionInv`: the first of the ranking is the lowest loss that was ever
ranked (`BestIsFirst`), and as long as no path was saved twice and `cleanup_checkpoints()`
took nothing (`unsure`), the ranked files exist, one for each entry (`BestOnDisk`). That the file about to
be ranked is none of those ranked before is what makes the deletion of what falls out of
the ranking safe. The sort is a lemma on inserting into a sorted list (`InsertedPicks`).

**Event bus.** `BusInv`: each frame of a thread's stack says where its event stands
(`StackInv`): it was popped, no other frame of any thread has it, and no handler to come
has seen it; what was received, answered or stored was popped or published, once
(`SeenInv`); and each event is somewhere: stored, lost by a `publish()` that raised, or
with a thread that is about to store it (`StoredSomewhere`), a response in the heap,
with a delivery whose first recipient is the bus itself, or with its request
(`RoutedSomewhere`). `OrderInv` says that the heap holds nothing that precedes a popped
event of a higher number. Steps that only pop or move a frame are proved once, as quiet
steps; `UnwoundShape` says what an exception leaves of a stack.

**Runner and promotion.** `RunnerInv`: the position in the order is one past the
completed prefix and the results are its (`WorkerSound`); what an edge leads from comes
before in any order that is listed, whatever the graph (`ListingFacts`), so that its result
is there, and an order without a circle that is as long as the nodes are many lists them
all unless an edge names a stranger (`ListsAll`); the status follows the
worker's place unless a control call touched the run (`StatusFollows`), a run
that no worker has taken is queued or cancelled, and was not paused (`QueueSound`), and
a control call between its two steps has marked its run as touched (`ControlSound`).

**Approval.** That the pending request is undecided needs that a request which does not
exist yet has no decisions (`NewIsUndecided`), so that a new one starts open; the rest
is inductive with the type.

**Agents.** `DagInv`: a task of the batch has its dependencies met (`BatchIsMet`), at
most one is being executed (`OneExecuting`), what was not reached is untouched, and what
remains at the end is explained by a dependency. `DynamicInv`: what a
run has counted and what is left of its copy make up the list it found, each task of
which it has executed or still has (`CountsMatch`); a task that reads running is at the
head of some thread's copy (`RunningIsExecuted`).
`TeamInv`: how often a task was started and how many threads have it on their lists are
together no more than the threads (`StartsLeft`, by a lemma on cardinality, hence the
assumption that they are finite), which holds because a task is pending only if it was
never started (`StatusIsEarned`); what a task on a list waits for has completed, or the
thread has yet to look at it (`ListIsMet`), so that a task that was started had its
dependencies done (`DependenciesDone`); and who completes a task, or is executing it, stands
for a start each (`StartsCounted`), which leaves a stale `step()` or a second start as what
takes a completion back. `MemInv`: a thread announces its own write, which
is later than all that were over when it began (`EarlierIsDone`, `AnnouncedBefore`).

**Credits.** The files are written one after the other, so the invariant says how
far the call in progress has come (`Progress`), that memory is ahead of every file that
was never unreadable (`Ahead`), that a grant is in its file before its amount is in a
balance (`GrantsFirst`), and that only calls that were made are anywhere (`Known`).
Usage follows balance because the balances are written first, and
`ReturnedIsRecorded` because a call returns only after its last file. `NoOverdraft`: a
deduction leaves what is not negative, and only an addition or grant of a negative amount
can go below; such a call is remembered (`ReducedStays`). For
`BalanceExplained` the invariant says that the balance is the sum of the calls applied to it
(`BalanceApplied`); that a call which is applied and has no usage record is the one in
progress or was cut off, and that the latter needs a fault (`NothingCutOff`); and then the
set of applied calls, which the code does not keep, is taken apart into the records and
those calls (`AppliedIsRecorded`). A balance is a sum, written as a recursive function in `Lists`; that
changing one summand changes the total by as much (`TotalChange`) is an induction, which
`ListProofs` does with the least element of a set of numbers, as the library's induction
theorems are out of the provers' reach.

**Services.** `ConfigInv`: what was read in this reload is what its digest says
(`ReadIsHashed`), and what is in force and hashed agree unless excused (`HashedInForce`).
`AlertInv`: what evaluations on their own fired is never later than what the manager
keeps, nor than any evaluation under way (`HeardIsKept`), an evaluation that nothing
overlapped is the only one (`AloneIsAlone`), and a rule that is about to fire is past the
cooldown that it had to hear of (`FiringIsDue`). `MarketInv`: the lock admits one
publication, which owns its dataset only once the metadata are written
(`OnePublication`); and the four clauses of `RecordsAgree` hold of the tables in memory, of
the files, and of each mixture of the two that a failed write, or a restart with some of
the files, can leave (`DatasetsCredited`, `RecordsContributed`, `RecordsOwned`,
`EmailsApart`), and of a backup as far as an import needs it. The clauses on memory alone
are not inductive: the next process has what the files say, and the next write stores what
a failed one had left out.
`PluginInv`: the calls of `load()` on a stack are each about another plugin; what one has
looked at is in the table, or was taken out since, but for the plugin itself and the one
that is being loaded for it (`FramesOK`). So its dependencies are there, or known to
be gone, when it is entered in the table. `TrustInv`: the layer goes on from the hash of the record it holds last, imported or
not (`GoesOn`).

## 6. What is only model-checked, and what is not modelled

Only model-checked:

- Liveness (`EveryoneEnds`, `EventuallyDelivered`, `EveryRunEnds`, `RunReturns`):
  temporal reasoning under fairness is out of the prover's reach.
- The violations: a counterexample needs no proof.

Abstracted in the modelled parts: payloads, metadata, checksums, timestamps and names;
the wall clock (waits end at any moment, or a small clock ticks); topics of the event
bus beyond the kind; several models of the registry and several experiments of a
pipeline, which share nothing; amounts of credits as integers instead of floats; how often
a contribution record is in the list; two
processes on one directory of the registry, about which the documentation promises
nothing.

Left out of the modelled parts: beam search, whose ranking is arithmetic on
probabilities; `PriorityScheduler`, `DeadlineScheduler` and `WorkerPool`, queues that
their caller drives alone, and `LoadBalancer`; `save()` and `load()` of whole memory
stores; `SharedEventStore.clear` and `restore`, which nothing in the package calls; the
knowledge cache of the shared memory, a second map with the same expiry; version ranges
and imports of plugins; reviews and grants of access of the marketplace; values and
geometry of features; reads (`query`, histories, summaries, `check_promotion_ready`);
`BatchScheduler`, a pure grouping; `process_expired_grants`, which only logs.

Not modelled: the packages with no state machine of their own. These are tensor code
(transformer, training loops, distillation, alignment, optimization, adapters, world
model), data schemas and parsers (ir, the encoding of the tokenizer, datasets, config),
reports and statistics (evaluation, telemetry, drift, reputation), maps with get and set
(agent registries, provenance, laboratories), sequential glue (cli, execution, tools,
role agents, front ends), and cryptography, which stands behind the content in
`TrustChain`. They are the larger part of the package by lines: a model of them would
restate formulas. `PROJECT.json` gives the reason for each.

## 7. Plan

Done, in the order of importance: the batcher with its abstract service; the registry;
the event bus; the runner; the pipelines; the ledger; the decoders with their abstract
search; the served model, vocabulary, checkpoints and isolated tasks; the schedulers,
the team and the shared memory; configuration, plugins, alerts, marketplace and trust;
the memory log, the workflow, the feature tree and the parameters.

Left, in this order:

1. An abstract durable register (a variable with acknowledged writes) that the memory
   log, the registry, the ledger and the marketplace implement as long as their files are
   readable; and a bag of events, each handed once to each subscriber, that the event bus
   implements.
2. For the liveness properties, the part of the argument that needs no fairness: a
   quantity that each step of a walk, a run or a drain makes smaller.
3. Beam search against a reference definition; the agents' message bus and
   infrastructure; the cache of `collaboration/reputation.py`.
