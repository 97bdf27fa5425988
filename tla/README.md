# Verification of java-bitcoinkernel

TLA+ models of the Java binding of Bitcoin Core's `libbitcoinkernel`, checked
with TLC on small instances and, for the properties that matter most, proved
with TLAPS for every instance.

## The system

The binding is a layer of Java objects (`src/main/java/org/bitcoinkernel`) over
the C API of `bitcoinkernel.cpp`. A Java object holds a pointer to native memory
in its field `inner`, sometimes with a flag `ownsMemory` and an `Arena`, and
nothing but the discipline of the two sides keeps the pointer good: there is no
garbage collection of native memory. Behind the API, `ProcessBlock` moves the
active chain on the thread of its caller while other threads submit blocks,
read the chain and get events. These are the two places where the code can be
wrong in ways a unit test hardly reaches, and what the models are about.

| Part | State | Operations | Hard behaviour |
|---|---|---|---|
| `Blocks.java`, `Transactions.java`, `KernelData.java` | `inner`, `ownsMemory`, arena; native handles and what they keep alive | create from bytes, get a view, copy, read, close | views that outlive owners, copies, double close, close on another thread, native null results |
| `Chainstate.java` | `inner`; share in the context | options, manager, import, process, read, close; chain and its iterator | calls in progress while others close; a chain that changes under its iterator |
| `ContextManager.java` | `inner`; native use count; copied callbacks | options, setters, context, interrupt, close | order of closing; options changed or closed later |
| `NotificationsManager.java` | shared arena of upcall stubs | create, close, eleven upcalls | stubs called after they are freed; exceptions in upcalls |
| `BitcoinKernel.java` | the two objects it keeps | constructor, getters, `verify`, `close` | a constructor that fails half way; what `close` forgets |
| `Logger.java`, `KernelTypes.java` | process-wide switches, constants | setters | text of a log message |
| `bitcoinkernel.cpp` | handles, `shared_ptr` cells, `Context`, `ChainMan` | create, copy, destroy, read | modelled together with its callers |
| `validation.cpp`, `node/blockstorage.cpp`, `chain.cpp` (vendored Bitcoin Core) | block index, candidates, active chain, two locks | accept a block, activate the best chain, read, load again | forks, blocks out of order, invalid branches, threads that do each other's work, failing disks |
| `jextract` | | | generated, not modelled |

Two facts about the Foreign Function & Memory API are used throughout.

* `inner == MemorySegment.NULL` compares references. A C function that returns
  null gives a new segment of address zero, which is not that object. The models
  therefore tell `"NULL"` (the constant, after `close`), `"zero"` and
  `"pointer"` apart; a test by identity lets `"zero"` pass, `isNull`-style tests
  by address do not.
* A confined arena can be closed only by its thread and only once, otherwise
  `close` throws. Closing a shared arena frees its upcall stubs at once. An
  exception that leaves an upcall ends the process. `getString(0)` throws when
  it finds no terminator inside its segment.

## Modules

### Handles

The lifetimes of all data objects. A Java object (`Wrapper`) has a class, a
segment kind, `owns`, the region `inner` points to and the region its views point
to, its root (the object whose lifetime it depends on) and its arena. Native
memory is a set of regions: each handle has a cell that its destroy function
frees; `btck_Block`, `btck_BlockSpentOutputs` and `btck_Transaction` cells are
`shared_ptr`s, so a body or transaction lives while any live handle keeps it.
`fault` is set when native code is given a pointer to something that is gone, or
frees what is not a live handle.

There is one action per method, named `Class_method`. They are written with a few
schemes (`Reads`, `GetsView`, `Derives`, `Creates`, `Copies`, `CopiesShared`,
`ClosesWith`), each of which is one shape of code that recurs in the sources. The
constants say what the client does: which classes it works with, which objects it
closes, which native calls may fail, whether it uses closed objects.

### Context

Contexts, their options, notification managers, chainstate manager options and
chainstate managers. `refs` is the use count of the native context;
`callbacks` says whose stubs a native object has copied. `ProcessBlock` and
`ImportBlocks` are three actions (begin, upcall, end), because other threads act
in between. `Careless` is the set of mistakes the client is allowed:

* `closesManagerEarly`: closes a notification manager native code can call;
* `closesBusy`: closes a chainstate manager another call is inside of;
* `closesElsewhere`: closes chainstate manager options on another thread, or twice;
* `usesUnusable`: passes closed or failed objects to constructors and methods.

Events with a text (`progress`, `warningSet`, `flushError`, `fatalError`) are
told apart from the others, because the conversion of the text throws.

Each object is made at most once, and a step of any method but the two calls
into a chainstate manager is atomic; in particular the test and the destroy in
`close()` are one step.

### Kernel and KernelService

`Kernel` is the facade: it instantiates `Context` with one object of each class
per kernel and walks the constructor statement by statement (`pc`). The facade
is the `usesUnusable` client: it passes on what it made without looking. The
client may close what the getters return, use several kernels on several
threads, and close a kernel twice; it does not close one while a call is inside.
`KernelService` is the abstract specification: built once, entered only while
open, closed once with nobody inside. The refinement mapping takes a kernel to be
open while its constructor has returned and its chainstate manager has a pointer.

### BestChain

What happens below `ChainstateManager.ProcessBlock`. The blocks that will ever be
seen are a constant tree; what the checks say of a block (`Verdict`) is a
constant too, and tells apart where it is refused: before its header is added,
after, or when it is connected.

| Variable | In the code |
|---|---|
| `index`, `data`, `linked`, `failed` | `m_block_index`; `BLOCK_HAVE_DATA`; `HaveNumChainTxs()`; `BLOCK_FAILED_MASK` |
| `seq`, `nextSeq` | `nSequenceId`, `nBlockSequenceId` |
| `cand`, `unlinked` | `setBlockIndexCandidates`, `m_blocks_unlinked` |
| `tip`, `told` | `m_chain.Tip()`; the tip of a listener that applies the events it got |
| `csMain`, `mutex` | who holds `cs_main` over several steps, and `m_chainstate_mutex` |
| `pc`, `most`, `start`, `old`, `worked`, `trace` | where each thread is, and the locals of `ActivateBestChain`, `connectTrace` included |
| `ready`, `interrupted`, `broken` | a manager exists; `Context.interrupt()`; a fatal error was reported |

`ProcessNewBlock_*` are the outcomes of `AcceptBlock` under `cs_main`. An
activation is a sequence of actions in the order of the code: take the mutex,
take `cs_main`, choose (`FindMostWorkChain`), disconnect and connect one block at
a time, meet an invalid block or a system error, go round the inner loop or
unlock and send the events, decide whether to stop. Other threads act whenever
`cs_main` is free. `FindMostWorkChain` is given by what its loop computes: the
best candidate whose branch has neither failed nor missing blocks, with the
candidates that it erases on the way. `Failures` selects the faults: a block
that cannot be written, a disk that fails in a reorganization or in the flush
that ends an activation, an interrupt, and a manager that is closed and made again
on the same data (`Reload`). A manager that was interrupted is made again with a
new context, and the activation in its constructor then finds what the
interrupted one left undone. There is no `Reload` after a system error: the coins
on disk and the chain in memory need not agree by then, and what `close()` still
manages to write is not modelled.

`LoadChainTip` lowers `nSequenceId` of blocks that are in `setBlockIndexCandidates`,
an ordered set whose comparator reads that field, and then erases the tip by
value. One candidate with the work of the tip is enough for that search to go
wrong: where it lies above the tip in the search tree and sorts after it by
address, the tip is not found and gets a second entry, and
`PruneBlockIndexCandidates` stops at the first one. `Reload` has both outcomes.
`Misplaced` is what is left between the two entries; a later prune may
stop before it (`Shielded`), and erasing one of its blocks may miss it or take
others along (`Erasures`).

### ChainIteration

`for (BlockTreeEntry entry : chain)` on other threads than `BestChain`'s. The
iterator takes its `maxHeight` once; each `next()` asks for an entry by height,
of whatever chain is active by then, and throws where there is none. `seen` and
`moved` record the tip when the iterator was made and whether a block has been
disconnected since. The client does not close the manager under a running loop.

## Runs

Passing runs:

| Run | Instance | What it shows |
|---|---|---|
| `handles_transactions` | 4 objects, 3 handles, 2 threads | blocks, hashes, transactions and their views: memory safety, no leaked handle, `close` is local, the inductive invariant, which has one owner per handle |
| `handles_chain` | 7 objects, 3 handles; chainstate manager, chain, entries, hashes, blocks, undo data down to the output of a coin | the same but for leaks, with blocks that are not on disk and `TransactionSpentOutputs` used as a view |
| `handles_careless` | 6 objects, 3 handles, 1 thread; every close, every failure, closed objects used again; `copy()` of `TransactionSpentOutputs` taken for the view it is | what survives: unique owners and their invariant, arenas, locality of `close`, and that nothing dangles before the first fault |
| `context_sound` | 2 threads, 3 managers, 1 options, 2 contexts, 1 chainstate options, 2 chainstate managers | no fault, exact use counts, stubs that stay open, options that do not reach back, arenas that follow |
| `context_careless` | the same with 1 context, every mistake, failure and event | use counts stay exact until the first fault, and contexts keep their callbacks |
| `kernel_service` | 2 kernels, 2 threads | no fault, events reach the right logger, the facade implements the service, the inductive invariant |
| `bestchain` | 6 blocks: two branches, one of them invalid, and a block that is refused; 2 threads; every failure; fair | the active chain is valid, listeners have it, the block index is in order at every moment, `cs_main` is never released on a worse chain, activations end, stored valid chains become active or are beaten |
| `chain_iteration` | 8 blocks, invalid ones of three kinds; 2 threads and a reader; failed writes and disks; fair readers | what a loop returns and that it ends, when it can throw; the assertions of `CheckBlockIndex`; the best chain is active when all calls have returned |

Runs that end in a violation, each a disagreement between the code and a
statement of the repository (quoted in the findings of `PROJECT.json`):

| Run | What TLC finds |
|---|---|
| `handles_hashview` | closing the hash of a block tree entry frees memory of the block index |
| `kernel_init` | a chainstate that cannot be loaded is not reported by the constructor |
| `kernel_release` | after `close()` the native context is still held by unreachable options |
| `kernel_text` | the first notification with a text ends the process |

The other rules of `SoundClient` stand for the same kind of behaviour, which
`handles_careless` lets happen: `TransactionSpentOutputs.close()` frees a view
like `BlockHash.close()` does, and its `copy()` wraps the original and loses the
copy (`NoOrphans` is therefore checked of the other classes only); a `Transaction` made from malformed bytes is around
address zero, as a chainstate manager that cannot be loaded is; and methods
without `checkClosed()`, such as `Block.countTransaction()`, pass null to native
code when the object is closed.

### Bounds

Bounds are the numbers of objects, handles, threads, contexts and kernels.
`MCHandles` numbers objects and handles and explores only the states in which
they are used in the order of their creation (`InOrder`). In `handles_chain` a
second object of a class on the path to undo data is made and checked but not
followed further (`OnePath`); `handles_careless` has the same bound, and a second
transaction only where there is no chainstate manager (`OneWorld`). Names carry
no meaning, so but for these two bounds every behaviour is a renaming of an
explored one. The hard cases
need few objects: a view, its owner, a copy and a view of the copy are four; a
context that outlives its Java object needs one object of each class; a second
context, notification manager and chainstate manager show that they do not mix.

Deadlock is not checked where the instance really comes to an end: in
`handles_careless` after a fault (the process is gone), and in the `context` and
`kernel` runs when every object of the instance has been closed, and in
`bestchain` when a system error has kept a manager from being made again.

Six blocks are enough for a reorganization to a valid branch, one to a branch
that turns out invalid and has to be undone, ties of work, and a block that is
refused after its header was added; eight add a block above an invalid one and a
header that is refused. `Reload` has its two outcomes where two blocks of the same
work are stored; that a block left out of order turns out invalid, where
`Erasures` has more than one outcome, needs a larger tree and is left
to the proofs. Two threads are one that activates and one
whose block it has to connect. The proofs have no such bounds.

### Fairness

`FairSpec` has weak fairness of `ActivateBestChain(t)`: a thread that is inside an
activation and can go on does go on. It is what a running process gives a
thread that waits for nothing; a thread that waits for a lock is promised only
that it gets it when nobody else wants it. Nobody has to submit a block.
`IterationSpec` has the same for a reader inside its loop, and `IterationEnds`
says only that loops end once the other threads leave `cs_main` alone, because
its lock is not fair. The other modules assume no fairness: their properties are
safety properties, and neither the binding nor its client promises that a call
is made.

## Proofs

### Handles

`HandlesProofs` is about any sets of objects, handles and threads. What is proved
depends on what the client does.

| Theorem | Of the client | Says |
|---|---|---|
| `TypesHold`, `OwnersAreInvariant` | anything | `TypeOK`, `OwnersInv` |
| `OwnerUniqueness` | anything | each open owner has a live handle of its own |
| `NothingIsOrphaned` | has no `TransactionSpentOutputs` | each live handle has an open object that will destroy it |
| `ArenasFollowObjects` | has one thread | the arena of an object goes with its native memory |
| `OrderUntilFault` | takes a copy of `TransactionSpentOutputs` for the view it is | up to the first fault every open object owns, or depends on, a live handle |
| `ClosingIsLocal` | the same | closing takes nothing from objects rooted in another open one, also in a faulty close |
| `OwnershipIsInvariant`, `MemorySafety` | `SoundClient` | no fault |

`SoundClient` closes no view of a block hash and no `TransactionSpentOutputs`,
takes a copy of the latter for the view it is, makes transactions from well-formed
bytes, and leaves closed objects alone. The run `handles_hashview` shows what
happens without the first of these rules.

There are two inductive invariants. `OwnersInv` needs no discipline: two open
owners never have the same handle, an owner's handle is live, and what the
constructors and getters fix about a class stays fixed. Memory safety needs more:
`MemoryInOrder` says that an open root owns its cell and that everything an object
points to is kept by the handle of its root as long as the root is open. It
is preserved by every step up to a fault, whatever the client closes.
`OwnershipInv` adds that only Blocks are ever around address zero, whose methods
test by address; with the rules of `SoundClient` no step can then be the first
fault. The schemes have a lemma each, so every action's proof cites one of them.

### Context

`ContextProofs` is about any finite set of objects and any set of threads:

* `ContextTypes`, and `SharesAreCounted`: with no assumption on the client, the
  use count of every native context is the number of open objects that hold it,
  until a fault. The invariant adds that whatever holds a share knows whose
  (`SharersKnown`); the counting is in `CountUp`, `CountDown` and `CountKept`.
* `CallbacksAreKept`: with no assumption on the client, the callbacks of a native
  context never change while it exists, whatever is set on the options it
  was made from. It needs `SharedIsMade`: a share comes from a `Context` that was
  made, so a new one is not held yet.
* `ArenasFollowOptions`: unless the client closes chainstate manager options on
  another thread or twice, their arena goes with their memory, because it belongs
  to one thread (`OneThreadConfines`).
* `CallsHoldTheirContext`: unless a chainstate manager is closed under a call,
  up to the first fault the manager and the native context of every call in
  progress exist, whatever fails and whatever other mistakes are made.
  `BusyIsOpen` up to the fault is inductive for that client, and the counting
  does the rest.
* `SoundClientsAreSafe`, `StubsOutliveTheirUse`: with no failures or texts and no
  mistake but that of closing chainstate manager options on another thread (it
  costs an arena, never safety; `context_sound` runs without it because it
  checks the arenas too), there is no fault, and stubs stay open. The invariant `SoundInv` adds that
  every stub a native object has is open, a call in progress is into an open
  manager, nothing failed and new options are empty; it uses the counting to know
  that a context with an open holder exists.

### Kernel

`KernelProofs` is about any number of kernels and threads:

* `KernelInvariant` (`KernelInv`) and `KernelTypes`: with no assumption;
* `KernelsAreSafe` (`KernelSafe`): when every object can be made and no event has
  a text. Both conditions are needed: `kernel_init` has the chainstate manager that
  could not be made, `kernel_text` the text;
* `EventsAreHeard` (`EventsReachLogger`): when every object can be made;
* `OptionsKeepContext`: when every object can be made, the native context of a
  kernel is never released once its constructor has returned, and after `close()`
  exactly the share of the chainstate manager options is left. What
  `kernel_release` shows in one behaviour is the fate of every kernel.
  `ClosedInv` (what `close()` has passed stays closed) is inductive beside
  `KernelInv`;
* `FacadeImplementsService` (`ImplementsService`): when every object can be made,
  every step of `Kernel` is a step of `KernelService` or leaves it alone;
* `FacadeIsAClient`: with no assumption, `Spec` of `Kernel` implies `Spec` of
  `Context` with `Careless = {"usesUnusable"}`. What `ContextProofs` has without a
  condition on the client, and `CallsHoldTheirContext`, is therefore true of any
  finite number of facades too.

The invariant is `KernelInv`. That the facade is safe does not follow from
`SoundClientsAreSafe`, because the facade is not that client: it does not look at
what it made. `PartsInv` says instead, for each place in the constructor, which of
the five parts exist, whose callbacks the options and the context have, and that
the native context has exactly the shares that its three possible holders account
for; so a chainstate manager that is open has a context whatever was closed
before it. `InsideInv` says that a thread in native code is in an open kernel, which
closing with nobody inside preserves.

### BestChain

`BlockTreeProofs` has the lemmas about the tree and the order of candidates:
`Ancestors` as the least closed set gives reflexivity, transitivity, comparability
of the ancestors of a block, and that they have less work; `SortsBefore` is a
strict total order under any numbering of the blocks.

`BestChainProofs` proves for every tree of blocks, number of threads and set of
failures (the assumptions are that the tree is one, that work grows along it, and
that entries have different addresses):

* `ChainTypes`; `ActiveChainIsValid` (`OnlyValid`); `ListenersFollow`
  (`ListenerFollows`);
* `IndexIsInOrder` (`IndexInv`): at every moment, also while `cs_main` is held,
  after a system error and after a reload;
* `IndexPassesItsCheck` (`CheckBlockIndex`): what the code asserts of its own index,
  where no manager is made again on the same data;
* `BestChainIsActive` (`BestWhenIdle`), also with reloads;
* `UnlocksWithProgress` (`WorkNeverFalls`);
* `LeftBehindIsNotChosen`: what `LoadChainTip` leaves out of order among the
  candidates never becomes the target of an activation, until a system error;
* `OwnerMovesTip`: only the thread with `m_chainstate_mutex` and `cs_main` moves the
  tip or tells listeners of it. The model of the outer loop's condition
  relies on it (`Done` takes the tip for `pindexNewTip`);
* `FindingsStay`: headers, stored blocks, links and failures only become more, also
  across a reload.

They come from one inductive invariant, `IndInv`, and for the index `IndexInv` and
`CandidatesInv` (without reloads no candidate is worse than the tip), which are
inductive beside it. That the best chain is active
when nobody works is not inductive: `PendingInv` says that while a better chain is
stored, some thread will still look for it, either because it has accepted a
block and not begun, or because it is in an activation whose target is unknown or
no worse. For that `ProgressInv` keeps every chain that could be chosen among the
candidates, relative to the tip with which `cs_main` was taken and to the tip now,
because `PruneBlockIndexCandidates` runs in the middle of reorganizations.
`LoadedInv` says that an entry of a loaded tip is never better than the tip
whenever `cs_main` is free, so that the misplaced candidates, which are worse than
it, are not missed when they are erased and not chosen when they stay.
`TargetInv` says what `pindexMostWork` is across the release of `cs_main`,
`EntriesInv` relates links, data and candidates, `LocksInv` the locks to the
places of the threads, `TraceInv` the collected events to the tip. Each conjunct
has a lemma, with a step per action: the basic ones are in `BestChainSteps`,
`ProgressInv` and `TraceInv` in `BestChainProgress`, `PendingInv`, those of the index
and the theorems in `BestChainProofs`.

### ChainIteration

`ChainIterationProofs` adds `LoopsInv` (what a loop has returned, and that the
chain it began with is still below the tip unless a block was disconnected) and
`HeightsInv` (where all blocks have the same work, no chain that others see is
lower than a running loop needs), and proves:

* `ChainIsRightForReaders`: the properties of the chain that the run
  `chain_iteration` checks, beside any number of readers. Readers only read
  (`ReadersOnlyRead`), so the theorems of `BestChainProofs` carry over;
* `IterationTypes` (`IterationTypeOK`);
* `LoopsSeeTheirChain` (`SnapshotUnlessReorganized`);
* `LoopsDoNotThrow` (`EqualWorkNeverThrows`);
* `SeenWorkNeverFalls`: whatever the work of blocks, no chain that is seen later
  has less of it than the one a loop began with, unless there was a system error.
  `WorkInv` says so of the tip while `cs_main` is free and of the tip it was
  taken with while it is held; its one hard step is the release of `cs_main`.

Where blocks differ in work a chain with more work can be lower, and `next()` can
throw; the theorem says what is left.

### Model-checked only

The liveness properties `ActivationEnds`, `BlocksGetActive` and `IterationEnds`
rest on fairness, which is outside the prover's reach. So is a proof that a
condition of a theorem is needed: that is what the runs that end in a violation
show, on one instance each.

`CheckBlockIndex` is checked and proved without `Reload`: a tie that `LoadChainTip`
leaves among the candidates sorts worse than the tip, against the assertion in
`validation.cpp:5457`. It takes one tie whose address is below the tip's. The
other theorems have `Reload` with this outcome, and show that the chain itself
stays right.

## Not modelled

* What makes a block valid, scripts, coins and their cache, block files and
  pruning, the mempool, assumed-valid snapshots: the verdict on a block is a
  constant, and failures of storage are choices. Blocks are connected one at a
  time; the code plans them in batches of 32, which changes no order.
* Other events than connected and disconnected blocks (`BlockChecked`, header tips,
  new blocks with valid work) carry no promise about the chain.
* What `ImportBlocks` reads from files; the activation it ends with is the one of
  `BestChain`.
* Callbacks that read the chain or call `ProcessBlock`: they run on the thread of
  the activation. A reader among them would see the tips in the middle of a
  reorganization; a call to `ProcessBlock` would wait for its own thread, as a
  comment in `validation.cpp` warns.
* Generated bindings have no decisions.
* The contents of blocks, transactions and scripts; `toBytes`, `equals` and the
  getters read and are modelled as reads of the right memory.
* Logging and constants.
* Which chain a context is for, and what the options mean to the database.
* Memory-model effects of the unsynchronized field `inner`, and two threads
  inside `close()` of the same object.
* Callbacks that throw.
* The checks of `ScriptPubkey.verify`: a table of inputs and results, without
  state.
