# PhoenixGo in TLA+

A verification project for PhoenixGo, a Go engine that searches a tree with
many threads and evaluates positions with a neural network, in its process or
behind RPCs. The repository is the reference; paths below are relative to it
(`src/src/...`), and `PROJECT.json` maps every definition to its lines.

## 1. The system

    GTP input --> GTPExecute --> MCTSEngine ---- ThreadConductor <--> search threads
                     |             |   |  \                             |
                 ReloadConfig      |   |   MCTSMonitor (logging thread) | Eval
                     |             |   delete thread <-- old trees      v
                  g_config         board, tree                     TaskQueue
                     ^                                                  |
                     +--------- read by ----------- evaluation threads <+
                                                        |
                                   TrtZeroModel / DistZeroModelClient /
                                   AsyncDistZeroModelClient --> model server

| Component | State | Operations | Interacts by |
|---|---|---|---|
| `ThreadConductor`, `WaitGroup` | run state, two counters | Resume, Pause, Wait, AckPause, Join, Sleep, Terminate | mutexes and condition variables, called by the engine, search threads, callbacks and the monitor |
| `MCTSEngine`, operations and threads | `m_is_searching`, simulation counter, evaluations in flight | Init, Reset, Undo, Move, GenMove, destructor; SearchRoutine | conductor; the tree and board change hands with Resume and Join |
| `MCTSEngine`, search tree | nodes of atomics, root, delete queue | Select, claim, Expand, Backup, UndoVirtualLoss, InitRoot, ChangeRoot, DeleteTree | lock-free shared nodes; a queue to the delete thread |
| `MCTSMonitor` | one thread and its conductor; statistics in thread-local monitors | Resume, Pause, Reset, GetGlobal, destructor; MonitorRoutine | resumed and paused with the search; updated by search and completing threads |
| `TaskQueue` | bounded deque, closed flag | Push, PushFront, Pop, Close | mutex, two condition variables |
| Evaluation pipeline | batches of the evaluation threads | EvalRoutine, its callback, `Eval` | pops tasks, answers by callback, puts timed-out tasks back |
| `AsyncDistZeroModelClient`, `AsyncRpcQueue`, `LeakyBucket` | stubs, calls in flight, tokens | Forward, Wait, Complete, Shutdown, DisableStub | completion thread, detached threads |
| Configuration | `g_config`, the engine's copy, a pending one | InitConfig, ReloadConfig, SetPendingConfig | a global pointer read by the evaluation threads |
| GTP front end and game record | move record, counts, clocks | the GTP commands | one thread calling the engine |
| `EvalCache` | map, order of insertion | Insert, Probe, Resize | a mutex; search threads and completing threads |
| Time control (`ByoYomiTimer`, `GetSearchTimeoutUs`) | both clocks, the timer of the move | Set, Reset, HandOff, SetRemainTime; the two waits of a search | the calling thread only |
| Self-play | samples and winners | RunOnce, RunSelfplay | a thread per engine that calls the engine |
| Coordinates | | numbers, coordinates and words of moves, symmetries | called by all |
| Go rules (`GoState`) | board, blocks, hash, history | Move, IsLegal, scoring, features | copied by every simulation |
| Distributed server, TensorRT model, debugger, tools | | | see section 7 |

What is hard, and what must hold:

* **Conductor and engine threads.** Resume, Pause and Join wait for threads that
  may be inside Pause themselves; Pause tests a counter and then takes another
  mutex. Correct means: no search thread is inside the tree while the calling
  thread changes it; no wait group goes below zero (it would throw on a worker
  thread); a search stops near its limit; every operation returns.
* **Tree.** Threads share nodes without a lock. Correct means: one thread expands
  a node; the children are there before anybody descends; virtual losses are
  taken off as they were put on; at rest the statistics of a node agree with
  its children's; no node is freed twice or in use.
* **Monitor.** It follows the search through switching on and off by a reloaded
  configuration. It must not throw, must not miss or repeat a Resume and must be
  quiet when paused. Its statistics lie in thread-local slots that the monitor
  of a later engine takes over: what it logs must be what was counted since Reset.
* **Queue and pipeline.** `notify_one` after the unlock, two condition variables,
  retries at the front of a bounded queue, time-outs, closing. No wake-up may be
  lost, no task lost or answered twice, all threads must end after Close, no
  stub may leak.
* **Configuration, GTP, cache, rules.** A global replaced while others read it; a
  textual record of moves cut by arithmetic; a map and a queue that must agree
  although two threads miss the same key; blocks merged, captured and recycled.
* **Time.** The engine's clocks follow an arbiter's through time_settings,
  time_left, undo and searches whose end depends on three timers; a search with
  its overtime must leave the reserve alone.
* **Numbering.** A move is a number, a pair of coordinates, a word of the record
  and a word of GTP, turned by eight symmetries; each way back must be exact.

The full list, each at its line, is `hazards` in `PROJECT.json`.

## 2. The modules

| Module | Models | Extends |
|---|---|---|
| `ThreadConductor` | the methods of the conductor and its wait groups as actions on their state | |
| `SearchPhases` | abstract: the tree belongs to the engine or to the pool of search threads | |
| `SearchThreads` | calling thread, search threads, completion threads; refines `SearchPhases` | `ThreadConductor` |
| `SearchThreads_proofs` | theorems about `SearchThreads` | `SearchThreads`, `TLAPS` |
| `FiniteSums` | sums of integers over finite sets, and lemmas about them | `TLAPS` |
| `MonitorThread_proofs` | theorems about `MonitorThread` with its `LocalMonitors` | `MonitorThread`, `FiniteSums` |
| `SearchTree_proofs` | theorems about `SearchTree`, and lemmas about forests with levels | `SearchTree`, `FiniteSums` |
| `EvalPipeline_proofs` | theorems about `EvalPipeline` with its queue and its cache, and lemmas about sequences without duplicates | `EvalPipeline`, `TLAPS` |
| `TimeControl_proofs` | theorems about `TimeControl` | `TimeControl`, `TLAPS` |
| `GoRules_proofs` | theorems about `GoRules`, and lemmas about its folds, chains and blocks | `GoRules`, `FiniteSums`, `SequenceTheorems` |
| `SelfPlay_proofs` | theorems about `SelfPlay`, the `GtpGame` in it and the names of its moves | `SelfPlay`, `Coordinates`, `GoRules_proofs` (by INSTANCE), `TLAPS` |
| `LocalMonitors` | the statistics: thread-local monitors in the slot of an engine, Reset, updates, GetGlobal | |
| `MonitorThread` | the monitor thread and the engine's calls on it, engines that follow each other | `ThreadConductor`, `LocalMonitors` |
| `SearchTree` | simulations in one tree, callbacks of asynchronous evaluation, root changes, deletion; composed with `SearchPhases` | `SearchPhases` |
| `TaskQueue` | Push, PushFront, Pop and Close with both condition variables | |
| `EvalCache` | Probe and Insert with eviction | |
| `EvalPipeline` | search threads that evaluate, evaluation threads, synchronous model or asynchronous client, the cache, shutdown | `TaskQueue`, `EvalCache` |
| `GoRules` | `GoState`: blocks, capture, ko, superko, hash, features, scores; with the rules defined on a board alone as reference | |
| `GtpGame` | GTP commands, record of moves, undo, clocks, reloads of the configuration; its board is a state of `GoRules` | `GoRules` (by INSTANCE) |
| `SelfPlay` | `main`: GTP, self-play or one move, with the engine operations of `GtpGame` | `GtpGame` |
| `TimeControl` | `ByoYomiTimer`, the timeout and overtime of a search, its waits, next to an arbiter's clock | |
| `Coordinates` | names of moves, neighbours, symmetries, as functions | |
| `MC...` | symmetry sets and values of constants for TLC | the module named |

**Atomicity.** A step is one critical section or one atomic access. Accesses are
joined only where no other thread can tell (a thread's locals; several fields of
a node that nobody reads in between; the assignments of `Resume`, whose
intermediate values are read nowhere that matters). The gaps that matter are
kept: between the test and the mutex in `Pause` (`PauseWait`, `PauseSet`),
between the unlock and the notification in the queue (`PushIn`, `PushNotify`),
between a load and the compare-and-exchange on a leaf (`SimLeaf`, `SimClaim`),
between linking children and publishing them (`SimExpand`, `SimPublish`), between
leaving Wait and testing for terminate, between the miss of a Probe and the Insert,
between the two halves of an update of a statistic.

**Waits.** In `ThreadConductor` a wait on a condition variable is a guard: the
predicate is re-evaluated and every change of it is made under the mutex and
notified with `notify_all`, so no wake-up can be lost there. In `TaskQueue`,
where a notification wakes one thread and comes after the unlock, the sets of
sleeping threads are state and wake-ups, spurious ones included, are steps.

**How the state corresponds.** Variables carry the names of the members they
stand for (`m_state`, `m_is_searching`, `m_simulation_counter`, `m_queue`).
`resume_wg`, `pause_wg` are the counters of `m_resume_wg`, `m_pause_wg`; `pc`,
`ctl`, `epc`, `cpc`, `spc` are program counters whose labels are named for the
line a thread is at. `SearchThreads` keeps of a simulation only where it is and
what it counts; `SearchTree` has the nodes and takes the hand-over of the tree
from `SearchPhases`, which `SearchThreads` is proved to implement. That is how
the two halves of the engine are composed: the tree module relies on the
abstract specification only. In asynchronous mode a search thread hands a claimed
leaf to one of the `Callbacks` (`SimHandOff`) and goes on; the callback may run while
the calling thread owns the tree, or in the next search. `due` in `SearchTree` stands for one fact from the
threads: a thread woken from a pause is past the test for the next one and
simulates once (SearchRoutine tests `IsTerminate` only, `mcts_engine.cc:834`).

`GoRules` is functional: a `GoState` is a value that every simulation copies, so its
methods are operators on a record of its members, with bit sets as sets and the
linked list of a block's stones as a sequence. `GtpGame` uses the same operators
for the engine's board; `MoveOn` is `GoState::Move` with its error, which changes nothing and which `Reset` does
not look at. It treats `MCTSEngine::Move` as one step: what happens
inside its SearchPause and SearchResume is in the search modules. `SelfPlay` lets the
self-play thread take the place of the thread that executes commands; its
samples keep the winner they are given.

`TimeControl` has two clocks: the engine's and the one that an arbiter would keep.
Time passes in `Tick` only. A search computes its timeout, waits, may be
granted an overtime and waits again; what it finds in the tree (early stop,
unstable, behind) is open. Times are whole numbers of an arbitrary unit and the
factors of the overtime are whole too.

A definition under the comment "Variant of ..." is not part of the model. It is
the neighbouring definition with one mistake in it, kept to show that the
property that should notice does notice.

## 3. The runs

| Run | Instance | States | Shows |
|---|---|---|---|
| `SearchSync` | 3 search threads, limit of 2 simulations, time limit, background search | 99 346 | `IInv`, `WaitGroupsNeverThrow`, `BoundedOverrun`, refinement of `SearchPhases`, and `CallsReturn` although time limits need never strike |
| `SearchAsync` | 2 search threads, 2 completion threads, 2 evaluations in flight | 1 057 041 | `Quiescent` and the refinement hold in asynchronous mode too |
| `SearchAsyncReturn` | 2 search threads, 1 completion thread | violated | finding 1 |
| `Monitor` | 3 calls of Resume, 2 engines one after the other, a search thread and a completing thread, monitoring switched at will, also before the first search | 55 336 | throws only at the end of an engine whose monitor was never resumed, sees each Resume once, quiet while paused, every update counted, calls return |
| `Tree` | 2 search threads in synchronous mode, 1 and a callback in asynchronous mode; 2 moves, 2 plies, 2 roots, roots of at most 2 visits | 415 198 | the six properties of the tree |
| `Eval` | 2 search threads with 2 evaluation threads and batches of 2; a client with 1 stub and 4 tasks; one with 2 stubs and 2 positions; queue and cache of 1 | 50 280 | tasks, wake-ups and stubs conserved, bounded overfill, the cache consistent, answers arrive, threads end |
| `EvalAsyncClose` | 2 tasks, 2 stubs | violated | finding 2 |
| `GoRules` | 2 by 3 board, games of 6 moves, with and without superko, 4 feature planes | 34 278 | blocks, pool, legal moves, ko, hash, features and scores agree with the rules |
| `GoSuperko` | 1 by 4 board, games of 6 moves | violated | finding 3 |
| `GtpGame` | 3 commands, or 2 games of self-play of at most 3 moves, 6 moves on a 1 by 2 board, three lists of initial moves of which one is not legal, two configurations and the empty one, which differ in superko | 260 302 | record and board, undo, clocks, pending configuration, results of self-play |
| `GtpReload` | as `GtpGame` | violated | finding 4 |
| `TimeControl` | three configurations, 4 moves, 3 commands that set a clock, times up to 6 | 750 092 | the engine's clocks are the arbiter's; searches keep their time |

The runs of `MCGtpGame` also evaluate `NamesAgree`, what `SelfPlay_proofs` proves of the names of moves, for
every move of the 19 by 19 board.

**Bounds, and why they are enough.** Every bound is a CONSTANT. Races on the
conductor need the caller, one thread pausing the search and one that has not
woken yet: two search threads show them, the third makes the sum in
`BoundedOverrun` and the wait groups non-trivial; what TLC checks there for
three is proved for any number. In `SearchTree` two threads meet on a path, a
leaf and the root, `GameLength` 2 gives inner nodes, leaves and finished games,
two roots give one ChangeRoot with a subtree kept, one to delete, and a search
running meanwhile. A queue of capacity 1 is full with one task, so two pushers
and two poppers exercise both condition variables; a batch of 2 has a first and
a later element, the two cases of the time-out argument of Pop. Four tasks are
what it takes to overfill a queue of one through a stub and a callback at
once; two stubs let calls complete out of order. The configuration of `Eval` is a
constant of the behaviour, so that one run has both modes. In a cache of one entry every second key
evicts the first, and two threads can miss the same key. Two engines and one
completing thread are what it takes for a local monitor to outlive its engine. `MaxSims` in `SearchAsync` is 1, so that the search
pauses itself as early as it can. Nothing bounds `m_simulation_counter` but the protocol; in asynchronous
mode it is bounded by `QueueSize` evaluations and the calls to Pause.

A board of 2 by 3 is the smallest on which blocks of several stones with common
liberties, captures of more than one stone, ko and the re-use of blocks all occur
within six moves; on 1 by 4 a capture of two can be answered by a capture of two.
The margin of a score is tested against a `Komi` of 1 there, so that both players can win.
`SIZE_HISTORYEACHSIDE` is 4 so that the history is cut within the game. In `GtpGame`
the board only has to tell legal moves from illegal ones, and handicap stones
make a record of three moves with one command. Two games of self-play are one
that begins on an empty board and one that goes on from the end of another. The times of
`TimeControl` let main time run out, byo-yomi begin and an overtime be granted within four moves.

**Symmetry** is declared only in runs without liveness properties, on sets whose
elements the module only compares: threads (no operator picks a particular one)
and moves.

**Deadlock** checking is off where the program may stop: after the destructor,
at the bounds on roots, visits, resumes, moves and commands, and after Close. That something
must still happen is said by liveness properties instead.

## 4. Fairness

* Weak fairness for each thread that runs (`Controller`, `Worker(w)`,
  `Callback(t)`, `Completion(e)`, `Inside`, `MonitorRoutine`, the parts of the
  pipeline): the operating system schedules every thread.
* None for the environment: a caller need never call (`Call`, `Calls`), nobody need
  begin an evaluation (`Search`) or close the queue, a time limit need not strike
  (`SearchTimeout`), wake-ups need not be spurious.
* Strong fairness on `SimulationSucceeds` (some search thread's evaluation
  succeeds if again and again it could) and on `ForwardInTime(t)` (a task that
  is evaluated again and again does not time out every time). The code retries
  without a limit, so it relies on this; nothing weaker makes it return.
* Strong fairness on `BatchTimeout`: the deadline of a Pop stays the same however
  often the thread wakes up before it.

## 5. What is proved

Eight modules hold theorems. Each theorem holds for every value of the constants that
the ASSUME of its module admits; each named safety property is one that a run checks.

| Module | Theorem | Statement |
|---|---|---|
| `SearchThreads_proofs` | `Invariance` | `Spec => []IInv` |
| | `TypeCorrect` | `Spec => []TypeOK` |
| | `NobodyInside` | `Spec => []Quiescent` |
| | `NoThrow` | with synchronous evaluation, `[]WaitGroupsNeverThrow` |
| | `OverrunBound` | with synchronous evaluation, `[]BoundedOverrun` |
| | `Refinement` | `Spec => ImplementsPhases` |
| `SearchTree_proofs` | `Invariance`, `TypeCorrect` | `Spec => []IInv`, `Spec => []TypeOK` |
| | `Published` | `Spec => []ChildrenBeforeState` |
| | `Expansion` | `Spec => []OneExpander` |
| | `Losses` | `Spec => []VirtualLossBalanced` |
| | `Ownership` | `Spec => []NodesOwnedOnce` |
| | `Sums` | `Spec => []StatisticsAddUp` |
| `EvalPipeline_proofs` | `Invariance`, `TypeCorrect` | `Spec => []IInv`, `Spec => []TypeOK` |
| | `CalledBackOnce` | `Spec => []OneCopyOfEachTask` |
| | `Awake` | `Spec => []NoLostWakeup` |
| | `Overfill` | `Spec => []OverfillBounded` |
| | `Stubs` | `Spec => []StubsConserved` |
| | `Cache` | `Spec => []CacheConsistent` |
| `MonitorThread_proofs` | `Invariance` | `Spec => []IInv` |
| | `Throws`, `Quiet`, `ResumesSeen` | `Spec => []ThrowsOnlyIfNeverResumed`, `[]QuietWhilePaused`, `[]EveryResumeSeen` |
| | `Counted` | `Spec => []UpdatesCounted` |
| `TimeControl_proofs` | `Invariance` | `Spec => []IInv` |
| | `Clocks`, `KeepsTime` | `Spec => []ClockAgrees`, `Spec => []TimeKept` |
| `GoRules_proofs` | `Invariance` | `Spec => []IInv` |
| | `Features` | `Spec => []FeaturesShowHistory` |
| | `RulesInvariance` | `Spec => []RulesInv` |
| | `BlocksCorrect`, `BlocksAccounted` | `Spec => []BlocksAreChains`, `Spec => []PoolAccounted` |
| | `LegalMovesCorrect`, `KoCorrect` | `Spec => []LegalMovesJustified`, `Spec => []NoRecapture` |
| | `HashCorrect`, `ScoreCorrect` | `Spec => []HashNamesPosition`, `Spec => []ScoreIsArea` |
| `SelfPlay_proofs` | `Invariance` | `MainSpec => []IInv` |
| | `Record`, `Clock`, `Pending` | `MainSpec => []RecordIsGame`, `[]ClockOfPlayerToMove`, `[]PendingConfigTaken` |
| | `OneMove` | `MainSpec => RecordChangesByOneMove` |
| | `Results` | `MainSpec => []ResultOfGame` |
| | names of moves | see below |

**Search threads** (any finite sets of search and completion threads, any limit).
`Quiescent` is not inductive: it needs to know that an empty
pause counter means nobody is inside. `Accounting` says so: as long as the
conductor is not terminated the pause counter is the resume counter plus the
threads that have taken note of Resume and not acknowledged a pause, and while
it is running the resume counter counts exactly the threads still in Wait.
`Ownership` says at which label of the calling thread the tree is whose, and that
the counter is zero where it is the engine's; from these, `Quiescent` follows
in both modes, whatever stale Pauses do.

Synchronous mode promises more because no callback outlives the simulation of
its thread (`Synchronous`). Then a Pause about to set the state is fresh
(`FreshPause`): the pausing thread is itself among those not yet acknowledged, so
no Resume can have come between its test and its mutex, and the resume counter
it found empty is still empty. That gives `WaitGroupsNeverThrow`. `Overrun`
charges each simulation beyond the limit to a thread: while running, to one on
its way to Pause; after, to one that can no longer begin a simulation before the
next acknowledgement; `BoundedOverrun` follows. (With asynchronous evaluation both
are false; finding 1 is what happens instead.)

The proof that a step preserves `IInv` goes action by action (`CallerStep`,
`WorkerStep`, `CompletionStep`) and rests on lemmas on counting (`CountStep`,
`CountDisjoint`, `BusyStep`): a step of one thread moves one thread from one set
of labels to another. The refinement needs `Quiescent` and `Accounting` at the
two Joins, and that a simulation begins only where the search owns the tree.

**Search tree** (any finite sets of search threads, callbacks and moves, any length of the
game). The nodes are named by paths, and the claims to be proved speak of what
is below a node. `Subtree` follows the children `GameLength` times; that it reaches all of
them is not evident, since Expand writes children while others read. So `IInv` says
`\E lev : Inv(lev)`: there is a function that gives each node a level, one more than its
parent's, and no node has two parents. From the levels follow, by induction on the
depth, the lemmas on `Subtree`: a new child joins the trees of its ancestors only, cutting a
root splits its tree. `Inv` then says that the live tree, the trees waiting for their
deletion and the freed nodes are apart (`Ownership`). While no root has been changed with an
evaluation in flight (`~overtaken`, which `OneExpander` and `VirtualLossBalanced`
presuppose; the code gives no guarantee otherwise) it says where on its path every search thread and callback
is (`Working`), that a claimed leaf has one owner (`Claims`), and that a node has as many
virtual losses as there are simulations below it (`Balanced`): each step of a
simulation moves it across one node, which changes one set of those below by one.

`StatisticsAddUp` is about a tree nobody searches, so `SumInv` says what holds before: a simulation
on its way up owes the node it has come to a visit, the leaf's new children and,
once there is one, the leaf's value. With what the simulations at a node still owe it (`Arriving`)
its size, visits and actions agree with its children's (`Adds`); further up neither
a node nor its child has got anything yet. A leaf where the game goes on and which was never expanded
has no visit, action or value (`Fresh`), what is carried up comes from a leaf that was expanded
or ends the game (`Owes`), and a leaf of the first kind gets its value from one simulation (`OneValue`). A
backup pays what it owes one node and then owes its parent the same. A change of
the root keeps the sums; with an evaluation in flight it sets `overtaken`, which is never
followed by a rest.

**Evaluation pipeline** (any finite sets of threads, any capacities, batch sizes, stubs and
tasks). `Located` says that the places a task can be in (the queue, a pusher's hands,
a batch, a call, the list being answered) are sequences without duplicates that have no
task in common and hold exactly the outstanding tasks; each step moves a head or a whole
sequence to another place. `WakeupsCounted` is the inductive form of `NoLostWakeup`: while a
thread sleeps for elements there are as many threads awake, or about to notify, as there are
elements; the same for room. Counting instead of existence is what the step
needs in which one of two threads that are awake takes an element.
`TasksBounded` bounds the tasks beyond the capacity by the batches and stubs that can give
them back, so that `PushFront`, which tests nothing, overfills by so much at most. `CacheOrdered` says that the order
holds each key of the map once. The assumption is that the sets of threads are finite and
that `none` is no task, position or result.

**Monitor** (any number of resumes and engines). `Accounting` gives the two wait groups in terms of
whether the monitor thread is awake, `Noted` compares what it has seen with the calls. Nothing is
assumed of the order in which monitoring is switched and an engine destroyed: where a wait group
would throw, `Next` has no further step (`Aborted`, the process ends), and `Ending` says that the
caller is then in the join of the destructor and that the monitor was never resumed. From it
`ThrowsOnlyIfNeverResumed` follows. `UpdatesCounted` has an invariant of its own, which says that
the monitor knows the thread's own `LocalMonitor` and no other of that thread (`Known`), that the
count a thread has read and not yet written is at least what is there, and more only if Reset came
in between (`Reading`), and that the counts of all sum up to the updates since Reset
(`SumOfUpdates`).

**Time control** (any configuration and any settings of the clocks). `ClockAgrees` is
inductive as it stands. `TimeKept` is not: `IInv` adds that the wait of a search so far is within its timeout
(`WithinTimeout`), and that the timeout times the overtime factor is within what the clock
showed, less the reserve, when the timeout was computed (`TimeoutKept`). The arithmetic of quotients is in lemmas of its own.

**Go rules** (a board of any size with more than one point: on a single point the code would
allow a suicide, and its own board has 361). `IInv` says that the state has the form of a `GoState`
(`IsGoState`) and that the history holds two planes for each board of the record (`HistoryIsRecord`).
Merging and capturing are folds over sets of blocks, so what they leave alone is proved for one block
and carried through the fold (`RecyclingSteps`). `Features` then is arithmetic on the parity of planes.

None of the other properties is inductive, nor are they together: `RulesInv` is. Its parts, in the order the
argument needs them:

* *Chains.* `Chain` grows a set step by step. `IsChain` says what a chain is without counting steps: stones of one
  colour, connected, with no other of the colour next to them. A set grows until it is closed
  (`ChainGrows`), so `Chain(board, p)` is the one chain with `p` in it (`ChainIs`).
* *Blocks.* `Blocks(s, h)`: each block in use is a chain with its liberties as sets, counts and list (`GoodBlock`),
  and the parents of its stones lead to the tail of its list, which bears its number (`Rooted`).
  The height `h` decreases along the parents, so that FindCoord's walk ends at that tail (`FindCoordIsRoot`); `RulesInv` says that
  there is such an `h`. A merge makes the new stone the parent of the roots it joins, whose
  trees get one higher (`Heights`). `MergeDoes`, `CaptureDoes` and `PlaceDoes` say what the board, the blocks and the counts of
  liberties are after each half of a move; `PlayedIs` and `SuicideIs` that this is what the rules on a board alone
  say.
* *Pool.* `Accounted`: the blocks in use and those in the list of recycled ones are the first
  `block_in_use` numbers, none of them twice. As there is no more than one block for each stone, the
  one block that TryMove takes is there.
* *Ko.* `KoKept`: the ko position is exactly the point where a stone would bring back the board before the last
  move. That is what counting the liberties before the captured stone is gone amounts to
  (`KoPositionIs`, `KoIsRecapture`). `NoRecapture` and half of `LegalMovesJustified` follow.
* *Hashes.* `HashesKept`: the hash is that of the position, and the hashes that superko looks up
  are those of positions of the record. Positions with one hash are equal (`PosHashInjective`), since a hash
  is here the set of its weights, so a move that superko forbids repeats a position.
* *Scores.* `ScoreIsArea` needs no history: it holds of every board (`ScoreCountsArea`). The stack of the flood fill comes to
  every point of the chain of empty points, each once (`Region`, `RegionScoreIs`), and the outer loop has visited
  whole chains only and counted of the area what lies in them or before the point it has come to (`Counted`).

TLC checked `KoKept`, `HashesKept` and what `Blocks` says of the blocks on the instance of the run `GoRules` before
they were proved. What the theorems do not say: the code has 256
blocks, the model as many as there are points and one more. That a game needs no more than 256 is not shown.

**Game record** (any board, any configurations, any number of commands, GTP, self-play and one
move). `IInv` is `RecordIsGame` and `ClockOfPlayerToMove` with the types of what a command still has
to do, and `PendingHasMove`: while a reload is under way there is a move to come. The board is the
replay of the record under the rules it was made with, whatever the configurations have become. A
replayed move that the board does not allow leaves it as it is, so the moves on the board are
counted by its history, and the player to move follows from that count, not from the length of the
record (`PlayerToMove`). `clean` notes whether a Reset may have met such a move; if not, all moves
are on the board, and stay there when the last is cut off (`ShorterRecordPlayed`). Appending to and
cutting a record need what `Replay` does with one move more or less, by induction on the number of
moves; that the players alternate comes from `GoRules_proofs` (`Follows`), whose operators the
lemmas `Same...` identify with those of the instance in `GtpGame`. `GtpAssumption` has the
assumptions on the board for that.

`ResultOfGame` has an invariant of its own, `SelfInv`. The winner of a game is in its last sample or, if that does not know it,
on the board; the sample is taken before the move. So `ResultInv` says what the last sample has once the move is
made: after a resignation the opponent of the player to move, otherwise nothing or the winner
of this board. The second case is a third pass, and that a finished game only ever sees a pass takes most of the rest
of `ResultInv`: between moves nobody searches, no configuration is pending and none asks for
background search, so a search on a finished game hangs and GenMove can only answer a pass by a pass. A pass keeps the stones
(`PassKeepsWinner`), and who has more area is the winner by `ScoreCountsArea` (`WinnerOfBoard`). TLC checked `SelfInv` on the
instance of the run `GtpGame` first.

**Induction.** The library's induction theorems take an operator, which the provers
cannot instantiate. The proofs above use well-foundedness of the naturals, with a set
instead of a predicate (`AllNaturals`), or sets of integers by their greatest element (`ByGreatest`).
`FiniteSums` defines the sum over a finite set by picking its elements one by one, and shows that the order of picking
does not matter (`TotalRemove`); the sums of the models, folds over the same sets, are shown equal to it.

**Names of moves.** The theorems of `SelfPlay_proofs` on `Coordinates` are about all moves of the
19 by 19 board, whose size the code fixes when it is compiled; they assume nothing.

| Theorem | Statement |
|---|---|
| `IdRoundTrip` | the number of a move and its coordinates give each other back |
| `RecordRoundTrip` | the two letters of the record give a move back, a pass included |
| `GtpRoundTrip` | so does a word of GTP, whose letters leave out I |
| `NeighboursByNumber` | the neighbour table by numbers is the one by coordinates |
| `TransformRoundTrip` | each of the eight symmetries is undone by its reverse |
| `PolicyComesBack` | a policy computed for the turned features comes back to the points of the board |

They rest on the arithmetic of quotient and remainder (`IdOnBoard`, `CoordOnBoard`) and on
the flips being their own inverses (`Flips`).

**Model-checked only:** all liveness (`CallsReturn`, `MonitorCallsReturn`, `EvaluationsArrive`, `EvalThreadsTerminate`): it needs
fairness and ENABLED. Every invariant and every action property that a passing run checks is a theorem.

## 6. Findings

1. `SearchAsyncReturn`: with asynchronous evaluation a Pause by a completion
   thread can be overtaken by the next Resume between its test and its mutex; the
   search threads that have not woken yet stay in Wait and Resume, so `genmove`,
   never returns (`thread_conductor.cc:15`). The same stale Pause after
   Terminate brings workers back to AckPause with an empty wait group.
2. `EvalAsyncClose`: closing the queue with an RPC in flight leaves the client's
   destructor waiting for a stub that nobody returns (`async_rpc_queue.h:62`).
3. `GoSuperko`: a point with an empty neighbour is declared legal before the superko
   test (`go_state.cc:312`); a stone there that captures can bring an earlier position
   back.
4. `GtpReload`: after a change of the configuration file, play and genmove leave
   `g_config` null (`mcts_main.cc:65`) while the evaluation threads of the same
   search read it (`eval_routine.cc:83`).

Other behaviour a maintainer should know of, which the models contain and no run
claims to be otherwise: an undo of the only move of a game undoes nothing and
reports success (`mcts_engine.cc:234`; the FAQ says that it cancels the last move);
after a replay of an odd number of moves the clocks are exchanged
(`ClockOfPlayerToMove` says exactly when, and `ClockAgrees` excludes it), and every undo
turns off a clock that came with time_settings; an unreadable configuration file counts
as an empty configuration (`mcts_config.cc:13`); genmove after two passes does not
return (`mcts_engine.cc:909`); initial moves with background search hang at the
start (`mcts_main.cc:248`); and the destructor of an engine makes `WaitGroup::Add` throw on the monitor thread,
which ends the process, if monitoring was on when the engine was made and no search
ever resumed the monitor (`mcts_monitor.cc:95`): because there was no search, or
because a play before the first one took a configuration that switches monitoring off
(`ThrowsOnlyIfNeverResumed` says that it throws in no other case).
`Reset` replays the record under the superko of the current configuration, which a
reload may have changed, and ignores what `Move` returns (`mcts_engine.cc:113, 123`): an
undo after such a reload, or an illegal move in `--init_moves`, leaves a record with
moves that are not on the board (`clean` in `GtpGame`). A pass that is disabled
counts as a move without visits, and can be chosen all the same, as the only move or where
total action decides (`mcts_engine.cc:972`, `BestMoves`). Time spent in `InitRoot` before the timeout is computed is not
deducted in byo-yomi, and the number of byo-yomi stones is ignored. In asynchronous
mode a root may be changed with evaluations in flight (`overtaken` in `SearchTree`): a
callback then works on nodes that are being deleted. Self-play never resets the
board: a game after two passes hangs in its first search or, with enable_pass_pass,
consists of one pass; a game after a resignation goes on from there; and the
winner is written into copies of the samples (`mcts_engine.cc:331`). With
background search its first search is begun by two threads at once
(`mcts_engine.cc:105`).

## 7. Not modelled, and why

* Scores (`SelectChild`, `GetBestMove`) and values: any child may be the
  best, any value of `Values` may come back. What `CheckEarlyStop`, `CheckUnstable` and
  `CheckBehind` find is open for the same reason.
* A game that is over: `InitRoot` then loops for ever, because the expansion of a
  finished position leaves the root unexpanded (`mcts_engine.cc:909`); the models
  search only unfinished games, and `GtpGame` has a state for it.
* What follows a change of the root with evaluations in flight: the callbacks use
  freed nodes, which has no defined behaviour; `SearchTree` ends there.
* Self-play with background search: the calling thread's operations are
  sequential in `SearchThreads`, and here two threads are in SearchResume at once. The
  policies of the samples: they are computed and discarded.
* The distributed server and its synchronous client: the server is one mutex around
  one model, and to the pipeline the client is any model that answers, times out or
  fails (`EvalPipeline!Forward`). Setting up models and channels at the start.
* Serving on a port: a new process or a new engine for each connection, with the
  commands of `GtpGame`; `MonitorThread` has the engines that follow each other.
* The analysis thread of `--lizzie`, the debugger and the tools format and print; what
  the thread reads races with the engine's threads by design.
* Input of the wrong size: `AsyncForward` answers it with an error at once and keeps the stub
  (`async_dist_zero_model_client.cc:98-101`). The features always have the one size that `GetFeature` gives them, so
  that the path has no caller.
* Words of `--init_moves` that name no point: `GoState::Move` then reads its tables out of their bounds, which has no
  defined behaviour. Lists of points and passes in any order, legal or not, are modelled.
* `TrtZeroModel`: numeric code of the GPU behind `ZeroModelBase`. `address_sorting` is
  vendored code of gRPC.

## 8. Plan

Done: ThreadConductor, SearchThreads with SearchPhases, MonitorThread
with LocalMonitors, SearchTree in both modes, TaskQueue, EvalCache, EvalPipeline, GoRules with
scores, GtpGame, SelfPlay, TimeControl, Coordinates, and the proofs of section 5.

Worth adding: the analysis thread against the lifetime of an engine, and the number of chains that a
position of the full board can have, against the 256 blocks of the pool.
