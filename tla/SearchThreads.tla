---------------------------- MODULE SearchThreads ----------------------------
(***************************************************************************)
(* The threads of one MCTSEngine (mcts_engine.cc): the thread that calls   *)
(* the engine's operations, the search threads (SearchRoutine) and, in     *)
(* asynchronous mode, the completion threads that run the callbacks of     *)
(* evaluations.  They meet in the ThreadConductor.                         *)
(*                                                                         *)
(* What the tree contains is the subject of SearchTree; here a simulation  *)
(* is a stretch of labels (InSimulation) between the start of Select and   *)
(* the end of the evaluation callback, and the only data kept is the       *)
(* simulation counter, because it decides when the search pauses itself.   *)
(***************************************************************************)
EXTENDS ThreadConductor, FiniteSets

CONSTANTS
    Workers,       \* m_search_threads
    EvalThreads,   \* the completion threads of asynchronous evaluation
    enable_async,  \* MCTSConfig::enable_async
    enable_background_search,
    Timed,         \* GetSearchTimeoutUs() > 0: the search has a time limit
    MaxSims,       \* MCTSConfig::max_simulations_per_step
    QueueSize      \* MCTSConfig::eval_task_queue_size

ASSUME ThreadsAssumption ==
    /\ IsFiniteSet(Workers)
    /\ IsFiniteSet(EvalThreads)
    /\ Workers \cap EvalThreads = {}
ASSUME ConfigAssumption ==
    /\ {enable_async, enable_background_search, Timed} \subseteq BOOLEAN
    /\ MaxSims \in Nat \ {0}
    /\ QueueSize \in Nat \ {0}

VARIABLES
    pc,                    \* program counter of workers and completion threads
    ctl,                   \* program counter of the calling thread
    op,                    \* the engine operation it is in
    m_is_searching,
    m_simulation_counter,
    g_eval_tasks_wg        \* evaluations queued or in their callback

engine == <<ctl, op, m_is_searching>>
search == <<pc, m_simulation_counter, g_eval_tasks_wg>>
vars == <<conductor, engine, search>>

Threads == Workers \cup EvalThreads

\* From Select to the end of the evaluation callback.
InSimulation == {"select", "counted", "sims_wait", "sims_set",
                 "size", "size_wait", "size_set"}
Waiting == {"first_wait", "wait"}
Resumed == {"first_resumed", "resumed"}
WorkerLabels == Waiting \cup Resumed \cup InSimulation
                  \cup {"first_check", "check", "loop", "ack", "exited"}
EvalLabels == {"free", "done"} \cup (InSimulation \ {"select"})
CtlLabels == {"idle", "resume", "init_root", "resume_enter", "resume_wait",
              "search_wait", "pause", "pause_set", "join", "own",
              "term_wait", "term_pause", "term_join", "term_set",
              "threads_join", "gone"}
Ops == {"init", "reset", "move", "genmove", "quit"}

\* Completion threads that are running a callback.
Busy == {e \in EvalThreads : pc[e] # "free"}

-----------------------------------------------------------------------------
\* Init() has created the search threads and the root.
Init ==
    /\ ConductorInit
    /\ pc = [t \in Threads |-> IF t \in Workers THEN "first_wait" ELSE "free"]
    /\ ctl = IF enable_background_search THEN "resume" ELSE "idle"
    /\ op = "init"
    /\ m_is_searching = FALSE
    /\ m_simulation_counter = 0
    /\ g_eval_tasks_wg = 0

-----------------------------------------------------------------------------
(* The calling thread.                                                     *)

Goto(l) == ctl' = l

CtlStep(from, to) ==
    /\ ctl = from
    /\ Goto(to)
    /\ UNCHANGED <<op, m_is_searching, search>>

\* A call of Reset (and Undo, which is a Reset), Move, GenMove or the destructor.
\* GenMove may answer a pass with a pass without searching.
Call ==
    /\ ctl = "idle"
    /\ \E call \in {<<"reset", "pause">>, <<"move", "pause">>,
                    <<"genmove", "resume">>, <<"genmove", "idle">>,
                    <<"quit", "term_wait">>} :
          /\ op' = call[1]
          /\ Goto(call[2])
    /\ UNCHANGED <<conductor, m_is_searching, search>>

AfterResume == IF op = "genmove" THEN "search_wait" ELSE "idle"

\* SearchResume() while a background search is on does nothing at all.
SearchResumeSkip ==
    /\ m_is_searching
    /\ CtlStep("resume", AfterResume)
    /\ UNCHANGED conductor

\* Variant of SearchResumeBegin: the simulations of the last search still count.
SearchResumeKeepsCounter ==
    /\ ctl = "resume"
    /\ ~m_is_searching
    /\ \E l \in {"init_root", "resume_enter"} : Goto(l)
    /\ UNCHANGED <<conductor, op, m_is_searching, search>>

\* Otherwise it may find the root unexpanded and has to evaluate it first.
SearchResumeBegin ==
    /\ ctl = "resume"
    /\ ~m_is_searching
    /\ m_simulation_counter' = 0
    /\ \E l \in {"init_root", "resume_enter"} : Goto(l)
    /\ UNCHANGED <<conductor, op, m_is_searching, pc, g_eval_tasks_wg>>

\* InitRoot() ends with every asynchronous evaluation delivered.
InitRoot ==
    /\ g_eval_tasks_wg = 0
    /\ CtlStep("init_root", "resume_enter")
    /\ UNCHANGED conductor

SearchResumeEnter ==
    /\ CtlStep("resume_enter", "resume_wait")
    /\ ResumeEnter(Cardinality(Workers))

\* Variant of SearchResumeReturn: m_is_searching is not set.
SearchResumeForgets ==
    /\ ctl = "resume_wait"
    /\ ResumeReturn
    /\ Goto(AfterResume)
    /\ UNCHANGED <<op, m_is_searching, search>>

SearchResumeReturn ==
    /\ ctl = "resume_wait"
    /\ ResumeReturn
    /\ m_is_searching' = TRUE
    /\ Goto(AfterResume)
    /\ UNCHANGED <<op, search>>

\* SearchWait(): until the threads have paused by themselves ...
SearchWait ==
    /\ Drained(pause_wg)
    /\ CtlStep("search_wait", "pause")
    /\ UNCHANGED conductor

\* ... or, in a search with a time limit, until time is up or an early stop.
SearchTimeout ==
    /\ Timed
    /\ CtlStep("search_wait", "pause")
    /\ UNCHANGED conductor

SearchPauseSkip ==
    /\ ~m_is_searching
    /\ CtlStep("pause", "own")
    /\ UNCHANGED conductor

SearchPauseWait ==
    /\ m_is_searching
    /\ CtlStep("pause", "pause_set")
    /\ PauseWait

SearchPauseSet ==
    /\ CtlStep("pause_set", "join")
    /\ PauseSet

SearchPauseJoin ==
    /\ ctl = "join"
    /\ JoinReturn
    /\ m_is_searching' = FALSE
    /\ Goto("own")
    /\ UNCHANGED <<op, search>>

\* Reset() rebuilds the root and the board.
FinishReset ==
    /\ ctl = "own" /\ op = "reset"
    /\ m_simulation_counter' = 0
    /\ Goto(IF enable_background_search THEN "resume" ELSE "idle")
    /\ UNCHANGED <<conductor, op, m_is_searching, pc, g_eval_tasks_wg>>

\* Move() plays the move and changes the root ...
FinishMove ==
    /\ ctl = "own" /\ op = "move"
    /\ IF enable_background_search
       THEN Goto("resume") /\ UNCHANGED m_simulation_counter
       ELSE Goto("idle") /\ m_simulation_counter' = 0
    /\ UNCHANGED <<conductor, op, m_is_searching, pc, g_eval_tasks_wg>>

\* ... unless it is a resignation; after a double pass it does not search on.
FinishLastMove ==
    /\ op = "move"
    /\ CtlStep("own", "idle")
    /\ UNCHANGED conductor

\* GenMove() reads the visit counts of the root's children.
FinishGenMove ==
    /\ op = "genmove"
    /\ CtlStep("own", "idle")
    /\ UNCHANGED conductor

\* ~MCTSEngine(): Terminate() of the conductor ...
TerminatePauseWait == CtlStep("term_wait", "term_pause") /\ PauseWait
TerminatePauseSet  == CtlStep("term_pause", "term_join") /\ PauseSet
TerminateJoin      == CtlStep("term_join", "term_set") /\ JoinReturn
TerminateEnd       == CtlStep("term_set", "threads_join") /\ TerminateSet

\* ... then the join of the search threads.
JoinThreads ==
    /\ \A w \in Workers : pc[w] = "exited"
    /\ CtlStep("threads_join", "gone")
    /\ UNCHANGED conductor

Controller ==
    \/ SearchResumeSkip \/ SearchResumeBegin \/ InitRoot
    \/ SearchResumeEnter \/ SearchResumeReturn \/ SearchWait
    \/ SearchPauseSkip \/ SearchPauseWait \/ SearchPauseSet \/ SearchPauseJoin
    \/ FinishReset \/ FinishMove \/ FinishLastMove \/ FinishGenMove
    \/ TerminatePauseWait \/ TerminatePauseSet \/ TerminateJoin \/ TerminateEnd
    \/ JoinThreads

-----------------------------------------------------------------------------
(* The search threads.                                                     *)

Step(t, from, to) ==
    /\ pc[t] = from
    /\ pc' = [pc EXCEPT ![t] = to]

\* Wait() of the conductor, up to the release of its mutex.
WorkerWait(w) ==
    /\ WaitReturns
    /\ \/ Step(w, "first_wait", IF IsTerminate THEN "first_check" ELSE "first_resumed")
       \/ Step(w, "wait", IF IsTerminate THEN "check" ELSE "resumed")
    /\ UNCHANGED <<conductor, engine, m_simulation_counter, g_eval_tasks_wg>>

WorkerResumed(w) ==
    /\ Step(w, "first_resumed", "first_check") \/ Step(w, "resumed", "check")
    /\ ResumeDone
    /\ UNCHANGED <<engine, m_simulation_counter, g_eval_tasks_wg>>

\* The test after Wait().  After the first Wait() the thread enters the loop at
\* its head; after the others it is past the test for a pause and simulates.
WorkerCheck(w) ==
    /\ \/ Step(w, "first_check", IF IsTerminate THEN "exited" ELSE "loop")
       \/ Step(w, "check", IF IsTerminate THEN "exited" ELSE "select")
    /\ UNCHANGED <<conductor, engine, m_simulation_counter, g_eval_tasks_wg>>

\* The head of the loop of SearchRoutine.
WorkerLoop(w) ==
    /\ Step(w, "loop", IF IsRunning THEN "select" ELSE "ack")
    /\ UNCHANGED <<conductor, engine, m_simulation_counter, g_eval_tasks_wg>>

WorkerAck(w) ==
    /\ Step(w, "ack", "wait")
    /\ AckPause
    /\ UNCHANGED <<engine, m_simulation_counter, g_eval_tasks_wg>>

\* The selected leaf is being expanded by another thread, or its evaluation
\* failed: the virtual loss is undone and the thread goes round again.
SimulationFails(w) ==
    /\ Step(w, "select", "loop")
    /\ UNCHANGED <<conductor, engine, m_simulation_counter, g_eval_tasks_wg>>

\* The evaluation is there: the callback expands, backs up and counts.  In
\* asynchronous mode this is a position found in the cache or a double pass.
SimulationSucceeds(w) ==
    /\ Step(w, "select", "counted")
    /\ m_simulation_counter' = m_simulation_counter + 1
    /\ UNCHANGED <<conductor, engine, g_eval_tasks_wg>>

\* Asynchronous mode: the evaluation is queued and the thread goes on.
EvalPush(w) ==
    /\ enable_async
    /\ g_eval_tasks_wg - Cardinality(Busy) < QueueSize
    /\ Step(w, "select", "loop")
    /\ g_eval_tasks_wg' = g_eval_tasks_wg + 1
    /\ UNCHANGED <<conductor, engine, m_simulation_counter>>

Worker(w) ==
    \/ WorkerWait(w) \/ WorkerResumed(w) \/ WorkerCheck(w)
    \/ WorkerLoop(w) \/ WorkerAck(w)
    \/ SimulationFails(w) \/ SimulationSucceeds(w) \/ EvalPush(w)

-----------------------------------------------------------------------------
(* The rest of the callback, run by a search thread or a completion thread. *)

CallbackEnd(t) == IF t \in Workers THEN "loop" ELSE "done"

CallbackStep(t, from, to) ==
    /\ Step(t, from, to)
    /\ UNCHANGED <<engine, m_simulation_counter, g_eval_tasks_wg>>

\* Variant of CheckSims: off by one.
CheckSimsLate(t) ==
    /\ CallbackStep(t, "counted",
          IF m_simulation_counter > MaxSims + 1 THEN "sims_wait" ELSE "size")
    /\ UNCHANGED conductor

\* max_simulations_per_step; the counter is read again.
CheckSims(t) ==
    /\ CallbackStep(t, "counted",
          IF m_simulation_counter > MaxSims THEN "sims_wait" ELSE "size")
    /\ UNCHANGED conductor

SimsPauseWait(t) == CallbackStep(t, "sims_wait", "sims_set") /\ PauseWait
SimsPauseSet(t) == CallbackStep(t, "sims_set", "size") /\ PauseSet

\* max_search_tree_size, which a tree may have reached at any time.
CheckSize(t) ==
    /\ \/ CallbackStep(t, "size", CallbackEnd(t))
       \/ IsRunning /\ CallbackStep(t, "size", "size_wait")
    /\ UNCHANGED conductor

SizePauseWait(t) == CallbackStep(t, "size_wait", "size_set") /\ PauseWait
SizePauseSet(t) == CallbackStep(t, "size_set", CallbackEnd(t)) /\ PauseSet

Callback(t) ==
    \/ CheckSims(t) \/ SimsPauseWait(t) \/ SimsPauseSet(t)
    \/ CheckSize(t) \/ SizePauseWait(t) \/ SizePauseSet(t)

-----------------------------------------------------------------------------
(* The completion threads of asynchronous evaluation.                      *)

\* Variant of EvalArrives: one completion more than evaluations.
EvalArrivesTwice(e) ==
    /\ g_eval_tasks_wg >= Cardinality(Busy)
    /\ Step(e, "free", "done")
    /\ UNCHANGED <<conductor, engine, m_simulation_counter, g_eval_tasks_wg>>

EvalArrives(e) ==
    /\ g_eval_tasks_wg > Cardinality(Busy)
    /\ \/ /\ Step(e, "free", "counted")
          /\ m_simulation_counter' = m_simulation_counter + 1
       \/ Step(e, "free", "done") /\ UNCHANGED m_simulation_counter
    /\ UNCHANGED <<conductor, engine, g_eval_tasks_wg>>

EvalDone(e) ==
    /\ Step(e, "done", "free")
    /\ g_eval_tasks_wg' = g_eval_tasks_wg - 1
    /\ UNCHANGED <<conductor, engine, m_simulation_counter>>

Completion(e) == EvalArrives(e) \/ EvalDone(e)

-----------------------------------------------------------------------------
Next ==
    \/ Call
    \/ Controller
    \/ SearchTimeout
    \/ \E w \in Workers : Worker(w)
    \/ \E t \in Threads : Callback(t)
    \/ \E e \in EvalThreads : Completion(e)

Spec == Init /\ [][Next]_vars

(***************************************************************************)
(* Every thread is scheduled; the caller alone decides when to call, and a *)
(* time limit may be as long as it likes.  An evaluation that is tried     *)
(* again and again succeeds at last: the code retries failures without a   *)
(* limit, so it relies on this.                                            *)
(***************************************************************************)
Fairness ==
    /\ WF_vars(Controller)
    /\ \A w \in Workers : WF_vars(Worker(w))
    /\ \A t \in Threads : WF_vars(Callback(t))
    /\ \A e \in EvalThreads : WF_vars(Completion(e))
    /\ SF_vars(\E w \in Workers : SimulationSucceeds(w))

FairSpec == Spec /\ Fairness

-----------------------------------------------------------------------------
TypeOK ==
    /\ m_state \in States
    /\ resume_wg \in Int
    /\ pause_wg \in Int
    /\ pc \in [Threads -> WorkerLabels \cup EvalLabels]
    /\ ctl \in CtlLabels
    /\ op \in Ops
    /\ m_is_searching \in BOOLEAN
    /\ m_simulation_counter \in Nat
    /\ g_eval_tasks_wg \in Nat

WorkersAt(labels) == {w \in Workers : pc[w] \in labels}
Active == WorkersAt(InSimulation)

\* The calling thread may touch the tree and the board.
EngineOwns == ctl \in {"init_root", "own", "gone"}

\* While the calling thread plays a move, changes the root, reads the result
\* or frees the tree, no search thread is inside a simulation.
Quiescent == EngineOwns => Active = {}

\* WaitGroup::Add never meets a negative counter, so it never throws.
WaitGroupsNeverThrow == resume_wg >= 0 /\ pause_wg >= 0

\* A search overruns its limit by at most one simulation per thread: threads
\* already past the test complete theirs, and no thread begins another one.
BoundedOverrun == m_simulation_counter <= MaxSims + Cardinality(Workers)

\* Each operation of the engine returns, the destructor included.
CallsReturn == ctl # "idle" ~> ctl \in {"idle", "gone"}

-----------------------------------------------------------------------------
\* The thread conductor keeps its promise.  Ownership changes hands where
\* Resume sets the state to running and where a Join finds the wait group
\* empty; and, at the end, from Terminate to the join of the threads.
Terminated == ctl \in {"threads_join", "gone"}

Owner ==
    IF \/ ctl \in {"resume_wait", "threads_join"}
       \/ m_is_searching /\ ctl \notin {"term_set", "gone"}
    THEN "search" ELSE "engine"

Phases == INSTANCE SearchPhases WITH owner <- Owner, active <- Active
ImplementsPhases == Phases!PSpec

-----------------------------------------------------------------------------
(* The inductive invariant behind the safety properties.                   *)

NumAt(labels) == Cardinality(WorkersAt(labels))

\* Search threads that have taken note of Resume and not yet acknowledged the
\* next pause.
Awake == {"first_check", "check", "loop", "ack"} \cup InSimulation

\* What the two counters count, as long as the conductor is not terminated.
Accounting ==
    ~Terminated =>
        /\ m_state \in {"pause", "running"}
        /\ NumAt({"exited"}) = 0
        /\ pause_wg = resume_wg + NumAt(Awake)
        /\ resume_wg >= NumAt(Resumed)
        /\ IsRunning => /\ resume_wg = NumAt(Waiting \cup Resumed)
                        /\ NumAt({"ack"}) = 0

\* Where each label of the calling thread stands with respect to the search.
Ownership ==
    /\ Owner = "engine" /\ ~Terminated => pause_wg = 0 /\ m_state = "pause"
    /\ ctl \in {"join", "term_join"} => m_state = "pause"
    /\ ctl \in {"own", "init_root", "resume_enter", "resume_wait"} => ~m_is_searching
    /\ ctl \in {"search_wait", "pause_set", "join"} => m_is_searching
    /\ Terminated => m_state # "running" /\ NumAt(Resumed) = 0
    /\ ctl = "gone" => \A w \in Workers : pc[w] = "exited"

\* Evaluations in flight.
InFlight ==
    /\ \A w \in Workers : pc[w] \in WorkerLabels
    /\ \A e \in EvalThreads : pc[e] \in EvalLabels
    /\ g_eval_tasks_wg >= Cardinality(Busy)

\* In synchronous mode no callback outlives the simulation of its thread ...
Synchronous ==
    ~enable_async =>
        /\ g_eval_tasks_wg = 0
        /\ Busy = {}
        /\ Terminated => /\ m_state = "terminate"
                         /\ resume_wg = 0 /\ pause_wg = 0
                         /\ NumAt({"loop", "ack"} \cup InSimulation) = 0

\* ... so that Pause(), which tests the wait group of Resume before it takes the
\* mutex, still finds it empty when it sets the state ...
FreshPause ==
    \/ enable_async
    \/ /\ m_state # "pause"
       /\ ctl \notin {"pause_set", "term_pause"}
       /\ NumAt({"sims_set", "size_set"}) = 0
    \/ resume_wg = 0

\* ... and every simulation over the limit still holds up its thread while the
\* state is running, and has used up a thread once it is paused.
Overrun ==
    ~enable_async =>
        /\ ctl \in {"init_root", "resume_enter"} => m_simulation_counter = 0
        /\ m_simulation_counter <= MaxSims +
             (IF IsRunning THEN NumAt({"counted", "sims_wait", "sims_set"})
              ELSE IF Terminated THEN Cardinality(Workers)
              ELSE Cardinality(Workers) - NumAt({"check", "select"}))

IInv ==
    /\ TypeOK /\ Accounting /\ Ownership /\ InFlight
    /\ Synchronous /\ FreshPause /\ Overrun

=============================================================================
