---------------------------- MODULE EvalPipeline ----------------------------
(***************************************************************************)
(* The evaluation of positions: search threads push tasks                  *)
(* (MCTSEngine::Eval), the evaluation threads pop them in batches and feed *)
(* a model (eval_routine.cc), and a callback hands the results back.       *)
(*                                                                         *)
(* Synchronous mode: a search thread waits for the promise in its task,    *)
(* and the model calls back before Forward returns (zero_model_base.h, as  *)
(* for TrtZeroModel and DistZeroModelClient).  Asynchronous mode: a search *)
(* thread does not wait, and the model is an AsyncDistZeroModelClient with *)
(* a pool of stubs and a thread that completes calls.  A position that is  *)
(* in the cache makes no task; one that has been evaluated goes there.     *)
(***************************************************************************)
EXTENDS TaskQueue, EvalCache, FiniteSetsExt

CONSTANTS
    SearchThreads,
    EvalThreads,       \* g_eval_with_batch_threads, each with its own model
    Positions,         \* named by their hash
    MaxTasks,          \* bound on the tasks in flight; a task is a number
    Configs,           \* the configurations: see config
    none

Tasks == 1 .. MaxTasks
Results == {"ok", "timeout", "error"}

ASSUME PipelineAssumption ==
    /\ IsFiniteSet(SearchThreads) /\ IsFiniteSet(EvalThreads)
    /\ none \notin Positions /\ none \notin Tasks /\ none \notin Results
    /\ MaxTasks \in Nat
    /\ Configs \subseteq [enable_async : BOOLEAN, eval_batch_size : Nat \ {0},
                          stubs : Nat \ {0},
                          search : SUBSET SearchThreads, eval : SUBSET EvalThreads,
                          tasks : SUBSET Tasks, positions : SUBSET Positions,
                          results : SUBSET Results]

VARIABLES
    config,       \* fields of MCTSConfig, the threads there are, the positions and
                  \* number of tasks they come to, the results of the servers
    spc,          \* search threads: program counter
    task,         \* the task a search thread is pushing or waiting for
    position,     \* the position of a task, while it is in flight
    promise,      \* what a search thread that waits for a task has got
    epc,          \* evaluation threads: program counter
    batch,        \* inputs and callbacks collected by an evaluation thread
    cpc,          \* the thread that runs the callbacks of a model: program counter
    ret,          \* the result handed to the callback of EvalRoutine_out
    todo,         \* the part of its batch it has not dealt with
    calls,        \* batches sent to the servers, not completed
    avail,        \* m_avail_stubs: how many
    disabled      \* stubs that wait for the leaky bucket

searchVars == <<config, spc, task, position, promise, evalCache>>
evalVars == <<epc, batch>>
callbackVars == <<cpc, ret, todo>>
clientVars == <<calls, avail, disabled>>
vars == <<taskQueue, searchVars, evalVars, callbackVars, clientVars>>

enable_async == config.enable_async
eval_batch_size == config.eval_batch_size
NumStubs == config.stubs     \* m_stubs of an AsyncDistZeroModelClient

\* The tasks whose callback has not been called.
outstanding == {t \in Tasks : position[t] # none /\ promise[t] = none}

Init ==
    /\ QueueInit /\ CacheInit
    /\ config \in Configs
    /\ spc = [p \in SearchThreads |-> IF p \in config.search THEN "idle" ELSE "gone"]
    /\ task = [p \in SearchThreads |-> none]
    /\ position = [t \in Tasks |-> none]
    /\ promise = [t \in Tasks |-> none]
    /\ epc = [e \in EvalThreads |-> IF e \in config.eval THEN "wait" ELSE "exited"]
    /\ batch = [e \in EvalThreads |-> <<>>]
    /\ cpc = [e \in EvalThreads |-> IF e \in config.eval THEN "test" ELSE "exited"]
    /\ ret = [e \in EvalThreads |-> none]
    /\ todo = [e \in EvalThreads |-> <<>>]
    /\ calls = [e \in EvalThreads |-> {}]
    /\ avail = [e \in EvalThreads |-> NumStubs]
    /\ disabled = [e \in EvalThreads |-> 0]

-----------------------------------------------------------------------------
(* The search threads.                                                     *)

SearchGoto(p, from, to) ==
    /\ spc[p] = from
    /\ spc' = [spc EXCEPT ![p] = to]

\* Eval() looks for the position in the cache, and returns at once if it is there;
\* this is not a step.  If not, it makes a task.
EvalBegin(p) ==
    /\ SearchGoto(p, "idle", "push")
    /\ \E k \in config.positions, t \in config.tasks :
          /\ ~Probe(k)
          /\ position[t] = none /\ \A u \in 1 .. t - 1 : position[u] # none
          /\ position' = [position EXCEPT ![t] = k]
          /\ task' = [task EXCEPT ![p] = t]
    /\ UNCHANGED <<config, promise, evalCache, taskQueue, evalVars, callbackVars,
                   clientVars>>

EvalPush(p) ==
    /\ \/ SearchGoto(p, "push", "notify") /\ PushIn(p, task[p])
       \/ SearchGoto(p, "push", "push") /\ PushSleep(p)
    /\ UNCHANGED <<config, task, position, promise, evalCache, evalVars, callbackVars,
                   clientVars>>

EvalPushed(p) ==
    /\ SearchGoto(p, "notify", IF enable_async THEN "idle" ELSE "await")
    /\ PushNotify
    /\ task' = [task EXCEPT ![p] = IF enable_async THEN none ELSE @]
    /\ UNCHANGED <<config, position, promise, evalCache, evalVars, callbackVars,
                   clientVars>>

\* The callback of Eval(): a position that was evaluated goes into the cache.
Evaluated(t, r) ==
    /\ IF r = "ok" THEN Insert(position[t]) ELSE UNCHANGED evalCache
    /\ position' = [position EXCEPT ![t] = none]

\* future.get() returns; the promise is on the stack of Eval().
EvalReturn(p) ==
    /\ SearchGoto(p, "await", "idle")
    /\ promise[task[p]] # none
    /\ Evaluated(task[p], promise[task[p]])
    /\ promise' = [promise EXCEPT ![task[p]] = none]
    /\ task' = [task EXCEPT ![p] = none]
    /\ UNCHANGED <<config, taskQueue, evalVars, callbackVars, clientVars>>

\* The engine has joined its search threads.
SearchEnd(p) ==
    /\ SearchGoto(p, "idle", "gone")
    /\ UNCHANGED <<config, task, position, promise, evalCache, taskQueue, evalVars,
                   callbackVars, clientVars>>

\* main() closes the queue when the engines are destroyed.
MainClose ==
    /\ \A p \in SearchThreads : spc[p] = "gone"
    /\ ~m_is_close
    /\ Close
    /\ UNCHANGED <<searchVars, evalVars, callbackVars, clientVars>>

-----------------------------------------------------------------------------
(* EvalRoutine_out().                                                      *)

EvalGoto(e, from, to) ==
    /\ epc[e] = from
    /\ epc' = [epc EXCEPT ![e] = to]

\* Wait() of the asynchronous client: until a stub is available.
ModelWait(e) ==
    /\ EvalGoto(e, "wait", "pop")
    /\ enable_async => avail[e] > 0
    /\ batch' = [batch EXCEPT ![e] = <<>>]
    /\ UNCHANGED <<taskQueue, searchVars, callbackVars, clientVars>>

\* The loop that fills a batch.  Its first Pop has no timeout.
BatchPop(e) ==
    /\ EvalGoto(e, "pop", "notify")
    /\ PopTake(e)
    /\ batch' = [batch EXCEPT ![e] = Append(@, Head(m_queue))]
    /\ UNCHANGED <<searchVars, callbackVars, clientVars>>

BatchPopped(e) ==
    /\ EvalGoto(e, "notify",
                IF Len(batch[e]) = eval_batch_size THEN "forward" ELSE "pop")
    /\ PopNotify
    /\ UNCHANGED <<batch, searchVars, callbackVars, clientVars>>

BatchWait(e) ==
    /\ epc[e] = "pop"
    /\ PopSleep(e)
    /\ UNCHANGED <<searchVars, evalVars, callbackVars, clientVars>>

BatchTimeout(e) ==
    /\ EvalGoto(e, "pop", "timed_out")
    /\ batch[e] # <<>>
    /\ PopTimeout(e)
    /\ UNCHANGED <<batch, searchVars, callbackVars, clientVars>>

\* IsClose() is asked again outside the mutex; what has been collected is lost.
BatchEnd(e) ==
    /\ EvalGoto(e, "timed_out", IF m_is_close THEN "destroy" ELSE "forward")
    /\ UNCHANGED <<taskQueue, batch, searchVars, callbackVars, clientVars>>

BatchClosed(e) ==
    /\ EvalGoto(e, "pop", "destroy")
    /\ PopClosed(e)
    /\ UNCHANGED <<batch, searchVars, callbackVars, clientVars>>

\* A synchronous model calls back inside Forward().
Forward(e) ==
    /\ ~enable_async
    /\ EvalGoto(e, "forward", "callback")
    /\ cpc' = [cpc EXCEPT ![e] = "callback"]
    /\ \E r \in config.results : ret' = [ret EXCEPT ![e] = r]
    /\ todo' = [todo EXCEPT ![e] = batch[e]]
    /\ batch' = [batch EXCEPT ![e] = <<>>]
    /\ UNCHANGED <<taskQueue, searchVars, clientVars>>

ForwardReturns(e) ==
    /\ EvalGoto(e, "callback", "wait")
    /\ cpc[e] = "test"
    /\ UNCHANGED <<taskQueue, batch, searchVars, callbackVars, clientVars>>

\* The asynchronous client takes a stub and sends the batch.
AsyncForward(e) ==
    /\ enable_async
    /\ EvalGoto(e, "forward", "wait")
    /\ avail[e] > 0
    /\ avail' = [avail EXCEPT ![e] = @ - 1]
    /\ calls' = [calls EXCEPT ![e] = @ \cup {batch[e]}]
    /\ batch' = [batch EXCEPT ![e] = <<>>]
    /\ UNCHANGED <<taskQueue, searchVars, callbackVars, disabled>>

\* ~AsyncDistZeroModelClient(): Shutdown() of the completion queue, join of the
\* completing thread, all stubs back.  The other models have nothing to wait for.
DestroyModel(e) ==
    /\ EvalGoto(e, "destroy", IF enable_async THEN "join" ELSE "exited")
    /\ UNCHANGED <<taskQueue, batch, searchVars, callbackVars, clientVars>>

JoinComplete(e) ==
    /\ EvalGoto(e, "join", "stubs")
    /\ cpc[e] = "exited"
    /\ UNCHANGED <<taskQueue, batch, searchVars, callbackVars, clientVars>>

StubsReleased(e) ==
    /\ EvalGoto(e, "stubs", "exited")
    /\ avail[e] = NumStubs
    /\ UNCHANGED <<taskQueue, batch, searchVars, callbackVars, clientVars>>

EvalRoutine(e) ==
    \/ ModelWait(e) \/ BatchPop(e) \/ BatchPopped(e) \/ BatchWait(e)
    \/ BatchTimeout(e) \/ BatchEnd(e) \/ BatchClosed(e)
    \/ Forward(e) \/ ForwardReturns(e) \/ AsyncForward(e)
    \/ DestroyModel(e) \/ JoinComplete(e) \/ StubsReleased(e)

-----------------------------------------------------------------------------
(* Complete(): the thread of the completion queue.                         *)

m_is_shutdown(e) == epc[e] \in {"join", "stubs", "exited"}

CompleteGoto(e, from, to) ==
    /\ cpc[e] = from
    /\ cpc' = [cpc EXCEPT ![e] = to]

\* The loop condition: the flag, then the wait for a completion ...
CompleteTest(e) ==
    /\ enable_async
    /\ CompleteGoto(e, "test", IF m_is_shutdown(e) THEN "exited" ELSE "next")
    /\ UNCHANGED <<taskQueue, searchVars, evalVars, ret, todo, clientVars>>

\* ... which also ends when the queue is shut down and has nothing to deliver.
CompleteDrained(e) ==
    /\ CompleteGoto(e, "next", "exited")
    /\ m_is_shutdown(e) /\ calls[e] = {}
    /\ UNCHANGED <<taskQueue, searchVars, evalVars, ret, todo, clientVars>>

\* Variant of CompleteNext: the stub of a call that failed is not given back.
CompleteNextLeaks(e) ==
    /\ CompleteGoto(e, "next", "callback")
    /\ \E b \in calls[e], r \in config.results :
          /\ calls' = [calls EXCEPT ![e] = @ \ {b}]
          /\ todo' = [todo EXCEPT ![e] = b]
          /\ ret' = [ret EXCEPT ![e] = r]
          /\ avail' = IF r = "ok" THEN [avail EXCEPT ![e] = @ + 1] ELSE avail
    /\ UNCHANGED <<taskQueue, searchVars, evalVars, disabled>>

\* A call completes: its stub is given back before the callback runs, or, when
\* the call failed and the leaky bucket is empty, by another thread later.
CompleteNext(e) ==
    /\ CompleteGoto(e, "next", "callback")
    /\ \E b \in calls[e], r \in config.results :
          /\ calls' = [calls EXCEPT ![e] = @ \ {b}]
          /\ todo' = [todo EXCEPT ![e] = b]
          /\ ret' = [ret EXCEPT ![e] = r]
          /\ \/ avail' = [avail EXCEPT ![e] = @ + 1] /\ UNCHANGED disabled
             \/ /\ r # "ok"
                /\ disabled' = [disabled EXCEPT ![e] = @ + 1]
                /\ UNCHANGED avail
    /\ UNCHANGED <<taskQueue, searchVars, evalVars>>

\* The thread of DisableStub() has waited for the refill.
Reenable(e) ==
    /\ disabled[e] > 0
    /\ disabled' = [disabled EXCEPT ![e] = @ - 1]
    /\ avail' = [avail EXCEPT ![e] = @ + 1]
    /\ UNCHANGED <<taskQueue, searchVars, evalVars, callbackVars, calls>>

-----------------------------------------------------------------------------
(* The callback of EvalRoutine_out().                                      *)

\* The callback of a task hands the result to the search thread that waits for it,
\* or, in asynchronous mode, is the rest of Eval() itself.
CallTask(t, r) ==
    IF enable_async
    THEN Evaluated(t, r) /\ UNCHANGED promise
    ELSE promise' = [promise EXCEPT ![t] = r] /\ UNCHANGED <<position, evalCache>>

\* Variant of Requeue: the tasks are also answered, with the error.
RequeueAnswers(e) ==
    /\ ret[e] = "timeout" /\ todo[e] # <<>>
    /\ CompleteGoto(e, "callback", "requeued")
    /\ PushFront(Head(todo[e]))
    /\ CallTask(Head(todo[e]), ret[e])
    /\ todo' = [todo EXCEPT ![e] = Tail(@)]
    /\ UNCHANGED <<config, spc, task, evalVars, ret, clientVars>>

\* Variant of Requeue: the tasks of a batch that timed out are forgotten.
RequeueForgets(e) ==
    /\ ret[e] = "timeout" /\ todo[e] # <<>>
    /\ CompleteGoto(e, "callback", "requeued")
    /\ todo' = [todo EXCEPT ![e] = Tail(@)]
    /\ UNCHANGED <<taskQueue, searchVars, evalVars, ret, clientVars>>

\* A timeout puts the tasks back at the front of the queue, one by one.
Requeue(e) ==
    /\ ret[e] = "timeout" /\ todo[e] # <<>>
    /\ CompleteGoto(e, "callback", "requeued")
    /\ PushFront(Head(todo[e]))
    /\ todo' = [todo EXCEPT ![e] = Tail(@)]
    /\ UNCHANGED <<searchVars, evalVars, ret, clientVars>>

RequeueNotify(e) ==
    /\ CompleteGoto(e, "requeued", "callback")
    /\ PushNotify
    /\ UNCHANGED <<searchVars, evalVars, ret, todo, clientVars>>

\* Any other result is handed to the callback of each task.
Answer(e) ==
    /\ ret[e] # "timeout" /\ todo[e] # <<>>
    /\ CompleteGoto(e, "callback", "callback")
    /\ CallTask(Head(todo[e]), ret[e])
    /\ todo' = [todo EXCEPT ![e] = Tail(@)]
    /\ UNCHANGED <<config, spc, task, taskQueue, evalVars, ret, clientVars>>

CallbackEnd(e) ==
    /\ todo[e] = <<>>
    /\ CompleteGoto(e, "callback", "test")
    /\ ret' = [ret EXCEPT ![e] = none]
    /\ UNCHANGED <<taskQueue, searchVars, evalVars, todo, clientVars>>

Callback(e) == Requeue(e) \/ RequeueNotify(e) \/ Answer(e) \/ CallbackEnd(e)
Complete(e) == CompleteTest(e) \/ CompleteDrained(e) \/ CompleteNext(e)

-----------------------------------------------------------------------------
\* A condition variable may wake a thread that nobody notified.
SpuriousWakeup ==
    /\ \E t \in push_cond \cup pop_cond :
          push_cond' = push_cond \ {t} /\ pop_cond' = pop_cond \ {t}
    /\ UNCHANGED <<m_queue, m_is_close, searchVars, evalVars, callbackVars,
                   clientVars>>

Search(p) == EvalBegin(p) \/ SearchEnd(p)
Eval(p) == EvalPush(p) \/ EvalPushed(p) \/ EvalReturn(p)

Next ==
    \/ \E p \in SearchThreads : Search(p) \/ Eval(p)
    \/ MainClose
    \/ \E e \in EvalThreads :
          EvalRoutine(e) \/ Complete(e) \/ Reenable(e) \/ Callback(e)
    \/ SpuriousWakeup

Spec == Init /\ [][Next]_vars

\* A task that is evaluated again and again does not time out for ever.
ForwardInTime(t) ==
    \E e \in EvalThreads :
        \/ t \in ToSet(batch[e]) /\ Forward(e) /\ ret'[e] # "timeout"
        \/ CompleteNext(e) /\ t \in ToSet(todo'[e]) /\ ret'[e] # "timeout"

\* Every thread is scheduled, RPCs complete by their deadline, and the timeout
\* of a Pop comes however often the thread wakes up before.
Fairness ==
    /\ \A p \in SearchThreads : WF_vars(Eval(p))
    /\ \A e \in EvalThreads :
          /\ WF_vars(EvalRoutine(e)) /\ WF_vars(Complete(e))
          /\ WF_vars(Reenable(e)) /\ WF_vars(Callback(e))
          /\ SF_vars(BatchTimeout(e))
    /\ \A t \in Tasks : SF_vars(ForwardInTime(t))

FairSpec == Spec /\ Fairness

-----------------------------------------------------------------------------
TypeOK ==
    /\ m_queue \in Seq(Tasks) /\ m_is_close \in BOOLEAN
    /\ m_prob_value_map \subseteq Positions /\ m_order \in Seq(Positions)
    /\ push_cond \subseteq SearchThreads /\ pop_cond \subseteq EvalThreads
    /\ spc \in [SearchThreads -> {"idle", "push", "notify", "await", "gone"}]
    /\ task \in [SearchThreads -> Tasks \cup {none}]
    /\ position \in [Tasks -> Positions \cup {none}]
    /\ promise \in [Tasks -> (Results \ {"timeout"}) \cup {none}]
    /\ epc \in [EvalThreads -> {"wait", "pop", "notify", "timed_out", "forward",
                                "callback", "destroy", "join", "stubs", "exited"}]
    /\ cpc \in [EvalThreads -> {"test", "next", "callback", "requeued", "exited"}]
    /\ ret \in [EvalThreads -> Results \cup {none}]
    /\ batch \in [EvalThreads -> Seq(Tasks)] /\ todo \in [EvalThreads -> Seq(Tasks)]
    /\ calls \in [EvalThreads -> SUBSET Seq(Tasks)]
    /\ avail \in [EvalThreads -> Nat] /\ disabled \in [EvalThreads -> Nat]

\* The places where a task may be, and the tasks that are there.
Places ==
    {<<"queue", none, <<>>>>}
      \cup {"push"} \X SearchThreads \X {<<>>}
      \cup {"batch", "todo"} \X EvalThreads \X {<<>>}
      \cup UNION {{"call"} \X {e} \X calls[e] : e \in EvalThreads}

Contents(x) ==
    CASE x[1] = "queue" -> m_queue
      [] x[1] = "push"  -> IF spc[x[2]] = "push" THEN <<task[x[2]]>> ELSE <<>>
      [] x[1] = "batch" -> batch[x[2]]
      [] x[1] = "todo"  -> todo[x[2]]
      [] x[1] = "call"  -> x[3]

Copies(t) ==
    UNION {{x} \X {i \in DOMAIN Contents(x) : Contents(x)[i] = t} : x \in Places}

\* A task whose callback is still to come is in exactly one place, whatever
\* timeouts and retries it has been through, and no task is left anywhere
\* once it is answered: its callback is called exactly once.  In synchronous
\* mode a second call would set the promise of a stack frame that is gone.
OneCopyOfEachTask ==
    \A t \in Tasks : Cardinality(Copies(t)) = IF t \in outstanding THEN 1 ELSE 0

\* No wake-up is lost although a notification wakes one thread only and comes
\* after the mutex is released: when elements wait and an evaluation thread
\* sleeps, or there is room and a pusher sleeps, then somebody is about to
\* notify or to look again.
NoLostWakeup ==
    LET popper(e) == epc[e] = "pop" /\ e \notin pop_cond
        pusher(p) == spc[p] = "push" /\ p \notin push_cond
    IN  /\ m_queue # <<>> /\ pop_cond # {} =>
             \/ \E p \in SearchThreads : spc[p] = "notify"
             \/ \E e \in EvalThreads : cpc[e] = "requeued" \/ popper(e)
        /\ Room /\ push_cond # {} =>
             \/ \E e \in EvalThreads : epc[e] = "notify"
             \/ \E p \in SearchThreads : pusher(p)

\* PushFront may overfill the queue, by no more than the batches that can be
\* with a model at once: one being called back and one for each stub.
OverfillBounded ==
    capacity > 0 =>
        Len(m_queue) <= capacity +
            Cardinality(config.eval) * eval_batch_size *
                (IF enable_async THEN NumStubs + 1 ELSE 1)

\* Stubs in use, available and disabled add up; no two calls share one.
StubsConserved ==
    \A e \in EvalThreads :
        avail[e] + disabled[e] + Cardinality(calls[e]) = NumStubs

\* Every task in the queue is answered in the end, whatever timeouts it meets,
\* unless the queue is closed while it is in flight: the search thread that waits
\* for it returns, the leaf it belongs to is expanded.
EvaluationsArrive ==
    \A t \in Tasks : t \in ToSet(m_queue) ~> t \notin outstanding \/ m_is_close

\* Once the queue is closed and no task is in flight all evaluation threads
\* terminate, whatever stubs are still disabled.
EvalThreadsTerminate ==
    m_is_close /\ outstanding = {} ~> \A e \in EvalThreads : epc[e] = "exited"

\* What main() relies on when it joins them: closing the queue is enough.
EvalThreadsJoin == m_is_close ~> \A e \in EvalThreads : epc[e] = "exited"

=============================================================================
