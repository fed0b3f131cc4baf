------------------------------ MODULE TaskQueue ------------------------------
(***************************************************************************)
(* TaskQueue (task_queue.h): the bounded queue between the search threads  *)
(* and the evaluation threads.                                             *)
(*                                                                         *)
(* Unlike ThreadConductor, the queue wakes one waiter at a time and does   *)
(* so after it has released the mutex, so the condition variables are part *)
(* of the state: a thread in push_cond or pop_cond sleeps until a          *)
(* notification takes it out, and then tests its predicate again.  An      *)
(* action is one critical section; the notification after it is another.   *)
(***************************************************************************)
EXTENDS Integers, Sequences

CONSTANT capacity    \* 0: unbounded

ASSUME CapacityAssumption == capacity \in Nat

VARIABLES
    m_queue,
    m_is_close,
    push_cond,       \* threads asleep in Push
    pop_cond         \* threads asleep in Pop

taskQueue == <<m_queue, m_is_close, push_cond, pop_cond>>

QueueInit ==
    /\ m_queue = <<>>
    /\ m_is_close = FALSE
    /\ push_cond = {}
    /\ pop_cond = {}

\* What notify_one may leave of the waiters of a condition variable.
NotifyOne(cond) == IF cond = {} THEN {cond} ELSE {cond \ {t} : t \in cond}

\* Variant of Room: off by one.
RoomForOneMore == capacity = 0 \/ Len(m_queue) <= capacity

Room == capacity = 0 \/ Len(m_queue) < capacity

-----------------------------------------------------------------------------
\* Push: the predicate holds and the element goes in ...
PushIn(t, elem) ==
    /\ t \notin push_cond
    /\ Room
    /\ m_queue' = Append(m_queue, elem)
    /\ UNCHANGED <<m_is_close, push_cond, pop_cond>>

\* Variant of PushSleep: a full queue is waited for on the other condition variable.
PushSleepWrong(t) ==
    /\ t \notin push_cond
    /\ ~Room
    /\ pop_cond' = pop_cond \cup {t}
    /\ UNCHANGED <<m_queue, m_is_close, push_cond>>

\* ... or the thread sleeps.  The predicate does not look at m_is_close.
PushSleep(t) ==
    /\ t \notin push_cond
    /\ ~Room
    /\ push_cond' = push_cond \cup {t}
    /\ UNCHANGED <<m_queue, m_is_close, pop_cond>>

\* PushFront does not look at the capacity.
PushFront(elem) ==
    /\ m_queue' = <<elem>> \o m_queue
    /\ UNCHANGED <<m_is_close, push_cond, pop_cond>>

\* Variant of PushNotify: only a Push into an empty queue notifies.
PushNotifyFirst ==
    /\ pop_cond' \in IF Len(m_queue) <= 1 THEN NotifyOne(pop_cond) ELSE {pop_cond}
    /\ UNCHANGED <<m_queue, m_is_close, push_cond>>

\* The notification at the end of Push and of PushFront.
PushNotify ==
    /\ pop_cond' \in NotifyOne(pop_cond)
    /\ UNCHANGED <<m_queue, m_is_close, push_cond>>

\* Pop: takes the first element ...
PopTake(t) ==
    /\ t \notin pop_cond
    /\ m_queue # <<>>
    /\ m_queue' = Tail(m_queue)
    /\ UNCHANGED <<m_is_close, push_cond, pop_cond>>

\* ... or sleeps, ...
PopSleep(t) ==
    /\ t \notin pop_cond
    /\ m_queue = <<>> /\ ~m_is_close
    /\ pop_cond' = pop_cond \cup {t}
    /\ UNCHANGED <<m_queue, m_is_close, push_cond>>

\* ... or finds the queue closed and empty, ...
PopClosed(t) ==
    /\ t \notin pop_cond
    /\ m_queue = <<>> /\ m_is_close
    /\ UNCHANGED taskQueue

\* ... or gives up, when the timeout finds the predicate false.
PopTimeout(t) ==
    /\ m_queue = <<>> /\ ~m_is_close
    /\ pop_cond' = pop_cond \ {t}
    /\ UNCHANGED <<m_queue, m_is_close, push_cond>>

\* The notification at the end of Pop.
PopNotify ==
    /\ push_cond' \in IF capacity > 0 THEN NotifyOne(push_cond) ELSE {push_cond}
    /\ UNCHANGED <<m_queue, m_is_close, pop_cond>>

\* Variant of Close: the threads asleep in Pop are not notified.
CloseQuiet ==
    /\ m_is_close' = TRUE
    /\ push_cond' = {}
    /\ UNCHANGED <<m_queue, pop_cond>>

Close ==
    /\ m_is_close' = TRUE
    /\ push_cond' = {}
    /\ pop_cond' = {}
    /\ UNCHANGED m_queue

=============================================================================
