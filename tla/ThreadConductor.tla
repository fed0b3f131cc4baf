-------------------------- MODULE ThreadConductor --------------------------
(***************************************************************************)
(* ThreadConductor (thread_conductor.cc) and the two WaitGroups it owns    *)
(* (wait_group.cc): the barrier with which an engine starts, pauses and    *)
(* terminates a pool of worker threads.                                    *)
(*                                                                         *)
(* The module gives the methods as actions on the conductor's own state;   *)
(* SearchThreads and MonitorThread add the threads that call them.  Every  *)
(* step is one critical section or one atomic access.  A wait on a         *)
(* condition variable is a guard: both classes change the waited-for state *)
(* under the mutex of the condition variable and test it in a predicate,   *)
(* so a wake-up is never lost, but a waiter may miss a condition that was  *)
(* true only for a moment, which is what weak fairness of a guarded action *)
(* says.                                                                   *)
(***************************************************************************)
EXTENDS Integers

VARIABLES
    m_state,      \* ThreadConductor::m_state
    resume_wg,    \* m_resume_wg.m_counter: workers that must still see Resume
    pause_wg      \* m_pause_wg.m_counter: workers that must still acknowledge

conductor == <<m_state, resume_wg, pause_wg>>

States == {"pause", "running", "terminate"}

\* The constructor: paused, both wait groups empty.
ConductorInit ==
    /\ m_state = "pause"
    /\ resume_wg = 0
    /\ pause_wg = 0

\* WaitGroup::Wait lets a caller through when the counter is zero.
Drained(wg) == wg = 0

IsRunning == m_state = "running"
IsTerminate == m_state = "terminate"

-----------------------------------------------------------------------------
\* Variant of ResumeEnter: the wait group of the pause is not armed.
ResumeEnterHalf(n) ==
    IF IsRunning
    THEN UNCHANGED conductor
    ELSE /\ resume_wg' = resume_wg + n
         /\ m_state' = "running"
         /\ UNCHANGED pause_wg

\* Resume(n), the critical section.  Nothing can tell its assignments apart:
\* a thread that reads one of the counters meanwhile sees it before or after.
ResumeEnter(n) ==
    IF IsRunning
    THEN UNCHANGED conductor
    ELSE /\ resume_wg' = resume_wg + n
         /\ pause_wg' = pause_wg + n
         /\ m_state' = "running"

\* Variant of ResumeReturn: Resume() returns without waiting for the workers.
ResumeReturnEarly == UNCHANGED conductor

\* Resume(n) returns once every worker has taken note.
ResumeReturn == Drained(resume_wg) /\ UNCHANGED conductor

\* Variant of PauseWait: Pause() does not wait for a Resume under way.
PauseWaitSkipped == UNCHANGED conductor

\* Pause() first waits until a Resume under way has reached every worker ...
PauseWait == Drained(resume_wg) /\ UNCHANGED conductor

\* ... and only then takes the mutex: the test above may be stale by now.
PauseSet ==
    /\ m_state' = "pause"
    /\ UNCHANGED <<resume_wg, pause_wg>>

\* Wait() called by a worker: the predicate wait and the test for terminate.
WaitReturns == m_state # "pause"

\* The last line of Wait(), after the mutex is released.
ResumeDone ==
    /\ resume_wg' = resume_wg - 1
    /\ UNCHANGED <<m_state, pause_wg>>

\* AckPause() called by a worker.
AckPause ==
    /\ pause_wg' = pause_wg - 1
    /\ UNCHANGED <<m_state, resume_wg>>

\* Variant of JoinReturn: the result of a Join that timed out is ignored.
JoinUnchecked == UNCHANGED conductor

\* Join() without a timeout.
JoinReturn == Drained(pause_wg) /\ UNCHANGED conductor

\* Variant of TerminateSet: the state stays paused.
TerminateForgets == UNCHANGED conductor

\* The critical section of Terminate(), after its Pause() and Join().
TerminateSet ==
    /\ m_state' = "terminate"
    /\ UNCHANGED <<resume_wg, pause_wg>>

=============================================================================
