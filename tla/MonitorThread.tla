---------------------------- MODULE MonitorThread ----------------------------
(***************************************************************************)
(* MCTSMonitor (mcts_monitor.cc): the second user of ThreadConductor.  The *)
(* engine resumes and pauses one logging thread together with its search;  *)
(* the thread is created by the constructor, or by the first Resume after  *)
(* monitor_log_every_ms has been switched on by a reloaded configuration.  *)
(* The statistics that it reports are those of LocalMonitors.  An engine   *)
(* may be followed by another.  Its search threads are outside the tree    *)
(* when Resume and Pause are called, and it is assumed that no evaluation  *)
(* is in flight when it is destroyed.                                      *)
(***************************************************************************)
EXTENDS ThreadConductor, LocalMonitors

CONSTANTS
    MaxResumes,  \* bound of the model: calls of Resume for an engine
    MaxEngines   \* bound of the model: engines

ASSUME MonitorAssumption == {MaxResumes, MaxEngines} \subseteq Nat

VARIABLES
    thread,      \* program counter of MonitorRoutine, "none" if not created
    ctl,         \* program counter of the engine's calls
    logging,     \* monitor_log_every_ms > 0
    resumes,     \* calls of Resume so far, counted for EveryResumeSeen
    seen         \* calls of Resume the monitor thread has taken note of

counts == <<resumes, seen>>
vars == <<conductor, thread, ctl, logging, counts, monitors>>

ThreadLabels == {"none", "first_wait", "first_resumed", "loop", "sleep", "slept",
                 "log", "ack", "wait", "resumed", "check", "exited"}
CtlLabels == {"new", "paused", "searching", "resume", "resume_wait", "pause_set",
              "pause_join", "term_wait", "term_pause", "term_join", "term_set",
              "thread_join", "gone"}

MonitorInit ==
    /\ ConductorInit
    /\ MonitorsInit
    /\ logging \in BOOLEAN
    /\ thread = IF logging THEN "first_wait" ELSE "none"
    /\ ctl = "new"
    /\ resumes = 0 /\ seen = 0

-----------------------------------------------------------------------------
(* The engine's calls.                                                     *)

CtlStep(from, to) == ctl = from /\ ctl' = to

\* SearchResume() with monitoring off does not reach the conductor.
MonitorResumeOff ==
    /\ ctl \in {"new", "paused"}
    /\ ~logging
    /\ ctl' = "searching"
    /\ Reset
    /\ UNCHANGED <<conductor, thread, logging, counts>>

\* With monitoring on, the thread is created if there is none yet ...
MonitorResume ==
    /\ ctl \in {"new", "paused"}
    /\ logging /\ resumes < MaxResumes
    /\ thread' = IF thread = "none" THEN "first_wait" ELSE thread
    /\ ctl' = "resume"
    /\ Reset
    /\ UNCHANGED <<conductor, logging, counts>>

\* ... and resumed.
MonitorResumeEnter ==
    /\ CtlStep("resume", "resume_wait")
    /\ ResumeEnter(1)
    /\ resumes' = resumes + 1
    /\ UNCHANGED <<thread, logging, seen, monitors>>

MonitorResumed ==
    /\ CtlStep("resume_wait", "searching")
    /\ ResumeReturn
    /\ UNCHANGED <<thread, logging, counts, monitors>>

\* SearchPause() pauses the monitor whether or not it was resumed.
MonitorPauseWait ==
    /\ CtlStep("searching", "pause_set") /\ PauseWait
    /\ UNCHANGED <<thread, logging, counts, monitors>>
MonitorPauseSet ==
    /\ CtlStep("pause_set", "pause_join") /\ PauseSet
    /\ UNCHANGED <<thread, logging, counts, monitors>>
MonitorPauseJoin ==
    /\ CtlStep("pause_join", "paused") /\ JoinReturn
    /\ UNCHANGED <<thread, logging, counts, monitors>>

\* A reloaded configuration takes effect in Move(), after its SearchPause(): between two
\* searches or before the first.
ReloadConfig ==
    /\ ctl \in {"new", "paused"}
    /\ logging' = ~logging
    /\ UNCHANGED <<conductor, thread, ctl, counts, monitors>>

\* ~MCTSMonitor(), before the first search, with the search paused or still on.
Destroy ==
    /\ ctl \in {"new", "paused", "searching"}
    /\ \A e \in Completing : read[e] = None
    /\ ctl' = IF thread = "none" THEN "gone" ELSE "term_wait"
    /\ GiveUpSlot
    /\ UNCHANGED <<conductor, thread, logging, counts>>

TerminatePauseWait ==
    /\ CtlStep("term_wait", "term_pause") /\ PauseWait
    /\ UNCHANGED <<thread, logging, counts, monitors>>
TerminatePauseSet ==
    /\ CtlStep("term_pause", "term_join") /\ PauseSet
    /\ UNCHANGED <<thread, logging, counts, monitors>>
TerminateJoin ==
    /\ CtlStep("term_join", "term_set") /\ JoinReturn
    /\ UNCHANGED <<thread, logging, counts, monitors>>
TerminateEnd ==
    /\ CtlStep("term_set", "thread_join") /\ TerminateSet
    /\ UNCHANGED <<thread, logging, counts, monitors>>
ThreadJoin ==
    /\ thread = "exited"
    /\ CtlStep("thread_join", "gone")
    /\ UNCHANGED <<conductor, thread, logging, counts, monitors>>

\* GTPServing() of the next connection.
NewEngine ==
    /\ ctl = "gone" /\ m_id + 1 < MaxEngines
    /\ m_state' = "pause" /\ resume_wg' = 0 /\ pause_wg' = 0
    /\ logging' \in BOOLEAN
    /\ thread' = IF logging' THEN "first_wait" ELSE "none"
    /\ ctl' = "new"
    /\ resumes' = 0 /\ seen' = 0
    /\ NextMonitor

Calls == MonitorResumeOff \/ MonitorResume \/ ReloadConfig \/ Destroy \/ NewEngine

\* A call under way.
Inside ==
    \/ MonitorResumeEnter \/ MonitorResumed
    \/ MonitorPauseWait \/ MonitorPauseSet \/ MonitorPauseJoin
    \/ TerminatePauseWait \/ TerminatePauseSet \/ TerminateJoin
    \/ TerminateEnd \/ ThreadJoin

-----------------------------------------------------------------------------
(* MonitorRoutine().                                                       *)

Goto(from, to) ==
    /\ thread = from
    /\ thread' = to
    /\ UNCHANGED <<ctl, logging, resumes, monitors>>

\* The first Wait() is not followed by a test for terminate, the others are.
Wait ==
    /\ WaitReturns
    /\ \/ Goto("first_wait", IF IsTerminate THEN "loop" ELSE "first_resumed")
       \/ Goto("wait", IF IsTerminate THEN "check" ELSE "resumed")
    /\ UNCHANGED <<conductor, seen>>

Resumed ==
    /\ \/ Goto("first_resumed", "loop")
       \/ Goto("resumed", "check")
    /\ ResumeDone
    /\ seen' = seen + 1

\* Variant of Check: no test for terminate after a Wait().
CheckNothing ==
    /\ Goto("check", "sleep")
    /\ UNCHANGED <<conductor, seen>>

\* Resumed from a pause, the thread is past the test for the next one.
Check ==
    /\ Goto("check", IF IsTerminate THEN "exited" ELSE "sleep")
    /\ UNCHANGED <<conductor, seen>>

Loop ==
    /\ Goto("loop", IF IsRunning THEN "sleep" ELSE "ack")
    /\ UNCHANGED <<conductor, seen>>

\* Sleep() ends with the pause or with the period; in the latter case it logs.
Sleep ==
    /\ Goto("sleep", "slept")
    /\ UNCHANGED <<conductor, seen>>

Slept ==
    /\ Goto("slept", IF IsRunning THEN "log" ELSE "loop")
    /\ UNCHANGED <<conductor, seen>>

Log ==
    /\ Goto("log", "loop")
    /\ UNCHANGED <<conductor, seen>>

Acknowledge == Goto("ack", "wait") /\ AckPause /\ UNCHANGED seen

MonitorRoutine == Wait \/ Resumed \/ Check \/ Loop
                  \/ Sleep \/ Slept \/ Log \/ Acknowledge

-----------------------------------------------------------------------------
(* The threads that update the statistics.                                 *)

Simulate(w) ==
    /\ ctl = "searching"
    /\ Inc(w)
    /\ UNCHANGED <<conductor, thread, ctl, logging, counts>>

Complete(e) ==
    /\ ctl \notin {"new", "term_wait", "term_pause", "term_join", "term_set",
                   "thread_join", "gone"}
    /\ IncRead(e) \/ IncWrite(e)
    /\ UNCHANGED <<conductor, thread, ctl, logging, counts>>

Updates == (\E w \in SearchThreads : Simulate(w)) \/ (\E e \in Completing : Complete(e))

\* WaitGroup::Add throws when its counter becomes negative.  Nothing catches it in the
\* monitor thread, and the process ends.
Aborted == resume_wg < 0 \/ pause_wg < 0

Next == ~Aborted /\ (Calls \/ Inside \/ MonitorRoutine \/ Updates)

Spec == MonitorInit /\ [][Next]_vars

FairSpec == Spec /\ WF_vars(~Aborted /\ Inside) /\ WF_vars(~Aborted /\ MonitorRoutine)

-----------------------------------------------------------------------------
TypeOK ==
    /\ m_state \in States
    /\ resume_wg \in Int /\ pause_wg \in Int
    /\ thread \in ThreadLabels
    /\ ctl \in CtlLabels
    /\ logging \in BOOLEAN
    /\ resumes \in 0..MaxResumes /\ seen \in 0..MaxResumes

\* WaitGroup::Add throws in one case only: the destructor terminates a monitor thread
\* that no Resume has ever reached, because monitoring was switched off or the engine
\* given up before the first search.  Its first Wait() is not followed by a test for
\* terminate, and it acknowledges a pause that was not asked for.
ThrowsOnlyIfNeverResumed ==
    /\ resume_wg >= 0
    /\ pause_wg < 0 => seen = 0 /\ ctl = "thread_join"

\* Resume, Pause and the destructor return, unless the process ends.
MonitorCallsReturn ==
    ctl \notin {"new", "paused", "searching", "gone"}
        ~> ctl \in {"paused", "searching", "gone"} \/ Aborted

\* Every Resume is taken note of exactly once, before the call returns.
EveryResumeSeen == ctl # "resume_wait" => seen = resumes

\* While the search is paused the monitor thread neither logs nor is about to:
\* the counters it reads and Reset() clears belong to one search.
QuietWhilePaused == ctl \in {"paused", "resume"} => thread \notin {"slept", "log"}

=============================================================================
