------------------------ MODULE MonitorThread_proofs ------------------------
(***************************************************************************)
(* Proofs about MonitorThread: whatever configurations are loaded, before  *)
(* the first search or between two, whenever an engine is destroyed and    *)
(* however many follow each other.  A monitor thread that no Resume ever   *)
(* reached ends the process when its engine is destroyed; that it is the   *)
(* only one is what the invariant says of engines being destroyed (Ending).*)
(***************************************************************************)
EXTENDS MonitorThread, FiniteSums

\* Between its taking note of Resume and its acknowledgement of the pause.
Awake == {"loop", "sleep", "slept", "log", "ack", "check"}
Terminated == ctl \in {"thread_join", "gone"}

\* While the engine is in use the wait group of the pause counts a Resume not yet
\* noted and the thread that is awake; while it is running, the wait group of
\* Resume counts the thread that has not woken yet, and in a pause nothing.
Accounting ==
    ~Terminated =>
        /\ m_state \in {"pause", "running"}
        /\ pause_wg = resume_wg + (IF thread \in Awake THEN 1 ELSE 0)
        /\ resume_wg = IF IsRunning /\ thread \notin Awake THEN 1 ELSE 0
        /\ thread # "exited"
        /\ ~IsRunning => thread \notin {"first_resumed", "resumed"}
        /\ IsRunning => thread \notin {"none", "ack"}

\* Where the engine's calls stand.
Calling ==
    /\ ctl \in {"new", "paused", "resume", "pause_join", "term_join", "term_set"} =>
          m_state = "pause"
    /\ ctl \in {"new", "paused", "resume", "term_set"} => pause_wg = 0
    /\ ctl = "resume_wait" => IsRunning
    /\ ctl \in {"resume", "term_wait", "term_pause", "term_join", "term_set",
                "thread_join"} => thread # "none"
    /\ ctl = "resume" => resumes < MaxResumes
    /\ ctl \notin {"resume_wait"} /\ ~Terminated => resume_wg = 0

\* A terminated thread returns if it has been resumed; else it leaves its first Wait()
\* without a test and acknowledges a pause.
Ending ==
    /\ thread \in {"none", "first_wait", "first_resumed"} => seen = 0
    /\ Terminated => resume_wg = 0
    /\ Terminated /\ pause_wg # 0 => pause_wg = -1 /\ seen = 0 /\ ctl = "thread_join"
    /\ Terminated /\ thread # "none" =>
          /\ m_state = "terminate"
          /\ \/ thread \in {"wait", "check", "exited"}
             \/ thread \in {"first_wait", "loop", "ack"} /\ seen = 0 /\ pause_wg = 0
                  /\ ctl = "thread_join"

\* Each Resume has been noted or is still counted.
Noted == seen + resume_wg = resumes

IInv == TypeOK /\ Accounting /\ Calling /\ Ending /\ Noted

-----------------------------------------------------------------------------
(* The inductive invariant.                                                *)

\* A fresh engine: nothing is counted, and a thread exists exactly if the
\* configuration asks for one.
LEMMA InitIInv == MonitorInit => IInv
BY MonitorAssumption
DEF MonitorInit, ConductorInit, IInv, TypeOK, States, ThreadLabels, CtlLabels, Accounting,
    Calling, Ending, Noted, Terminated, Awake, IsRunning

\* Calls that do not wait: Resume before it reaches the conductor, a reloaded
\* configuration, the destructor's first test, and the next engine.
LEMMA CallsStep ==
    ASSUME IInv, Calls
    PROVE  IInv'
<1> USE MonitorAssumption DEF IInv, TypeOK, States, ThreadLabels, CtlLabels, Terminated,
        Awake, IsRunning, conductor, counts
<1>1. CASE MonitorResumeOff
  BY <1>1 DEF MonitorResumeOff, Accounting, Calling, Ending, Noted
<1>2. CASE MonitorResume
  BY <1>2 DEF MonitorResume, Accounting, Calling, Ending, Noted
<1>3. CASE ReloadConfig
  BY <1>3 DEF ReloadConfig, Accounting, Calling, Ending, Noted
<1>4. CASE Destroy
  BY <1>4 DEF Destroy, Accounting, Calling, Ending, Noted
<1>5. CASE NewEngine
  BY <1>5 DEF NewEngine, Accounting, Calling, Ending, Noted
<1> QED  BY <1>1, <1>2, <1>3, <1>4, <1>5 DEF Calls

\* The calls under way: Resume arms both wait groups and returns when the
\* thread has taken note, Pause changes the state and its join waits for the
\* acknowledgement, and the destructor does the same before it terminates.
LEMMA InsideStep ==
    ASSUME IInv, ~Aborted, Inside
    PROVE  IInv'
<1> USE MonitorAssumption DEF IInv, TypeOK, States, ThreadLabels, CtlLabels, Terminated,
        Awake, IsRunning, conductor, counts, CtlStep, Drained
<1>1. CASE MonitorResumeEnter
  BY <1>1 DEF MonitorResumeEnter, ResumeEnter, Accounting, Calling, Ending, Noted
<1>2. CASE MonitorResumed
  BY <1>2 DEF MonitorResumed, ResumeReturn, Accounting, Calling, Ending, Noted
<1>3. CASE MonitorPauseWait \/ TerminatePauseWait
  BY <1>3 DEF MonitorPauseWait, TerminatePauseWait, PauseWait, Accounting, Calling, Ending,
              Noted
<1>4. CASE MonitorPauseSet \/ TerminatePauseSet
  BY <1>4 DEF MonitorPauseSet, TerminatePauseSet, PauseSet, Accounting, Calling, Ending,
              Noted
<1>5. CASE MonitorPauseJoin \/ TerminateJoin
  BY <1>5 DEF MonitorPauseJoin, TerminateJoin, JoinReturn, Accounting, Calling, Ending,
              Noted
<1>6. CASE TerminateEnd
  BY <1>6 DEF TerminateEnd, TerminateSet, Accounting, Calling, Ending, Noted
<1>7. CASE ThreadJoin
  BY <1>7 DEF ThreadJoin, Aborted, Accounting, Calling, Ending, Noted
<1> QED  BY <1>1, <1>2, <1>3, <1>4, <1>5, <1>6, <1>7 DEF Inside

\* The monitor thread itself.
LEMMA RoutineStep ==
    ASSUME IInv, ~Aborted, MonitorRoutine
    PROVE  IInv'
<1> USE MonitorAssumption DEF IInv, TypeOK, States, ThreadLabels, CtlLabels, Terminated,
        Awake, IsRunning, IsTerminate, conductor, Goto
<1>1. CASE Wait
  BY <1>1 DEF Wait, WaitReturns, Accounting, Calling, Ending, Noted
<1>2. CASE Resumed
  BY <1>2 DEF Resumed, ResumeDone, Accounting, Calling, Ending, Noted
<1>3. CASE Check
  BY <1>3 DEF Check, Accounting, Calling, Ending, Noted
<1>4. CASE Loop
  BY <1>4 DEF Loop, Accounting, Calling, Ending, Noted
<1>5. CASE Sleep \/ Slept \/ Log
  BY <1>5 DEF Sleep, Slept, Log, Accounting, Calling, Ending, Noted
<1>6. CASE Acknowledge
  BY <1>6 DEF Acknowledge, AckPause, Accounting, Calling, Ending, Noted
<1> QED  BY <1>1, <1>2, <1>3, <1>4, <1>5, <1>6 DEF MonitorRoutine

\* The threads that update the statistics touch neither the conductor nor the
\* threads that meet at it.
LEMMA UpdatesStep ==
    ASSUME IInv, Updates \/ UNCHANGED vars
    PROVE  IInv'
<1>1. UNCHANGED <<conductor, thread, ctl, logging, counts>>
  BY DEF Updates, Simulate, Complete, vars
<1> QED
  BY <1>1 DEF IInv, TypeOK, Accounting, Calling, Ending, Noted, Terminated, Awake,
              IsRunning, conductor, counts

\* Every step keeps the invariant.
LEMMA NextIInv == IInv /\ [Next]_vars => IInv'
BY CallsStep, InsideStep, RoutineStep, UpdatesStep DEF Next

-----------------------------------------------------------------------------
(* The theorems.                                                           *)

\* The inductive invariant holds whatever configurations are loaded, and
\* however many engines follow each other.
THEOREM Invariance == Spec => []IInv
BY InitIInv, NextIInv, PTL DEF Spec

\* No acknowledgement and no taking note decrements a wait group that nobody has armed,
\* the case in which WaitGroup::Add throws in the monitor thread, unless no Resume has
\* reached the thread and its engine is destroyed.
THEOREM Throws == Spec => []ThrowsOnlyIfNeverResumed
<1>1. IInv => ThrowsOnlyIfNeverResumed
  BY DEF IInv, TypeOK, Accounting, Ending, ThrowsOnlyIfNeverResumed
<1> QED  BY <1>1, Invariance, PTL

\* Between Pause and the next Resume the monitor thread neither reads the
\* statistics nor is about to.
THEOREM Quiet == Spec => []QuietWhilePaused
<1>1. IInv => QuietWhilePaused
  BY DEF IInv, TypeOK, Accounting, Calling, QuietWhilePaused, Terminated, Awake, IsRunning
<1> QED  BY <1>1, Invariance, PTL

\* A call of Resume returns only when the monitor thread has taken note of it,
\* and the thread takes note of it once.
THEOREM ResumesSeen == Spec => []EveryResumeSeen
<1>1. IInv => EveryResumeSeen
  BY DEF IInv, TypeOK, Calling, Ending, Noted, EveryResumeSeen, Terminated
<1> QED  BY <1>1, Invariance, PTL

-----------------------------------------------------------------------------
(* The statistics.                                                         *)

\* The engine is being destroyed, or there is none.
Over == {"term_wait", "term_pause", "term_join", "term_set", "thread_join", "gone"}

\* The monitor knows LocalMonitors of its own only, and nothing else is counted.
StatisticsTypes ==
    /\ m_id \in Nat /\ updates \in Nat /\ overlapped \in BOOLEAN
    /\ g_local_monitors \in [Updating -> Int]
    /\ \A t \in Updating : g_local_monitors[t] <= m_id
    /\ m_local_monitors \subseteq Updating \X {m_id}
    /\ DOMAIN count \subseteq m_local_monitors
    /\ \A r \in DOMAIN count : count[r] \in Nat
    /\ read \in [Completing -> Nat \cup {None}]

\* While there is an engine, a thread's LocalMonitor is its monitor's exactly if the
\* monitor knows it.
Known ==
    ctl \notin Over =>
        \A t \in Updating : g_local_monitors[t] = m_id <=> <<t, m_id>> \in m_local_monitors

\* A count that a completing thread has read is at least what is there when it writes,
\* and more only if Reset() came between.
Reading ==
    \A e \in Completing : read[e] # None =>
        /\ ctl \notin Over \cup {"new"}
        /\ g_local_monitors[e] = m_id
        /\ read[e] >= Of(count, <<e, m_id>>)
        /\ ~overlapped => read[e] = Of(count, <<e, m_id>>)

SumOfUpdates ==
    /\ Total(count, m_local_monitors) >= updates
    /\ ~overlapped => Total(count, m_local_monitors) = updates

Statistics == StatisticsTypes /\ Known /\ Reading /\ SumOfUpdates

\* There are finitely many LocalMonitors.
LEMMA FinitelyMany ==
    Statistics => /\ IsFiniteSet(m_local_monitors)
                  /\ \A r : Of(count, r) \in Nat
<1> SUFFICES ASSUME Statistics
             PROVE  IsFiniteSet(m_local_monitors) /\ \A r : Of(count, r) \in Nat
  OBVIOUS
<1>1. IsFiniteSet(Updating)
  BY LocalMonitorsAssumption, FS_AddElement, FS_Union DEF Updating
<1>2. IsFiniteSet({m_id})  BY FS_Singleton
<1>3. IsFiniteSet(Updating \X {m_id})  BY <1>1, <1>2, FS_Product
<1>4. IsFiniteSet(m_local_monitors)  BY <1>3, FS_Subset DEF Statistics, StatisticsTypes
<1> QED  BY <1>4 DEF Of, Statistics, StatisticsTypes

\* What GetLocal does: afterwards the thread has a LocalMonitor that the monitor knows.
LEMMA GetLocalStep ==
    ASSUME Statistics, ctl \notin Over, NEW t \in Updating, GetLocal(t)
    PROVE  /\ g_local_monitors' = [g_local_monitors EXCEPT ![t] = m_id]
           /\ m_local_monitors' = m_local_monitors \cup {<<t, m_id>>}
BY DEF GetLocal, Statistics, StatisticsTypes, Known

\* A LocalMonitor that is new has counted nothing.
LEMMA NewLocalAddsNothing ==
    ASSUME Statistics, NEW t \in Updating, <<t, m_id>> \in m_local_monitors \/ ctl \notin Over
    PROVE  Total(count, m_local_monitors \cup {<<t, m_id>>}) = Total(count, m_local_monitors)
<1> DEFINE r == <<t, m_id>>
<1>1. IsFiniteSet(m_local_monitors) /\ \A q : Of(count, q) \in Nat  BY FinitelyMany
<1>2. CASE r \in m_local_monitors
  <2>1. m_local_monitors \cup {r} = m_local_monitors  BY <1>2
  <2> QED  BY <2>1
<1>3. CASE r \notin m_local_monitors
  <2>1. Of(count, r) = 0  BY <1>3 DEF Statistics, StatisticsTypes, Of
  <2> HIDE DEF r
  <2>2. Total(count, m_local_monitors \cup {r}) = Total(count, m_local_monitors)
    BY <1>1, <2>1, TotalMore
  <2> QED  BY <2>2 DEF r
<1> QED  BY <1>2, <1>3

\* GetGlobal() adds the counts up.
LEMMA GlobalIsTotal == Statistics => GetGlobalSum = Total(count, m_local_monitors)
<1> SUFFICES ASSUME Statistics  PROVE GetGlobalSum = Total(count, m_local_monitors)
  OBVIOUS
<1> DEFINE S == m_local_monitors
           sum(s, iter) == IF s = {} THEN 0
                           ELSE CountOf(Picked(s)[1], Picked(s)[2]) + iter[s \ {Picked(s)}]
<1>1. GetGlobalSum = (CHOOSE iter : iter = [s \in SUBSET S |-> sum(s, iter)])[S]
  BY DEF GetGlobalSum, MapThenSumSet, MapThenFoldSet, Picked
<1>2. \A r \in S : CountOf(r[1], r[2]) = Of(count, r)
  <2>1. \A r \in S : r = <<r[1], r[2]>>  BY DEF Statistics, StatisticsTypes
  <2> QED  BY <2>1 DEF CountOf, Of
<1>3. ASSUME NEW iter
      PROVE  iter = [s \in SUBSET S |-> sum(s, iter)] <=> Adding(count, S, iter)
  <2> DEFINE add(s) == IF s = {} THEN 0 ELSE Of(count, Picked(s)) + iter[s \ {Picked(s)}]
  <2>1. ASSUME NEW s \in SUBSET S  PROVE sum(s, iter) = add(s)
    <3>1. s # {} => Picked(s) \in S  BY DEF Picked
    <3> QED  BY <1>2, <3>1
  <2>2. [s \in SUBSET S |-> sum(s, iter)] = [s \in SUBSET S |-> add(s)]  BY <2>1
  <2> QED  BY <2>2 DEF Adding
<1> HIDE DEF sum
<1> QED  BY <1>1, <1>3 DEF Total

\* At the start nothing is counted.
LEMMA StatisticsInit == MonitorInit => Statistics
<1> SUFFICES ASSUME MonitorInit  PROVE Statistics
  OBVIOUS
<1>1. Total(count, {}) = 0  BY TotalEmpty
<1>2. /\ m_id = 0 /\ g_local_monitors = [t \in Updating |-> None] /\ m_local_monitors = {}
      /\ count = [r \in {} |-> 0] /\ read = [e \in Completing |-> None]
      /\ updates = 0 /\ overlapped = FALSE
  BY DEF MonitorInit, MonitorsInit
<1>3. \A t \in Updating : g_local_monitors[t] = -1  BY <1>2 DEF None
<1>4. StatisticsTypes
  <2>1. g_local_monitors \in [Updating -> Int]  BY <1>2 DEF None
  <2>2. DOMAIN count = {}  BY <1>2
  <2>3. read \in [Completing -> Nat \cup {None}]  BY <1>2
  <2>4. \A t \in Updating : g_local_monitors[t] <= m_id
    <3>1. -1 <= 0  OBVIOUS
    <3> QED  BY <1>2, <1>3, <3>1
  <2>5. DOMAIN count \subseteq m_local_monitors /\ \A r \in DOMAIN count : count[r] \in Nat
    BY <2>2
  <2>6. m_id \in Nat /\ updates \in Nat /\ overlapped \in BOOLEAN  BY <1>2
  <2>7. m_local_monitors \subseteq Updating \X {m_id}  BY <1>2
  <2> QED  BY <2>1, <2>3, <2>4, <2>5, <2>6, <2>7 DEF StatisticsTypes
<1>5. Known  BY <1>2, <1>3 DEF Known
<1>6. Reading  BY <1>2 DEF Reading
<1>7. SumOfUpdates  BY <1>1, <1>2 DEF SumOfUpdates
<1> QED  BY <1>4, <1>5, <1>6, <1>7 DEF Statistics

\* What the steps do to the statistics, and where the calls are then.
LEMMA StatisticsKinds ==
    ASSUME [Next]_vars
    PROVE  \/ /\ UNCHANGED monitors
              /\ ctl' \in Over <=> ctl \in Over
              /\ ctl' = "new" <=> ctl = "new"
           \/ Reset /\ ctl \notin Over /\ ctl' \notin Over \cup {"new"}
           \/ GiveUpSlot /\ (\A e \in Completing : read[e] = None) /\ ctl' \in Over
           \/ NextMonitor /\ ctl \in Over /\ ctl' = "new"
           \/ /\ \/ \E w \in SearchThreads : Inc(w)
                 \/ \E e \in Completing : IncRead(e) \/ IncWrite(e)
              /\ ctl \notin Over \cup {"new"} /\ ctl' = ctl
<1> USE DEF Over, CtlStep
<1>1. CASE UNCHANGED vars  BY <1>1 DEF vars
<1>2. CASE Calls
  BY <1>2 DEF Calls, MonitorResumeOff, MonitorResume, ReloadConfig, Destroy, NewEngine
<1>3. CASE Inside
  BY <1>3 DEF Inside, MonitorResumeEnter, MonitorResumed, MonitorPauseWait, MonitorPauseSet,
              MonitorPauseJoin, TerminatePauseWait, TerminatePauseSet, TerminateJoin,
              TerminateEnd, ThreadJoin
<1>4. CASE MonitorRoutine
  BY <1>4 DEF MonitorRoutine, Wait, Resumed, Check, Loop, Sleep, Slept, Log, Acknowledge, Goto
<1>5. CASE Updates
  BY <1>5 DEF Updates, Simulate, Complete
<1> QED  BY <1>1, <1>2, <1>3, <1>4, <1>5 DEF Next

\* Reset() clears the counts; what a completing thread has read it will still write.
LEMMA ResetStep ==
    ASSUME Statistics, Reset, ctl \notin Over, ctl' \notin Over \cup {"new"}
    PROVE  Statistics'
<1>1. PICK S \in SUBSET (Updating \X {m_id}) :
        /\ m_local_monitors' = S /\ m_local_monitors \subseteq S
        /\ g_local_monitors' \in [Updating -> Int]
        /\ \A t \in Updating : /\ g_local_monitors'[t] <= m_id
                               /\ g_local_monitors[t] = m_id => g_local_monitors'[t] = m_id
                               /\ g_local_monitors'[t] = m_id <=> <<t, m_id>> \in S
  <2>1. CASE GetLocal(Caller)
    <3>1. Caller \in Updating  BY DEF Updating
    <3>2. /\ g_local_monitors' = [g_local_monitors EXCEPT ![Caller] = m_id]
          /\ m_local_monitors' = m_local_monitors \cup {<<Caller, m_id>>}
      BY <2>1, <3>1, GetLocalStep
    <3>3. m_local_monitors' \in SUBSET (Updating \X {m_id})
      BY <3>1, <3>2 DEF Statistics, StatisticsTypes
    <3> QED  BY <3>1, <3>2, <3>3 DEF Statistics, StatisticsTypes, Known
  <2>2. CASE UNCHANGED <<g_local_monitors, m_local_monitors>>
    BY <2>2 DEF Statistics, StatisticsTypes, Known
  <2> QED  BY <2>1, <2>2 DEF Reset
<1>2. /\ count' = [r \in DOMAIN count |-> IF r \in m_local_monitors' THEN 0 ELSE count[r]]
      /\ updates' = 0 /\ overlapped' = (\E e \in Completing : read[e] # None)
      /\ UNCHANGED <<m_id, read>>
  BY DEF Reset
<1>3. DOMAIN count' \subseteq m_local_monitors' /\ \A r \in DOMAIN count' : count'[r] = 0
  BY <1>1, <1>2 DEF Statistics, StatisticsTypes
<1>4. \A r : Of(count', r) = 0  BY <1>3 DEF Of
<1>5. StatisticsTypes'  BY <1>1, <1>2, <1>3 DEF Statistics, StatisticsTypes
<1>6. Known'  BY <1>1, <1>2 DEF Known
<1>7. Reading'
  <2> SUFFICES ASSUME NEW e \in Completing, read'[e] # None
               PROVE  /\ ctl' \notin Over \cup {"new"}
                      /\ g_local_monitors'[e] = m_id'
                      /\ read'[e] >= Of(count', <<e, m_id'>>)
                      /\ ~overlapped' => read'[e] = Of(count', <<e, m_id'>>)
    BY DEF Reading
  <2>1. e \in Updating  BY DEF Updating
  <2>2. read[e] # None /\ read[e] \in Nat /\ g_local_monitors[e] = m_id
    BY <1>2 DEF Statistics, StatisticsTypes, Reading
  <2> QED  BY <1>1, <1>2, <1>4, <2>1, <2>2
<1>8. SumOfUpdates'
  <2>1. IsFiniteSet(m_local_monitors')
    <3>1. IsFiniteSet(Updating) /\ IsFiniteSet({m_id})
      BY LocalMonitorsAssumption, FS_AddElement, FS_Union, FS_Singleton DEF Updating
    <3>2. IsFiniteSet(Updating \X {m_id})  BY <3>1, FS_Product
    <3> QED  BY <1>1, <3>2, FS_Subset
  <2>2. Total(count', m_local_monitors') = 0  BY <1>4, <2>1, TotalZero
  <2> QED  BY <1>2, <2>2 DEF SumOfUpdates
<1> QED  BY <1>5, <1>6, <1>7, <1>8 DEF Statistics

\* An update by a search thread.
LEMMA IncStep ==
    ASSUME Statistics, NEW w \in SearchThreads, Inc(w), ctl \notin Over \cup {"new"},
           ctl' = ctl
    PROVE  Statistics'
<1> DEFINE r == <<w, m_id>>
<1>1. w \in Updating /\ w \notin Completing  BY LocalMonitorsAssumption DEF Updating
<1>2. /\ g_local_monitors' = [g_local_monitors EXCEPT ![w] = m_id]
      /\ m_local_monitors' = m_local_monitors \cup {r}
  BY <1>1, GetLocalStep DEF Inc
<1>3. g_local_monitors'[w] = m_id  BY <1>1, <1>2 DEF Statistics, StatisticsTypes
<1>4. CountOf(w, m_id) = Of(count, r)  BY DEF CountOf, Of
<1>5. count' = Put(r, Of(count, r) + 1)  BY <1>3, <1>4 DEF Inc
<1>6. updates' = updates + 1 /\ UNCHANGED <<m_id, read, overlapped>>  BY DEF Inc
<1>7. IsFiniteSet(m_local_monitors) /\ \A q : Of(count, q) \in Nat  BY FinitelyMany
<1>8. /\ DOMAIN count' = DOMAIN count \cup {r}
      /\ count'[r] = Of(count, r) + 1
      /\ \A q \in DOMAIN count \ {r} : count'[q] = count[q]
  BY <1>5 DEF Put
<1>9. /\ Of(count', r) = Of(count, r) + 1
      /\ \A q \in Updating \X {m_id} : q # r => Of(count', q) = Of(count, q)
  BY <1>8 DEF Of
<1>10. StatisticsTypes'
  <2>1. r \in Updating \X {m_id}  BY <1>1
  <2>2. m_local_monitors' \subseteq Updating \X {m_id}'
    BY <1>2, <1>6, <2>1 DEF Statistics, StatisticsTypes
  <2>3. DOMAIN count' \subseteq m_local_monitors'
    BY <1>2, <1>8 DEF Statistics, StatisticsTypes
  <2>4. \A q \in DOMAIN count' : count'[q] \in Nat
    BY <1>7, <1>8 DEF Statistics, StatisticsTypes
  <2>5. /\ g_local_monitors' \in [Updating -> Int]
        /\ \A t \in Updating : g_local_monitors'[t] <= m_id
    <3>1. /\ m_id \in Nat /\ m_id \in Int /\ m_id <= m_id
          /\ g_local_monitors \in [Updating -> Int]
          /\ \A t \in Updating : g_local_monitors[t] <= m_id
      BY DEF Statistics, StatisticsTypes
    <3>2. g_local_monitors' \in [Updating -> Int]  BY <1>2, <3>1
    <3>3. \A t \in Updating : g_local_monitors'[t] = IF t = w THEN m_id ELSE g_local_monitors[t]
      BY <1>2, <3>1
    <3> QED  BY <3>1, <3>2, <3>3
  <2>6. /\ m_id' \in Nat /\ updates' \in Nat /\ overlapped' \in BOOLEAN
        /\ read' \in [Completing -> Nat \cup {None}] /\ m_id' = m_id
    BY <1>6 DEF Statistics, StatisticsTypes
  <2> QED  BY <2>2, <2>3, <2>4, <2>5, <2>6 DEF StatisticsTypes
<1>11. Known'  BY <1>1, <1>2, <1>6 DEF Known, Statistics, StatisticsTypes
<1>12. Reading'
  <2> SUFFICES ASSUME NEW e \in Completing, read'[e] # None
               PROVE  /\ ctl' \notin Over \cup {"new"}
                      /\ g_local_monitors'[e] = m_id'
                      /\ read'[e] >= Of(count', <<e, m_id'>>)
                      /\ ~overlapped' => read'[e] = Of(count', <<e, m_id'>>)
    BY DEF Reading
  <2>1. e # w /\ e \in Updating /\ <<e, m_id>> # r  BY <1>1 DEF Updating
  <2>2. Of(count', <<e, m_id>>) = Of(count, <<e, m_id>>)  BY <1>9, <2>1
  <2>3. g_local_monitors'[e] = g_local_monitors[e]
    BY <1>2, <2>1 DEF Statistics, StatisticsTypes
  <2> HIDE DEF r
  <2> QED  BY <1>6, <2>2, <2>3 DEF Statistics, Reading
<1>13. SumOfUpdates'
  <2> DEFINE S == m_local_monitors \cup {r}
  <2>1. IsFiniteSet(S) /\ r \in S  BY <1>7, FS_AddElement
  <2>2. Total(count, S) = Total(count, m_local_monitors)  BY <1>1, NewLocalAddsNothing
  <2>3. \A q \in S \ {r} : Of(count', q) = Of(count, q)
    BY <1>1, <1>9 DEF Statistics, StatisticsTypes
  <2>4. Of(count', r) \in Nat  BY <1>7, <1>9
  <2> HIDE DEF S, r
  <2>5. Total(count', S) = Total(count, S) - Of(count, r) + Of(count', r)
    BY <1>7, <2>1, <2>3, <2>4, TotalChange
  <2>6. Total(count, S) \in Int  BY <1>7, <2>1, TotalType
  <2>7. Total(count', S) = Total(count, m_local_monitors) + 1
    BY <1>7, <1>9, <2>2, <2>5, <2>6
  <2>8. m_local_monitors' = S  BY <1>2 DEF S
  <2>9. Total(count, m_local_monitors) \in Int /\ updates \in Nat
    BY <2>2, <2>6 DEF Statistics, StatisticsTypes
  <2> HIDE DEF Total
  <2> QED  BY <1>6, <2>7, <2>8, <2>9 DEF Statistics, SumOfUpdates
<1> QED  BY <1>10, <1>11, <1>12, <1>13 DEF Statistics

\* A completing thread reads its count ...
LEMMA IncReadStep ==
    ASSUME Statistics, NEW e \in Completing, IncRead(e), ctl \notin Over \cup {"new"},
           ctl' = ctl
    PROVE  Statistics'
<1> DEFINE r == <<e, m_id>>
<1>1. e \in Updating  BY DEF Updating
<1>2. /\ g_local_monitors' = [g_local_monitors EXCEPT ![e] = m_id]
      /\ m_local_monitors' = m_local_monitors \cup {r}
  BY <1>1, GetLocalStep DEF IncRead
<1>3. g_local_monitors'[e] = m_id  BY <1>1, <1>2 DEF Statistics, StatisticsTypes
<1>4. CountOf(e, m_id) = Of(count, r)  BY DEF CountOf, Of
<1>5. /\ read' = [read EXCEPT ![e] = Of(count, r)]
      /\ UNCHANGED <<m_id, count, updates, overlapped>>
  BY <1>3, <1>4 DEF IncRead
<1>6. IsFiniteSet(m_local_monitors) /\ \A q : Of(count, q) \in Nat  BY FinitelyMany
<1>7. StatisticsTypes'
  <2>1. r \in Updating \X {m_id}  BY <1>1
  <2>2. m_local_monitors' \subseteq Updating \X {m_id}'
    BY <1>2, <1>5, <2>1 DEF Statistics, StatisticsTypes
  <2>3. read' \in [Completing -> Nat \cup {None}]
    <3>1. Of(count, r) \in Nat  BY <1>6
    <3> HIDE DEF r
    <3> QED  BY <1>5, <3>1 DEF Statistics, StatisticsTypes
  <2> QED  BY <1>2, <1>5, <2>2, <2>3 DEF Statistics, StatisticsTypes
<1>8. Known'  BY <1>1, <1>2, <1>5 DEF Known, Statistics, StatisticsTypes
<1>9. Reading'
  <2> SUFFICES ASSUME NEW d \in Completing, read'[d] # None
               PROVE  /\ ctl' \notin Over \cup {"new"}
                      /\ g_local_monitors'[d] = m_id'
                      /\ read'[d] >= Of(count', <<d, m_id'>>)
                      /\ ~overlapped' => read'[d] = Of(count', <<d, m_id'>>)
    BY DEF Reading
  <2>1. d \in Updating  BY DEF Updating
  <2>2. CASE d = e
    <3>1. read'[d] = Of(count, r) /\ Of(count, r) \in Nat
      BY <1>5, <1>6, <2>2 DEF Statistics, StatisticsTypes
    <3> QED  BY <1>3, <1>5, <2>2, <3>1
  <2>3. CASE d # e
    <3>1. read'[d] = read[d]  BY <1>5, <2>3 DEF Statistics, StatisticsTypes
    <3>2. g_local_monitors'[d] = g_local_monitors[d]
      BY <1>2, <2>1, <2>3 DEF Statistics, StatisticsTypes
    <3> QED  BY <1>5, <3>1, <3>2 DEF Statistics, Reading
  <2> QED  BY <2>2, <2>3
<1>10. SumOfUpdates'
  <2>1. Total(count, m_local_monitors') = Total(count, m_local_monitors)
    BY <1>1, <1>2, NewLocalAddsNothing
  <2> QED  BY <1>5, <2>1 DEF Statistics, SumOfUpdates
<1> QED  BY <1>7, <1>8, <1>9, <1>10 DEF Statistics

\* ... and writes one more.
LEMMA IncWriteStep ==
    ASSUME Statistics, NEW e \in Completing, IncWrite(e), ctl \notin Over \cup {"new"},
           ctl' = ctl
    PROVE  Statistics'
<1> DEFINE r == <<e, m_id>>
           S == m_local_monitors
<1>1. e \in Updating  BY DEF Updating
<1>2. /\ read[e] \in Nat /\ g_local_monitors[e] = m_id
      /\ read[e] >= Of(count, r)
      /\ ~overlapped => read[e] = Of(count, r)
  BY DEF IncWrite, Statistics, StatisticsTypes, Reading
<1>3. r \in S  BY <1>1, <1>2 DEF Statistics, Known
<1>4. /\ count' = Put(r, read[e] + 1)
      /\ read' = [read EXCEPT ![e] = None] /\ updates' = updates + 1
      /\ UNCHANGED <<m_id, g_local_monitors, m_local_monitors, overlapped>>
  BY <1>2 DEF IncWrite
<1>5. IsFiniteSet(S) /\ \A q : Of(count, q) \in Nat  BY FinitelyMany
<1>6. /\ DOMAIN count' = DOMAIN count \cup {r}
      /\ count'[r] = read[e] + 1
      /\ \A q \in DOMAIN count \ {r} : count'[q] = count[q]
  BY <1>4 DEF Put
<1>7. /\ Of(count', r) = read[e] + 1
      /\ \A q \in Updating \X {m_id} : q # r => Of(count', q) = Of(count, q)
  BY <1>6 DEF Of
<1>8. StatisticsTypes'
  <2>1. DOMAIN count' \subseteq m_local_monitors'
    BY <1>3, <1>4, <1>6 DEF Statistics, StatisticsTypes
  <2>2. \A q \in DOMAIN count' : count'[q] \in Nat
    BY <1>2, <1>6 DEF Statistics, StatisticsTypes
  <2>3. read' \in [Completing -> Nat \cup {None}]  BY <1>4 DEF Statistics, StatisticsTypes
  <2> QED  BY <1>4, <2>1, <2>2, <2>3 DEF Statistics, StatisticsTypes
<1>9. Known'  BY <1>4 DEF Known, Statistics
<1>10. Reading'
  <2> SUFFICES ASSUME NEW d \in Completing, read'[d] # None
               PROVE  /\ ctl' \notin Over \cup {"new"}
                      /\ g_local_monitors'[d] = m_id'
                      /\ read'[d] >= Of(count', <<d, m_id'>>)
                      /\ ~overlapped' => read'[d] = Of(count', <<d, m_id'>>)
    BY DEF Reading
  <2>1. d # e /\ read'[d] = read[d] /\ d \in Updating
    BY <1>4 DEF Statistics, StatisticsTypes, Updating
  <2>2. <<d, m_id>> # r  BY <2>1
  <2>3. Of(count', <<d, m_id>>) = Of(count, <<d, m_id>>)  BY <1>7, <2>1, <2>2
  <2> HIDE DEF r
  <2> QED  BY <1>4, <2>1, <2>3 DEF Statistics, Reading
<1>11. SumOfUpdates'
  <2>1. \A q \in S \ {r} : Of(count', q) = Of(count, q)
    BY <1>7 DEF Statistics, StatisticsTypes
  <2>2. Of(count', r) \in Nat  BY <1>2, <1>7
  <2>9. updates \in Nat  BY DEF Statistics, StatisticsTypes
  <2> HIDE DEF S, r
  <2>3. Total(count', S) = Total(count, S) - Of(count, r) + Of(count', r)
    BY <1>3, <1>5, <2>1, <2>2, TotalChange
  <2>4. Total(count, S) \in Int /\ Of(count, r) \in Nat  BY <1>5, TotalType
  <2>5. /\ Total(count', S) >= Total(count, S) + 1
        /\ ~overlapped => Total(count', S) = Total(count, S) + 1
    BY <1>2, <1>7, <2>3, <2>4
  <2>6. SumOfUpdates /\ m_local_monitors = S  BY DEF Statistics, S
  <2>7. Total(count', S) \in Int  BY <2>2, <2>3, <2>4
  <2> QED  BY <1>4, <2>4, <2>5, <2>6, <2>7, <2>9 DEF SumOfUpdates
<1> QED  BY <1>8, <1>9, <1>10, <1>11 DEF Statistics

\* Every step keeps the sum of the counts.
LEMMA StatisticsNext == Statistics /\ [Next]_vars => Statistics'
<1> SUFFICES ASSUME Statistics, [Next]_vars  PROVE Statistics'
  OBVIOUS
<1>1. CASE /\ UNCHANGED monitors
           /\ ctl' \in Over <=> ctl \in Over
           /\ ctl' = "new" <=> ctl = "new"
  BY <1>1 DEF monitors, Statistics, StatisticsTypes, Known, Reading, SumOfUpdates
<1>2. CASE Reset /\ ctl \notin Over /\ ctl' \notin Over \cup {"new"}
  BY <1>2, ResetStep
<1>3. CASE GiveUpSlot /\ (\A e \in Completing : read[e] = None) /\ ctl' \in Over
  <2>1. StatisticsTypes'
    BY <1>3 DEF GiveUpSlot, Statistics, StatisticsTypes, None
  <2> QED
    BY <1>3, <2>1 DEF GiveUpSlot, Statistics, Known, Reading, SumOfUpdates
<1>4. CASE NextMonitor /\ ctl \in Over /\ ctl' = "new"
  <2>1. /\ m_id' = m_id + 1 /\ m_local_monitors' = {} /\ count' = [r \in {} |-> 0]
        /\ updates' = 0 /\ overlapped' = FALSE /\ UNCHANGED <<g_local_monitors, read>>
    BY <1>4 DEF NextMonitor
  <2>2. \A e \in Completing : read'[e] = None
    BY <1>4, <2>1 DEF Statistics, Reading
  <2>3. Total(count', {}) = 0  BY TotalEmpty
  <2>4. StatisticsTypes'
    <3>1. m_id \in Nat /\ m_id' \in Nat /\ m_id <= m_id'
      BY <2>1 DEF Statistics, StatisticsTypes
    <3>2. /\ g_local_monitors' \in [Updating -> Int]
          /\ \A t \in Updating : g_local_monitors'[t] <= m_id'
      BY <2>1, <3>1 DEF Statistics, StatisticsTypes
    <3>3. DOMAIN count' = {}  BY <2>1
    <3>4. read' \in [Completing -> Nat \cup {None}]
      BY <2>1 DEF Statistics, StatisticsTypes
    <3> QED  BY <2>1, <3>1, <3>2, <3>3, <3>4 DEF StatisticsTypes
  <2>5. Known'  BY <2>1 DEF Statistics, StatisticsTypes, Known
  <2>6. Reading'  BY <2>2 DEF Reading
  <2>7. SumOfUpdates'  BY <2>1, <2>3 DEF SumOfUpdates
  <2> QED  BY <2>4, <2>5, <2>6, <2>7 DEF Statistics
<1>5. CASE /\ \/ \E w \in SearchThreads : Inc(w)
              \/ \E e \in Completing : IncRead(e) \/ IncWrite(e)
           /\ ctl \notin Over \cup {"new"} /\ ctl' = ctl
  BY <1>5, IncStep, IncReadStep, IncWriteStep
<1> QED  BY <1>1, <1>2, <1>3, <1>4, <1>5, StatisticsKinds

\* What an engine's monitor reports are the updates since Reset(), however many threads
\* count and whichever engines were there before.
THEOREM Counted == Spec => []UpdatesCounted
<1>1. Spec => []Statistics  BY StatisticsInit, StatisticsNext, PTL DEF Spec
<1>2. Statistics => UpdatesCounted
  BY GlobalIsTotal DEF Statistics, SumOfUpdates, UpdatesCounted
<1> QED  BY <1>1, <1>2, PTL

=============================================================================
