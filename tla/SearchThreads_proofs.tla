------------------------ MODULE SearchThreads_proofs ------------------------
(***************************************************************************)
(* Proofs about SearchThreads, for any finite set of search threads and of *)
(* completion threads and any configuration.                               *)
(***************************************************************************)
EXTENDS SearchThreads, FiniteSetTheorems, TLAPS

Labels == WorkerLabels \cup EvalLabels

-----------------------------------------------------------------------------
(* Counting the threads at some labels.                                    *)

\* A set of search threads is finite, so its cardinality is a number; it is
\* zero for the empty set only.
LEMMA CountType ==
    ASSUME NEW labels
    PROVE  /\ IsFiniteSet(WorkersAt(labels))
           /\ NumAt(labels) \in Nat
           /\ NumAt(labels) = 0 <=> WorkersAt(labels) = {}
           /\ NumAt(labels) <= Cardinality(Workers)
<1>1. WorkersAt(labels) \subseteq Workers  BY DEF WorkersAt
<1>2. IsFiniteSet(WorkersAt(labels)) /\ NumAt(labels) <= Cardinality(Workers)
  BY <1>1, ThreadsAssumption, FS_Subset DEF NumAt
<1> QED  BY <1>2, FS_CardinalityType, FS_EmptySet DEF NumAt

\* A step of one thread changes its own label only.
LEMMA StepLabel ==
    ASSUME TypeOK, NEW t \in Threads, NEW from, NEW to \in Labels,
           Step(t, from, to)
    PROVE  /\ pc' \in [Threads -> Labels]
           /\ pc[t] = from /\ pc'[t] = to
           /\ \A u \in Threads : u # t => pc'[u] = pc[u]
BY DEF TypeOK, Step, Labels

\* How a step of a search thread changes the number of threads at some labels.
LEMMA CountStep ==
    ASSUME TypeOK, NEW w \in Workers, NEW from, NEW to \in Labels,
           Step(w, from, to), NEW labels
    PROVE  NumAt(labels)' = NumAt(labels) + (IF to \in labels THEN 1 ELSE 0)
                                  - (IF from \in labels THEN 1 ELSE 0)
<1>1. /\ pc[w] = from /\ pc'[w] = to
      /\ \A u \in Workers : u # w => pc'[u] = pc[u]
  BY StepLabel DEF Threads
<1>2. IsFiniteSet(WorkersAt(labels)) /\ NumAt(labels) \in Nat  BY CountType
<1>3. CASE to \in labels /\ from \notin labels
  <2>1. WorkersAt(labels)' = WorkersAt(labels) \cup {w} /\ w \notin WorkersAt(labels)
    BY <1>1, <1>3 DEF WorkersAt
  <2>2. Cardinality(WorkersAt(labels) \cup {w}) = Cardinality(WorkersAt(labels)) + 1
    BY <2>1, <1>2, FS_AddElement
  <2> QED  BY <2>1, <2>2, <1>2, <1>3 DEF NumAt
<1>4. CASE to \notin labels /\ from \in labels
  <2>1. WorkersAt(labels)' = WorkersAt(labels) \ {w} /\ w \in WorkersAt(labels)
    BY <1>1, <1>4 DEF WorkersAt
  <2>2. Cardinality(WorkersAt(labels) \ {w}) = Cardinality(WorkersAt(labels)) - 1
    BY <2>1, <1>2, FS_RemoveElement
  <2> QED  BY <2>1, <2>2, <1>2, <1>4 DEF NumAt
<1>5. CASE to \in labels <=> from \in labels
  <2>1. WorkersAt(labels)' = WorkersAt(labels)
    BY <1>1, <1>5 DEF WorkersAt
  <2> QED  BY <2>1, <1>2, <1>5 DEF NumAt
<1> QED  BY <1>3, <1>4, <1>5

\* A step of a completion thread leaves the search threads where they are.
LEMMA CompletionCount ==
    ASSUME TypeOK, NEW e \in EvalThreads, NEW from, NEW to \in Labels,
           Step(e, from, to), NEW labels
    PROVE  WorkersAt(labels)' = WorkersAt(labels)
<1>1. e \in Threads /\ e \notin Workers /\ Workers \subseteq Threads
  BY ThreadsAssumption DEF Threads
<1> QED  BY <1>1, StepLabel DEF WorkersAt

\* Two disjoint sets of labels are held by at most all search threads.
LEMMA CountDisjoint ==
    ASSUME NEW A, NEW B, A \cap B = {}
    PROVE  /\ NumAt(A) + NumAt(B) = NumAt(A \cup B)
           /\ NumAt(A) + NumAt(B) <= Cardinality(Workers)
<1>0. WorkersAt(A \cup B) = WorkersAt(A) \cup WorkersAt(B)
  BY DEF WorkersAt
<1>1. /\ WorkersAt(A) \cap WorkersAt(B) = {}
      /\ WorkersAt(A) \cup WorkersAt(B) \subseteq Workers
  BY DEF WorkersAt
<1>2. /\ IsFiniteSet(WorkersAt(A)) /\ IsFiniteSet(WorkersAt(B))
      /\ NumAt(A) \in Nat /\ NumAt(B) \in Nat
  BY CountType
<1>3. Cardinality(WorkersAt(A) \cup WorkersAt(B)) = NumAt(A) + NumAt(B)
  BY <1>1, <1>2, FS_Union, FS_EmptySet DEF NumAt
<1>4. Cardinality(WorkersAt(A) \cup WorkersAt(B)) <= Cardinality(Workers)
  BY <1>1, ThreadsAssumption, FS_Subset
<1> QED  BY <1>0, <1>3, <1>4 DEF NumAt

\* The completion threads that run a callback: a thread that starts one, ends
\* one, or stays in it.
LEMMA BusyStep ==
    ASSUME TypeOK, NEW e \in EvalThreads, NEW from, NEW to \in Labels,
           Step(e, from, to)
    PROVE  /\ IsFiniteSet(Busy) /\ Cardinality(Busy) \in Nat
           /\ Cardinality(Busy') = Cardinality(Busy)
                 + (IF to = "free" THEN 0 ELSE 1)
                 - (IF from = "free" THEN 0 ELSE 1)
<1>1. e \in Threads /\ EvalThreads \subseteq Threads  BY DEF Threads
<1>2. /\ pc[e] = from /\ pc'[e] = to
      /\ \A u \in EvalThreads : u # e => pc'[u] = pc[u]
  BY <1>1, StepLabel
<1>3. IsFiniteSet(Busy) /\ Cardinality(Busy) \in Nat
  BY ThreadsAssumption, FS_Subset, FS_CardinalityType DEF Busy
<1>4. CASE to # "free" /\ from = "free"
  <2>1. Busy' = Busy \cup {e} /\ e \notin Busy  BY <1>2, <1>4 DEF Busy
  <2>2. Cardinality(Busy \cup {e}) = Cardinality(Busy) + 1
    BY <2>1, <1>3, FS_AddElement
  <2> QED  BY <2>1, <2>2, <1>3, <1>4
<1>5. CASE to = "free" /\ from # "free"
  <2>1. Busy' = Busy \ {e} /\ e \in Busy  BY <1>2, <1>5 DEF Busy
  <2>2. Cardinality(Busy \ {e}) = Cardinality(Busy) - 1
    BY <2>1, <1>3, FS_RemoveElement
  <2> QED  BY <2>1, <2>2, <1>3, <1>5
<1>6. CASE (to = "free") <=> (from = "free")
  <2>1. Busy' = Busy  BY <1>2, <1>6 DEF Busy
  <2> QED  BY <2>1, <1>3, <1>6
<1> QED  BY <1>3, <1>4, <1>5, <1>6

\* A step of a search thread leaves the completion threads where they are.
LEMMA WorkerBusy ==
    ASSUME TypeOK, NEW w \in Workers, NEW from, NEW to \in Labels,
           Step(w, from, to)
    PROVE  Busy' = Busy /\ \A e \in EvalThreads : pc'[e] = pc[e]
<1>1. w \in Threads /\ w \notin EvalThreads /\ EvalThreads \subseteq Threads
  BY ThreadsAssumption DEF Threads
<1> QED  BY <1>1, StepLabel DEF Busy

\* A step of the calling thread moves nobody else.
LEMMA CallerCount ==
    ASSUME pc' = pc
    PROVE  /\ \A labels : NumAt(labels)' = NumAt(labels)
           /\ Busy' = Busy
BY DEF NumAt, WorkersAt, Busy

\* Nobody is counted twice, nor more often than there are search threads.
LEMMA CountBounds ==
    /\ \A labels : NumAt(labels) \in Nat /\ NumAt(labels) <= Cardinality(Workers)
    /\ NumAt({"counted", "sims_wait", "sims_set"}) + NumAt({"check", "select"})
          <= Cardinality(Workers)
    /\ NumAt(Waiting \cup Resumed) = NumAt(Waiting) + NumAt(Resumed)
    /\ Cardinality(Workers) \in Nat
<1>1. Waiting \cap Resumed = {}  BY DEF Waiting, Resumed
<1> QED
BY <1>1, CountType, CountDisjoint, ThreadsAssumption, FS_CardinalityType

\* With both counters at zero every search thread is parked in Wait().
LEMMA AllParked ==
    ASSUME InFlight, NumAt(Awake) = 0, NumAt(Resumed) = 0, NumAt({"exited"}) = 0
    PROVE  /\ NumAt(Waiting \cup Resumed) = Cardinality(Workers)
           /\ NumAt({"ack"}) = 0
           /\ NumAt({"loop", "ack"} \cup InSimulation) = 0
           /\ NumAt({"sims_set", "size_set"}) = 0
<1>1. \A w \in Workers : pc[w] \in Waiting
  <2>1. /\ WorkersAt(Awake) = {} /\ WorkersAt(Resumed) = {}
        /\ WorkersAt({"exited"}) = {}
    BY CountType
  <2> QED  BY <2>1 DEF WorkersAt, InFlight, WorkerLabels, Awake
<1>2. /\ WorkersAt(Waiting \cup Resumed) = Workers
      /\ WorkersAt({"ack"}) = {}
      /\ WorkersAt({"loop", "ack"} \cup InSimulation) = {}
      /\ WorkersAt({"sims_set", "size_set"}) = {}
  BY <1>1 DEF WorkersAt, InSimulation, Waiting
<1> QED  BY <1>2, FS_EmptySet DEF NumAt

-----------------------------------------------------------------------------
(* The inductive invariant.                                                *)

\* At the start all threads wait and the engine has nothing under way.
LEMMA InitIInv == Init => IInv
<1> SUFFICES ASSUME Init PROVE IInv  OBVIOUS
<1> USE DEF Init, ConductorInit
<1>1. TypeOK
  <2>1. pc \in [Threads -> WorkerLabels \cup EvalLabels]
    BY DEF WorkerLabels, Waiting, EvalLabels
  <2>2. ctl \in CtlLabels  BY DEF CtlLabels
  <2>3. m_state \in States /\ op \in Ops  BY DEF States, Ops
  <2>4. resume_wg \in Int /\ pause_wg \in Int
    BY SMT
  <2>5. m_simulation_counter \in Nat /\ g_eval_tasks_wg \in Nat
    BY SMT
  <2>6. m_is_searching \in BOOLEAN  OBVIOUS
  <2> QED  BY <2>1, <2>2, <2>3, <2>4, <2>5, <2>6 DEF TypeOK
<1>2. \A w \in Workers : pc[w] = "first_wait"
  BY DEF Threads
<1>3. \A e \in EvalThreads : pc[e] = "free"
  BY ThreadsAssumption DEF Threads
<1>4. Busy = {} /\ Cardinality(Busy) = 0
  BY <1>3, FS_EmptySet DEF Busy
<1>5. InFlight
  BY <1>2, <1>3, <1>4 DEF InFlight, WorkerLabels, Waiting, EvalLabels
<1>6. \A labels : "first_wait" \notin labels => NumAt(labels) = 0
  <2> SUFFICES ASSUME NEW labels, "first_wait" \notin labels PROVE NumAt(labels) = 0
    OBVIOUS
  <2>1. WorkersAt(labels) = {}  BY <1>2 DEF WorkersAt
  <2> QED  BY <2>1, CountType
<1>7. Accounting
  BY <1>6 DEF Accounting, Awake, InSimulation, Resumed, IsRunning
<1>8. Ownership
  BY ConfigAssumption DEF Ownership, Owner, Terminated
<1>9. Synchronous
  BY <1>4 DEF Synchronous, Terminated
<1>10. Overrun
  BY <1>6, CountBounds, ConfigAssumption DEF Overrun, IsRunning
<1>11. FreshPause
  BY DEF FreshPause
<1> QED  BY <1>1, <1>5, <1>7, <1>8, <1>9, <1>10, <1>11 DEF IInv

\* A step of the calling thread.
LEMMA CallerStep ==
    ASSUME IInv, Call \/ Controller \/ SearchTimeout
    PROVE  IInv'
<1> USE DEF IInv
<1>1. pc' = pc /\ g_eval_tasks_wg' = g_eval_tasks_wg
  BY DEF Call, Controller, SearchResumeSkip, SearchResumeBegin, InitRoot,
         SearchResumeEnter, SearchResumeReturn, SearchWait, SearchTimeout,
         SearchPauseSkip, SearchPauseWait, SearchPauseSet, SearchPauseJoin, FinishReset,
         FinishMove, FinishLastMove, FinishGenMove, TerminatePauseWait,
         TerminatePauseSet, TerminateJoin, TerminateEnd, JoinThreads,
         CtlStep, search
<1>2. (\A labels : NumAt(labels)' = NumAt(labels)) /\ Busy' = Busy
  BY <1>1, CallerCount
<1>3. InFlight'
  BY <1>1, <1>2 DEF InFlight
<1> USE CountBounds DEF CtlStep, Goto, conductor, engine, search, States
<1>4. ASSUME UNCHANGED conductor, m_is_searching' = m_is_searching,
             m_simulation_counter' \in {0, m_simulation_counter},
             ctl' \in CtlLabels, op' \in Ops,
             Owner' = Owner, Terminated' = Terminated,
             ctl' \notin {"join", "resume_wait", "term_join", "gone"},
             ctl' \in {"pause_set", "term_pause"} => resume_wg = 0,
             ctl' \in {"search_wait", "pause_set"} => m_is_searching,
             ctl' \in {"own", "init_root", "resume_enter"} => ~m_is_searching,
             ctl' \in {"init_root", "resume_enter"} => m_simulation_counter' = 0
      PROVE  IInv'
  <2>1. TypeOK'  BY <1>1, <1>4 DEF TypeOK
  <2>2. Accounting'  BY <1>2, <1>4 DEF Accounting, IsRunning
  <2>3. Ownership'  BY <1>2, <1>4 DEF Ownership
  <2>4. Synchronous'  BY <1>1, <1>2, <1>4 DEF Synchronous
  <2>5. Overrun'  BY <1>1, <1>2, <1>4, ConfigAssumption DEF Overrun, IsRunning, TypeOK
  <2>6. FreshPause'  BY <1>2, <1>4 DEF FreshPause
  <2> QED  BY <1>3, <2>1, <2>2, <2>3, <2>4, <2>5, <2>6
<1>5. CASE Call
  <2>1. UNCHANGED conductor /\ UNCHANGED <<m_is_searching, m_simulation_counter>>
        /\ ctl = "idle" /\ ctl' \in {"pause", "resume", "term_wait", "idle"} /\ op' \in Ops
    BY <1>5 DEF Call, Ops
  <2> QED  BY <2>1, <1>4 DEF Owner, Terminated, CtlLabels
<1>6. CASE SearchResumeSkip \/ SearchResumeBegin
  <2>1. UNCHANGED conductor /\ UNCHANGED <<m_is_searching, op>> /\ ctl = "resume"
    BY <1>6 DEF SearchResumeSkip, SearchResumeBegin
  <2>2. \/ /\ m_is_searching /\ ctl' \in {"search_wait", "idle"}
           /\ UNCHANGED m_simulation_counter
        \/ /\ ~m_is_searching /\ ctl' \in {"init_root", "resume_enter"}
           /\ m_simulation_counter' = 0
    BY <1>6 DEF SearchResumeSkip, SearchResumeBegin, AfterResume
  <2> QED  BY <2>1, <2>2, <1>4 DEF Owner, Terminated, CtlLabels, TypeOK
<1>7. CASE InitRoot \/ JoinThreads
  <2>1. /\ UNCHANGED conductor
        /\ UNCHANGED <<m_is_searching, op, m_simulation_counter>>
        /\ \/ ctl = "init_root" /\ ctl' = "resume_enter"
           \/ /\ ctl = "threads_join" /\ ctl' = "gone"
              /\ \A w \in Workers : pc[w] = "exited"
    BY <1>7 DEF InitRoot, JoinThreads
  <2>2. ctl' = "resume_enter" => ~m_is_searching /\ (~enable_async => m_simulation_counter = 0)
    BY <2>1 DEF Ownership, Overrun
  <2>3. CASE enable_async \/ m_simulation_counter = 0 \/ ctl' = "gone"
    <3>1. TypeOK'  BY <1>1, <2>1 DEF TypeOK, CtlLabels
    <3>2. Accounting'  BY <1>2, <2>1 DEF Accounting, IsRunning, Terminated
    <3>3. Ownership'  BY <1>1, <1>2, <2>1, <2>2 DEF Ownership, Owner, Terminated
    <3>4. Synchronous'  BY <1>1, <1>2, <2>1 DEF Synchronous, Terminated
    <3>5. Overrun'  BY <1>2, <2>1, <2>3 DEF Overrun, IsRunning, Terminated
    <3>6. FreshPause'  BY <1>2, <2>1 DEF FreshPause
    <3> QED  BY <1>3, <3>1, <3>2, <3>3, <3>4, <3>5, <3>6
  <2> QED  BY <2>1, <2>2, <2>3
<1>8. CASE SearchWait \/ SearchTimeout \/ SearchPauseWait \/ SearchPauseSkip
  BY <1>8, <1>4 DEF SearchWait, SearchTimeout, SearchPauseSkip, SearchPauseWait, PauseWait,
                    Drained, Owner, Terminated, CtlLabels, TypeOK
<1>9. CASE FinishReset \/ FinishMove
  <2>1. /\ UNCHANGED conductor /\ UNCHANGED <<m_is_searching, op>> /\ ctl = "own"
        /\ ctl' \in {"resume", "idle"}
        /\ m_simulation_counter' \in {0, m_simulation_counter}
    BY <1>9 DEF FinishReset, FinishMove
  <2> QED  BY <2>1, <1>4 DEF Owner, Terminated, CtlLabels, TypeOK
<1>10. CASE FinishLastMove \/ FinishGenMove \/ TerminatePauseWait
  BY <1>10, <1>4 DEF FinishLastMove, FinishGenMove, TerminatePauseWait, PauseWait,
                     Drained, Owner, Terminated, CtlLabels, TypeOK
<1>11. CASE SearchResumeEnter
  <2>1. /\ ctl = "resume_enter" /\ ctl' = "resume_wait"
        /\ UNCHANGED <<m_is_searching, op, m_simulation_counter>>
        /\ ~m_is_searching /\ pause_wg = 0 /\ m_state = "pause"
    BY <1>11 DEF SearchResumeEnter, Ownership, Owner, Terminated
  <2>2. /\ resume_wg = 0 /\ NumAt(Awake) = 0
        /\ NumAt(Resumed) = 0 /\ NumAt({"exited"}) = 0
    BY <2>1 DEF Accounting, Terminated, TypeOK
  <2>3. /\ resume_wg' = Cardinality(Workers) /\ pause_wg' = Cardinality(Workers)
        /\ m_state' = "running"
    BY <1>11, <2>1, <2>2 DEF SearchResumeEnter, ResumeEnter, IsRunning
  <2>4. /\ NumAt(Waiting \cup Resumed) = Cardinality(Workers)
        /\ NumAt({"ack"}) = 0 /\ NumAt({"sims_set", "size_set"}) = 0
    BY <2>2, AllParked
  <2>5. TypeOK'  BY <1>1, <2>1, <2>3 DEF TypeOK, CtlLabels
  <2>6. Accounting'  BY <1>2, <2>2, <2>3, <2>4 DEF Accounting, IsRunning
  <2>7. Ownership'  BY <2>1 DEF Ownership, Owner, Terminated
  <2>8. Synchronous'  BY <1>1, <1>2, <2>1 DEF Synchronous, Terminated
  <2>9. Overrun'  BY <1>2, <2>1, <2>3, ConfigAssumption DEF Overrun, IsRunning
  <2>10. FreshPause'  BY <1>2, <2>1, <2>3, <2>4 DEF FreshPause
  <2> QED  BY <1>3, <2>5, <2>6, <2>7, <2>8, <2>9, <2>10
<1>12. CASE SearchResumeReturn
  <2>1. /\ ctl = "resume_wait" /\ ctl' \in {"search_wait", "idle"}
        /\ m_is_searching' = TRUE
        /\ UNCHANGED conductor /\ UNCHANGED <<op, m_simulation_counter>>
    BY <1>12 DEF SearchResumeReturn, ResumeReturn, AfterResume
  <2>2. TypeOK'  BY <1>1, <2>1 DEF TypeOK, CtlLabels
  <2>3. Accounting'  BY <1>2, <2>1 DEF Accounting, IsRunning, Terminated
  <2>4. Ownership'  BY <2>1 DEF Ownership, Owner, Terminated
  <2>5. Synchronous'  BY <1>1, <1>2, <2>1 DEF Synchronous, Terminated
  <2>6. Overrun'  BY <1>2, <2>1 DEF Overrun, IsRunning, Terminated
  <2>7. FreshPause'  BY <1>2, <2>1 DEF FreshPause
  <2> QED  BY <1>3, <2>2, <2>3, <2>4, <2>5, <2>6, <2>7
<1>13. CASE SearchPauseSet \/ TerminatePauseSet
  <2>1. /\ m_state' = "pause" /\ UNCHANGED <<resume_wg, pause_wg>>
        /\ UNCHANGED <<m_is_searching, op, m_simulation_counter>>
        /\ \/ ctl = "pause_set" /\ ctl' = "join"
           \/ ctl = "term_pause" /\ ctl' = "term_join"
    BY <1>13 DEF SearchPauseSet, TerminatePauseSet, PauseSet
  <2>2. TypeOK'  BY <1>1, <2>1 DEF TypeOK, CtlLabels
  <2>3. Accounting'  BY <1>2, <2>1 DEF Accounting, IsRunning, Terminated
  <2>4. Ownership'  BY <2>1 DEF Ownership, Owner, Terminated
  <2>5. Synchronous'  BY <1>1, <1>2, <2>1 DEF Synchronous, Terminated
  <2>6. Overrun'
    BY <1>2, <2>1, ConfigAssumption DEF Overrun, IsRunning, TypeOK, Terminated
  <2>7. FreshPause'  BY <1>2, <2>1 DEF FreshPause
  <2> QED  BY <1>3, <2>2, <2>3, <2>4, <2>5, <2>6, <2>7
<1>14. CASE SearchPauseJoin \/ TerminateJoin
  <2>1. /\ UNCHANGED conductor /\ UNCHANGED <<op, m_simulation_counter>>
        /\ pause_wg = 0
        /\ \/ ctl = "join" /\ ctl' = "own" /\ m_is_searching' = FALSE
           \/ ctl = "term_join" /\ ctl' = "term_set" /\ UNCHANGED m_is_searching
    BY <1>14 DEF SearchPauseJoin, TerminateJoin, JoinReturn, Drained
  <2>2. TypeOK'  BY <1>1, <2>1 DEF TypeOK, CtlLabels
  <2>3. Accounting'  BY <1>2, <2>1 DEF Accounting, IsRunning, Terminated
  <2>4. Ownership'  BY <2>1 DEF Ownership, Owner, Terminated
  <2>5. Synchronous'  BY <1>1, <1>2, <2>1 DEF Synchronous, Terminated
  <2>6. Overrun'  BY <1>2, <2>1 DEF Overrun, IsRunning, Terminated
  <2>7. FreshPause'  BY <1>2, <2>1 DEF FreshPause
  <2> QED  BY <1>3, <2>2, <2>3, <2>4, <2>5, <2>6, <2>7
<1>15. CASE TerminateEnd
  <2>1. /\ ctl = "term_set" /\ ctl' = "threads_join"
        /\ UNCHANGED <<m_is_searching, op, m_simulation_counter>>
        /\ m_state' = "terminate" /\ UNCHANGED <<resume_wg, pause_wg>>
        /\ pause_wg = 0 /\ m_state = "pause"
    BY <1>15 DEF TerminateEnd, TerminateSet, Ownership, Owner, Terminated
  <2>2. /\ resume_wg = 0 /\ NumAt(Awake) = 0
        /\ NumAt(Resumed) = 0 /\ NumAt({"exited"}) = 0
    BY <2>1 DEF Accounting, Terminated, TypeOK
  <2>3. NumAt({"loop", "ack"} \cup InSimulation) = 0
    BY <2>2, AllParked
  <2>4. TypeOK'  BY <1>1, <2>1 DEF TypeOK, CtlLabels
  <2>5. Accounting'  BY <2>1 DEF Accounting, Terminated
  <2>6. Ownership'  BY <1>2, <2>1, <2>2 DEF Ownership, Owner, Terminated
  <2>7. Synchronous'  BY <1>1, <1>2, <2>1, <2>2, <2>3 DEF Synchronous, Terminated
  <2>8. Overrun'
    BY <1>2, <2>1, ConfigAssumption DEF Overrun, IsRunning, TypeOK, Terminated
  <2>9. FreshPause'  BY <2>1, <2>2 DEF FreshPause
  <2> QED  BY <1>3, <2>4, <2>5, <2>6, <2>7, <2>8, <2>9
<1> QED
  BY <1>5, <1>6, <1>7, <1>8, <1>9, <1>10, <1>11, <1>12, <1>13, <1>14, <1>15
  DEF Controller

-----------------------------------------------------------------------------
(* Steps of one search thread.                                             *)

\* What a step of one search thread does to one count.
In(label, labels) == IF label \in labels THEN 1 ELSE 0
Moves(from, to, labels) ==
    /\ NumAt(labels)' = NumAt(labels) + In(to, labels) - In(from, labels)
    /\ NumAt(labels) >= In(from, labels)

\* ... and to all the counts of the invariant.
WorkerMoves(from, to) ==
    /\ TypeOK' /\ InFlight' /\ Busy' = Busy
    /\ Moves(from, to, {"exited"})
    /\ Moves(from, to, Awake)
    /\ Moves(from, to, Waiting)
    /\ Moves(from, to, Resumed)
    /\ Moves(from, to, Waiting \cup Resumed)
    /\ Moves(from, to, {"ack"})
    /\ Moves(from, to, {"loop", "ack"} \cup InSimulation)
    /\ Moves(from, to, {"counted", "sims_wait", "sims_set"})
    /\ Moves(from, to, {"sims_set", "size_set"})
    /\ Moves(from, to, {"check", "select"})

\* A thread that is at a label is counted there.
LEMMA Counted ==
    ASSUME NEW w \in Workers, NEW labels, pc[w] \in labels
    PROVE  NumAt(labels) >= 1
<1>1. WorkersAt(labels) # {}  BY DEF WorkersAt
<1> QED  BY <1>1, CountType

\* A step of a search thread inside its own labels preserves InFlight.
LEMMA WorkerInFlight ==
    ASSUME TypeOK, InFlight, NEW w \in Workers, NEW from, NEW to \in WorkerLabels,
           Step(w, from, to), g_eval_tasks_wg' >= g_eval_tasks_wg,
           g_eval_tasks_wg' \in Nat
    PROVE  InFlight'
<1>1. to \in Labels  BY DEF Labels
<1>2. Busy' = Busy /\ \A e \in EvalThreads : pc'[e] = pc[e]
  BY <1>1, WorkerBusy
<1>3. \A u \in Workers : pc'[u] = IF u = w THEN to ELSE pc[u]
  BY <1>1, StepLabel DEF Threads
<1>4. Cardinality(Busy) \in Nat
  BY ThreadsAssumption, FS_Subset, FS_CardinalityType DEF Busy
<1> QED  BY <1>2, <1>3, <1>4 DEF InFlight, TypeOK

\* A worker keeps it, in its loop and in the callback of a synchronous evaluation.
LEMMA WorkerStep ==
    ASSUME IInv, NEW w \in Workers, Worker(w) \/ Callback(w)
    PROVE  IInv'
<1> USE DEF IInv
<1> USE CountBounds
<1> USE DEF conductor, engine, IsRunning, IsTerminate, States
<1>1. w \in Threads  BY DEF Threads
<1>2. ASSUME UNCHANGED engine
      PROVE  Owner' = Owner /\ Terminated' = Terminated
  BY <1>2 DEF Owner, Terminated
<1>3. ASSUME NEW from \in WorkerLabels, NEW to \in WorkerLabels, Step(w, from, to),
             UNCHANGED engine, m_state' \in States,
             resume_wg' \in Int, pause_wg' \in Int,
             m_simulation_counter' \in Nat,
             g_eval_tasks_wg' \in Nat, g_eval_tasks_wg' >= g_eval_tasks_wg
      PROVE  WorkerMoves(from, to)
  <2> HIDE DEF WorkerMoves
  <2>1. to \in Labels  BY DEF Labels
  <2>2. pc' \in [Threads -> Labels] /\ pc[w] = from
    BY <1>1, <1>3, <2>1, StepLabel
  <2>3. TypeOK'  BY <1>3, <2>2 DEF TypeOK, Labels
  <2>4. InFlight'  BY <1>3, WorkerInFlight
  <2>5. Busy' = Busy  BY <1>3, <2>1, WorkerBusy
  <2>6. ASSUME NEW labels PROVE Moves(from, to, labels)
    <3>1. from \in labels => NumAt(labels) >= 1  BY <2>2, Counted
    <3> QED  BY <1>3, <2>1, <3>1, CountStep DEF Moves, In
  <2> QED  BY <2>3, <2>4, <2>5, <2>6 DEF WorkerMoves
<1> USE DEF WorkerMoves, Moves, In
<1>a. UNCHANGED engine /\ pc[w] # "exited"
  BY DEF Worker, Callback, WorkerWait, WorkerResumed, WorkerCheck, WorkerLoop,
         WorkerAck, SimulationFails, SimulationSucceeds, EvalPush, CheckSims,
         SimsPauseWait, SimsPauseSet, CheckSize, SizePauseWait, SizePauseSet,
         CallbackStep, Step
<1>b. Owner' = Owner /\ Terminated' = Terminated /\ ctl' = ctl /\ ctl # "gone"
  BY <1>a, <1>2 DEF Ownership
<1>4. CASE WorkerWait(w)
  <2>1. /\ UNCHANGED <<conductor, engine, m_simulation_counter, g_eval_tasks_wg>>
        /\ m_state # "pause"
    BY <1>4 DEF WorkerWait, WaitReturns
  <2>2. CASE IsTerminate
    <3>1. PICK from \in Waiting, to \in {"first_check", "check"} : Step(w, from, to)
      BY <1>4, <2>2 DEF WorkerWait, Waiting
    <3>2. Terminated  BY <2>2 DEF Accounting
    <3>3. WorkerMoves(from, to)
      <4> HIDE DEF WorkerMoves
      <4>1. from \in WorkerLabels /\ to \in WorkerLabels
        BY DEF WorkerLabels, Waiting, Resumed, InSimulation
      <4> QED  BY <2>1, <3>1, <1>3, <4>1 DEF TypeOK
    <3>4. Accounting'  BY <1>b, <2>1, <3>2 DEF Accounting
    <3>5. Ownership'
      BY <1>b, <2>1, <3>1, <3>2, <3>3 DEF Ownership, Waiting, Resumed
    <3>6. Synchronous'
      BY <1>b, <2>1, <3>1, <3>3 DEF Synchronous, Waiting, InSimulation
    <3>7. Overrun'
      BY <1>b, <2>1, <2>2, <3>2 DEF Overrun
    <3>8. FreshPause'  BY <1>b, <2>1, <2>2, <3>1, <3>3 DEF FreshPause
    <3> QED  BY <3>3, <3>4, <3>5, <3>6, <3>7, <3>8
  <2>3. CASE ~IsTerminate
    <3>1. PICK from \in Waiting, to \in Resumed : Step(w, from, to)
      BY <1>4, <2>3 DEF WorkerWait, Waiting, Resumed
    <3>2. IsRunning /\ ~Terminated  BY <2>1, <2>3 DEF TypeOK, Ownership
    <3>3. WorkerMoves(from, to)
      <4> HIDE DEF WorkerMoves
      <4>1. from \in WorkerLabels /\ to \in WorkerLabels
        BY DEF WorkerLabels, Waiting, Resumed, InSimulation
      <4> QED  BY <2>1, <3>1, <1>3, <4>1 DEF TypeOK
    <3>4. Accounting'
      BY <1>b, <2>1, <3>1, <3>2, <3>3
      DEF Accounting, Awake, InSimulation, Waiting, Resumed
    <3>5. Ownership'  BY <1>b, <2>1, <3>2, <3>3 DEF Ownership
    <3>6. Synchronous'  BY <1>b, <2>1, <3>2, <3>3 DEF Synchronous
    <3>7. Overrun'
      BY <1>b, <2>1, <3>1, <3>3 DEF Overrun, Waiting, Resumed
    <3>8. FreshPause'
      BY <1>b, <2>1, <3>1, <3>2, <3>3 DEF FreshPause, Waiting, Resumed
    <3> QED  BY <3>3, <3>4, <3>5, <3>6, <3>7, <3>8
  <2> QED  BY <2>2, <2>3
<1>5. CASE WorkerResumed(w)
  <2>1. /\ UNCHANGED <<m_state, pause_wg, engine, m_simulation_counter, g_eval_tasks_wg>>
        /\ resume_wg' = resume_wg - 1
    BY <1>5 DEF WorkerResumed, ResumeDone
  <2>2. PICK from \in Resumed, to \in {"first_check", "check"} : Step(w, from, to)
    BY <1>5 DEF WorkerResumed, Resumed
  <2>3. WorkerMoves(from, to)
    <3> HIDE DEF WorkerMoves
    <3>1. from \in WorkerLabels /\ to \in WorkerLabels
      BY DEF WorkerLabels, Waiting, Resumed, InSimulation
    <3> QED  BY <2>1, <2>2, <1>3, <3>1 DEF TypeOK
  <2>4. ~Terminated  BY <2>2, <2>3 DEF Ownership
  <2>5. resume_wg > 0  BY <2>2, <2>3, <2>4 DEF Accounting, TypeOK
  <2>6. Accounting'
    BY <1>b, <2>1, <2>2, <2>3, <2>4
    DEF Accounting, Awake, InSimulation, Waiting, Resumed, TypeOK
  <2>7. Ownership'  BY <1>b, <2>1, <2>3, <2>4 DEF Ownership
  <2>8. Synchronous'  BY <1>b, <2>1, <2>3, <2>4 DEF Synchronous
  <2>9. enable_async \/ IsRunning
    BY <2>4, <2>5 DEF FreshPause, Accounting
  <2>10. Overrun'
    BY <1>b, <2>1, <2>2, <2>3, <2>9 DEF Overrun, Resumed
  <2>11. FreshPause'
    BY <1>b, <2>1, <2>2, <2>3, <2>5 DEF FreshPause, Resumed
  <2> QED  BY <2>3, <2>6, <2>7, <2>8, <2>10, <2>11
<1>6. CASE WorkerCheck(w)
  <2>1. UNCHANGED <<conductor, engine, m_simulation_counter, g_eval_tasks_wg>>
    BY <1>6 DEF WorkerCheck
  <2>2. CASE IsTerminate
    <3>1. PICK from \in {"first_check", "check"} : Step(w, from, "exited")
      BY <1>6, <2>2 DEF WorkerCheck
    <3>2. Terminated  BY <2>2 DEF Accounting
    <3>3. WorkerMoves(from, "exited")
      <4> HIDE DEF WorkerMoves
      <4>1. from \in WorkerLabels /\ "exited" \in WorkerLabels
        BY DEF WorkerLabels, Waiting, Resumed, InSimulation
      <4> QED  BY <2>1, <3>1, <1>3, <4>1 DEF TypeOK
    <3>4. Accounting'  BY <1>b, <2>1, <3>2 DEF Accounting
    <3>5. Ownership'  BY <1>b, <2>1, <3>1, <3>2, <3>3 DEF Ownership, Resumed
    <3>6. Synchronous'
      BY <1>b, <2>1, <3>1, <3>3 DEF Synchronous, InSimulation
    <3>7. Overrun'  BY <1>b, <2>1, <2>2, <3>2 DEF Overrun
    <3>8. FreshPause'  BY <1>b, <2>1, <3>1, <3>3 DEF FreshPause
    <3> QED  BY <3>3, <3>4, <3>5, <3>6, <3>7, <3>8
  <2>3. CASE ~IsTerminate
    <3>1. PICK from \in {"first_check", "check"}, to \in {"loop", "select"} :
             /\ Step(w, from, to)
             /\ from = "check" <=> to = "select"
      BY <1>6, <2>3 DEF WorkerCheck
    <3>2. WorkerMoves(from, to)
      <4> HIDE DEF WorkerMoves
      <4>1. from \in WorkerLabels /\ to \in WorkerLabels
        BY DEF WorkerLabels, Waiting, Resumed, InSimulation
      <4> QED  BY <2>1, <3>1, <1>3, <4>1 DEF TypeOK
    <3>3. Accounting'
      BY <1>b, <2>1, <3>1, <3>2
      DEF Accounting, Awake, InSimulation, Waiting, Resumed
    <3>4. Ownership'
      BY <1>b, <2>1, <3>1, <3>2 DEF Ownership, Resumed
    <3>5. Synchronous'  BY <1>b, <2>1, <2>3, <3>2 DEF Synchronous
    <3>6. Overrun'  BY <1>b, <2>1, <3>1, <3>2 DEF Overrun
    <3>7. FreshPause'  BY <1>b, <2>1, <3>1, <3>2 DEF FreshPause
    <3> QED  BY <3>2, <3>3, <3>4, <3>5, <3>6, <3>7
  <2> QED  BY <2>2, <2>3
<1>7. CASE WorkerLoop(w)
  <2>1. UNCHANGED <<conductor, engine, m_simulation_counter, g_eval_tasks_wg>>
    BY <1>7 DEF WorkerLoop
  <2>2. PICK to \in {"select", "ack"} :
           Step(w, "loop", to) /\ (to = "select" <=> IsRunning)
    BY <1>7 DEF WorkerLoop
  <2>3. WorkerMoves("loop", to)
    <3> HIDE DEF WorkerMoves
    <3>1. "loop" \in WorkerLabels /\ to \in WorkerLabels
      BY DEF WorkerLabels, Waiting, Resumed, InSimulation
    <3> QED  BY <2>1, <2>2, <1>3, <3>1 DEF TypeOK
  <2>4. Accounting'
    BY <1>b, <2>1, <2>2, <2>3
    DEF Accounting, Awake, InSimulation, Waiting, Resumed
  <2>5. Ownership'  BY <1>b, <2>1, <2>2, <2>3 DEF Ownership, Resumed
  <2>6. Synchronous'
    BY <1>b, <2>1, <2>2, <2>3 DEF Synchronous, InSimulation
  <2>7. Overrun'  BY <1>b, <2>1, <2>2, <2>3 DEF Overrun
  <2>8. FreshPause'  BY <1>b, <2>1, <2>2, <2>3 DEF FreshPause
  <2> QED  BY <2>3, <2>4, <2>5, <2>6, <2>7, <2>8
<1>8. CASE WorkerAck(w)
  <2>1. /\ Step(w, "ack", "wait")
        /\ UNCHANGED <<m_state, resume_wg, engine, m_simulation_counter, g_eval_tasks_wg>>
        /\ pause_wg' = pause_wg - 1
    BY <1>8 DEF WorkerAck, AckPause
  <2>2. WorkerMoves("ack", "wait")
    <3> HIDE DEF WorkerMoves
    <3>1. "ack" \in WorkerLabels /\ "wait" \in WorkerLabels
      BY DEF WorkerLabels, Waiting, Resumed, InSimulation
    <3> QED  BY <2>1, <1>3, <3>1 DEF TypeOK
  <2>3. ~Terminated => ~IsRunning /\ pause_wg > 0
    BY <2>2 DEF Accounting, Awake, TypeOK
  <2>4. Accounting'
    BY <1>b, <2>1, <2>2, <2>3
    DEF Accounting, Awake, InSimulation, Waiting, Resumed, TypeOK
  <2>5. Ownership'
    BY <1>b, <2>1, <2>2, <2>3 DEF Ownership, Resumed
  <2>6. Synchronous'
    BY <1>b, <2>1, <2>2 DEF Synchronous, InSimulation
  <2>7. Overrun'  BY <1>b, <2>1, <2>2 DEF Overrun
  <2>8. FreshPause'  BY <1>b, <2>1, <2>2 DEF FreshPause
  <2> QED  BY <2>2, <2>4, <2>5, <2>6, <2>7, <2>8
<1>9. CASE SimulationFails(w) \/ EvalPush(w)
  <2>1. /\ Step(w, "select", "loop")
        /\ UNCHANGED <<conductor, engine, m_simulation_counter>>
        /\ \/ UNCHANGED g_eval_tasks_wg
           \/ enable_async /\ g_eval_tasks_wg' = g_eval_tasks_wg + 1
    BY <1>9 DEF SimulationFails, EvalPush
  <2>2. WorkerMoves("select", "loop")
    <3> HIDE DEF WorkerMoves
    <3>1. "select" \in WorkerLabels /\ "loop" \in WorkerLabels
      BY DEF WorkerLabels, Waiting, Resumed, InSimulation
    <3> QED  BY <2>1, <1>3, <3>1 DEF TypeOK
  <2>3. enable_async \/ ~Terminated
    BY <2>2 DEF Synchronous, InSimulation
  <2>4. Accounting'
    BY <1>b, <2>1, <2>2
    DEF Accounting, Awake, InSimulation, Waiting, Resumed
  <2>5. Ownership'  BY <1>b, <2>1, <2>2 DEF Ownership, Resumed
  <2>6. Synchronous'  BY <1>b, <2>1, <2>2, <2>3 DEF Synchronous
  <2>7. Overrun'  BY <1>b, <2>1, <2>2, ConfigAssumption DEF Overrun, TypeOK
  <2>8. FreshPause'  BY <1>b, <2>1, <2>2 DEF FreshPause
  <2> QED  BY <2>2, <2>4, <2>5, <2>6, <2>7, <2>8
<1>10. CASE SimulationSucceeds(w)
  <2>1. /\ Step(w, "select", "counted")
        /\ UNCHANGED <<conductor, engine, g_eval_tasks_wg>>
        /\ m_simulation_counter' = m_simulation_counter + 1
    BY <1>10 DEF SimulationSucceeds
  <2>2. WorkerMoves("select", "counted")
    <3> HIDE DEF WorkerMoves
    <3>1. "select" \in WorkerLabels /\ "counted" \in WorkerLabels
      BY DEF WorkerLabels, Waiting, Resumed, InSimulation
    <3> QED  BY <2>1, <1>3, <3>1 DEF TypeOK
  <2>3. enable_async \/ ~Terminated
    BY <2>2 DEF Synchronous, InSimulation
  <2>4. Accounting'
    BY <1>b, <2>1, <2>2
    DEF Accounting, Awake, InSimulation, Waiting, Resumed
  <2>5. Ownership'  BY <1>b, <2>1, <2>2 DEF Ownership, Resumed
  <2>6. Synchronous'  BY <1>b, <2>1, <2>2, <2>3 DEF Synchronous
  <2>7. Overrun'
    <3>1. ~Terminated => ctl \notin {"init_root", "resume_enter"}
      BY <2>2 DEF Ownership, Owner, Accounting, Awake, InSimulation, TypeOK
    <3> QED
      BY <1>b, <2>1, <2>2, <2>3, <3>1, ConfigAssumption DEF Overrun, TypeOK
  <2>8. FreshPause'  BY <1>b, <2>1, <2>2 DEF FreshPause
  <2> QED  BY <2>2, <2>4, <2>5, <2>6, <2>7, <2>8
<1>11. CASE CheckSims(w)
  <2>1. UNCHANGED <<conductor, engine, m_simulation_counter, g_eval_tasks_wg>>
    BY <1>11 DEF CheckSims, CallbackStep
  <2>2. PICK to \in {"sims_wait", "size"} :
           /\ Step(w, "counted", to)
           /\ to = "size" => ~(m_simulation_counter > MaxSims)
    BY <1>11 DEF CheckSims, CallbackStep
  <2>3. WorkerMoves("counted", to)
    <3> HIDE DEF WorkerMoves
    <3>1. "counted" \in WorkerLabels /\ to \in WorkerLabels
      BY DEF WorkerLabels, Waiting, Resumed, InSimulation
    <3> QED  BY <2>1, <2>2, <1>3, <3>1 DEF TypeOK
  <2>4. Accounting'
    BY <1>b, <2>1, <2>2, <2>3
    DEF Accounting, Awake, InSimulation, Waiting, Resumed
  <2>5. Ownership'  BY <1>b, <2>1, <2>2, <2>3 DEF Ownership, Resumed
  <2>6. Synchronous'
    BY <1>b, <2>1, <2>2, <2>3 DEF Synchronous, InSimulation
  <2>7. Overrun'
    BY <1>b, <2>1, <2>2, <2>3, ConfigAssumption DEF Overrun, TypeOK
  <2>8. FreshPause'  BY <1>b, <2>1, <2>2, <2>3 DEF FreshPause
  <2> QED  BY <2>3, <2>4, <2>5, <2>6, <2>7, <2>8
<1>12. CASE CheckSize(w) \/ SimsPauseWait(w) \/ SizePauseWait(w)
  <2>1. UNCHANGED <<conductor, engine, m_simulation_counter, g_eval_tasks_wg>>
    BY <1>12 DEF SimsPauseWait, CheckSize, SizePauseWait, CallbackStep, PauseWait
  <2>2. PICK from \in {"size", "sims_wait", "size_wait"},
             to \in {"loop", "sims_set", "size_wait", "size_set"} :
           /\ Step(w, from, to)
           /\ from = "sims_wait" <=> to = "sims_set"
           /\ to \in {"sims_set", "size_set"} => resume_wg = 0
    BY <1>12 DEF SimsPauseWait, CheckSize, SizePauseWait, CallbackStep,
                 CallbackEnd, PauseWait, Drained
  <2>3. WorkerMoves(from, to)
    <3> HIDE DEF WorkerMoves
    <3>1. from \in WorkerLabels /\ to \in WorkerLabels
      BY DEF WorkerLabels, Waiting, Resumed, InSimulation
    <3> QED  BY <2>1, <2>2, <1>3, <3>1 DEF TypeOK
  <2>4. Accounting'
    <3>1. /\ NumAt(Awake)' = NumAt(Awake) /\ NumAt({"ack"})' = NumAt({"ack"})
          /\ NumAt({"exited"})' = NumAt({"exited"})
      BY <2>2, <2>3 DEF Awake, InSimulation
    <3>2. /\ NumAt(Resumed)' = NumAt(Resumed)
          /\ NumAt(Waiting \cup Resumed)' = NumAt(Waiting \cup Resumed)
      BY <2>2, <2>3 DEF Waiting, Resumed
    <3> QED  BY <1>b, <2>1, <3>1, <3>2 DEF Accounting
  <2>5. Ownership'  BY <1>b, <2>1, <2>2, <2>3 DEF Ownership, Resumed
  <2>6. Synchronous'
    BY <1>b, <2>1, <2>2, <2>3 DEF Synchronous, InSimulation
  <2>7. Overrun'  BY <1>b, <2>1, <2>2, <2>3 DEF Overrun
  <2>8. FreshPause'  BY <1>b, <2>1, <2>2, <2>3 DEF FreshPause
  <2> QED  BY <2>3, <2>4, <2>5, <2>6, <2>7, <2>8
<1>13. CASE SimsPauseSet(w) \/ SizePauseSet(w)
  <2>1. /\ UNCHANGED <<engine, m_simulation_counter, g_eval_tasks_wg>>
        /\ UNCHANGED <<resume_wg, pause_wg>>
        /\ m_state' = "pause"
    BY <1>13 DEF SimsPauseSet, SizePauseSet, CallbackStep, PauseSet
  <2>2. PICK from \in {"sims_set", "size_set"}, to \in {"size", "loop"} :
           Step(w, from, to)
    BY <1>13 DEF SimsPauseSet, SizePauseSet, CallbackStep, CallbackEnd
  <2>3. WorkerMoves(from, to)
    <3> HIDE DEF WorkerMoves
    <3>1. from \in WorkerLabels /\ to \in WorkerLabels
      BY DEF WorkerLabels, Waiting, Resumed, InSimulation
    <3> QED  BY <2>1, <2>2, <1>3, <3>1 DEF TypeOK
  <2>4. enable_async \/ ~Terminated
    BY <2>2, <2>3 DEF Synchronous, InSimulation
  <2>5. Accounting'
    BY <1>b, <2>1, <2>2, <2>3
    DEF Accounting, Awake, InSimulation, Waiting, Resumed
  <2>6. Ownership'  BY <1>b, <2>1, <2>2, <2>3 DEF Ownership, Resumed
  <2>7. Synchronous'  BY <1>b, <2>1, <2>3, <2>4 DEF Synchronous
  <2>8. Overrun'
    <3>1. \/ enable_async
          \/ m_simulation_counter
                <= MaxSims + Cardinality(Workers) - NumAt({"check", "select"})
      BY <2>4, ConfigAssumption DEF Overrun, TypeOK
    <3>2. NumAt({"check", "select"})' = NumAt({"check", "select"})
      BY <2>2, <2>3
    <3> QED
      BY <1>b, <2>1, <2>4, <3>1, <3>2, ConfigAssumption DEF Overrun, TypeOK
  <2>9. FreshPause'  BY <1>b, <2>1, <2>2, <2>3 DEF FreshPause
  <2> QED  BY <2>3, <2>5, <2>6, <2>7, <2>8, <2>9
<1> QED
  BY <1>4, <1>5, <1>6, <1>7, <1>8, <1>9, <1>10, <1>11, <1>12, <1>13
  DEF Worker, Callback

-----------------------------------------------------------------------------
(* Steps of one completion thread: they happen in asynchronous mode only.  *)

\* A completion thread keeps it, whatever the result and the phase it arrives in.
LEMMA CompletionStep ==
    ASSUME IInv, NEW e \in EvalThreads, Callback(e) \/ Completion(e)
    PROVE  IInv'
<1> USE DEF IInv, conductor, engine, IsRunning, States
<1>1. e \in Threads /\ e \notin Workers
  BY ThreadsAssumption DEF Threads
<1>2. PICK from \in EvalLabels, to \in EvalLabels :
        /\ Step(e, from, to)
        /\ UNCHANGED <<resume_wg, pause_wg, engine>>
        /\ m_state' \in {m_state, "pause"}
        /\ m_simulation_counter' \in Nat
        /\ g_eval_tasks_wg' = g_eval_tasks_wg
              - (IF from = "done" /\ to = "free" THEN 1 ELSE 0)
        /\ from = "free" => to # "free" /\ g_eval_tasks_wg > Cardinality(Busy)
        /\ to = "free" => from = "done"
  <2>1. CASE CheckSims(e)
    <3>1. Step(e, "counted", "sims_wait") \/ Step(e, "counted", "size")
      BY <2>1 DEF CheckSims, CallbackStep
    <3>2. UNCHANGED <<conductor, engine, m_simulation_counter, g_eval_tasks_wg>>
      BY <2>1 DEF CheckSims, CallbackStep
    <3> QED  BY <3>1, <3>2 DEF EvalLabels, InSimulation, TypeOK
  <2>2. CASE SimsPauseWait(e)
    BY <2>2 DEF SimsPauseWait, PauseWait, CallbackStep, EvalLabels, InSimulation,
                TypeOK
  <2>3. CASE SimsPauseSet(e)
    BY <2>3 DEF SimsPauseSet, PauseSet, CallbackStep, EvalLabels, InSimulation,
                TypeOK
  <2>4. CASE CheckSize(e)
    BY <2>4, <1>1 DEF CheckSize, CallbackEnd, CallbackStep, EvalLabels,
                      InSimulation, TypeOK
  <2>5. CASE SizePauseWait(e)
    BY <2>5 DEF SizePauseWait, PauseWait, CallbackStep, EvalLabels, InSimulation,
                TypeOK
  <2>6. CASE SizePauseSet(e)
    BY <2>6, <1>1 DEF SizePauseSet, PauseSet, CallbackEnd, CallbackStep,
                      EvalLabels, InSimulation, TypeOK
  <2>7. CASE EvalArrives(e)
    BY <2>7 DEF EvalArrives, EvalLabels, InSimulation, TypeOK
  <2>8. CASE EvalDone(e)
    BY <2>8 DEF EvalDone, EvalLabels, InSimulation, TypeOK
  <2> QED
    BY <2>1, <2>2, <2>3, <2>4, <2>5, <2>6, <2>7, <2>8 DEF Callback, Completion
<1>3. to \in Labels  BY DEF Labels
<1>4. /\ pc' \in [Threads -> Labels] /\ pc[e] = from /\ pc'[e] = to
      /\ \A u \in Threads : u # e => pc'[u] = pc[u]
  BY <1>1, <1>2, <1>3, StepLabel
<1>5. /\ IsFiniteSet(Busy) /\ Cardinality(Busy) \in Nat
      /\ Cardinality(Busy') = Cardinality(Busy)
            + (IF to = "free" THEN 0 ELSE 1) - (IF from = "free" THEN 0 ELSE 1)
  BY <1>2, <1>3, BusyStep
<1>6. ASSUME NEW labels PROVE NumAt(labels)' = NumAt(labels)
  BY <1>2, <1>3, CompletionCount DEF NumAt
<1>7. enable_async
  <2> SUFFICES ASSUME ~enable_async PROVE FALSE  OBVIOUS
  <2>1. g_eval_tasks_wg = 0 /\ Busy = {}  BY DEF Synchronous
  <2>2. from = "free"  BY <1>4, <2>1 DEF Busy
  <2> QED  BY <1>2, <1>5, <2>1, <2>2
<1>8. g_eval_tasks_wg' \in Nat /\ g_eval_tasks_wg' >= Cardinality(Busy')
  <2>1. from # "free" => Cardinality(Busy) >= 1
    <3> SUFFICES ASSUME from # "free" PROVE Cardinality(Busy) >= 1  OBVIOUS
    <3>1. Busy # {}  BY <1>4 DEF Busy
    <3> QED  BY <3>1, <1>5, FS_EmptySet
  <2> QED  BY <2>1, <1>2, <1>5 DEF InFlight, TypeOK
<1>9. TypeOK'  BY <1>2, <1>4, <1>8 DEF TypeOK, Labels
<1>10. InFlight'
  <2>1. \A w \in Workers : pc'[w] = pc[w]  BY <1>1, <1>4 DEF Threads
  <2>2. \A u \in EvalThreads : pc'[u] = IF u = e THEN to ELSE pc[u]
    BY <1>4 DEF Threads
  <2>3. Cardinality(Busy)' = Cardinality(Busy')  OBVIOUS
  <2> QED  BY <1>2, <1>8, <2>1, <2>2, <2>3 DEF InFlight
<1>11. Owner' = Owner /\ Terminated' = Terminated
  BY <1>2 DEF Owner, Terminated
<1>12. Accounting'  BY <1>2, <1>6, <1>11 DEF Accounting
<1>13. Ownership'
  <2>1. \A w \in Workers : pc'[w] = pc[w]  BY <1>1, <1>4 DEF Threads
  <2> QED  BY <1>2, <1>6, <1>11, <2>1 DEF Ownership
<1> QED
  BY <1>7, <1>9, <1>10, <1>12, <1>13 DEF Synchronous, FreshPause, Overrun

-----------------------------------------------------------------------------
(* The theorems.                                                           *)

\* Every step keeps it, thread by thread.
LEMMA NextIInv == IInv /\ [Next]_vars => IInv'
<1> SUFFICES ASSUME IInv, [Next]_vars PROVE IInv'  OBVIOUS
<1>1. CASE Call \/ Controller \/ SearchTimeout  BY <1>1, CallerStep
<1>2. ASSUME NEW w \in Workers, Worker(w) \/ Callback(w) PROVE IInv'
  BY <1>2, WorkerStep
<1>3. ASSUME NEW e \in EvalThreads, Callback(e) \/ Completion(e) PROVE IInv'
  BY <1>3, CompletionStep
<1>4. CASE UNCHANGED vars
  BY <1>4 DEF vars, conductor, engine, search, IInv, TypeOK, Accounting, Ownership,
     InFlight, Synchronous, FreshPause, Overrun, NumAt, WorkersAt, Busy, Owner, Terminated,
     IsRunning
<1> QED  BY <1>1, <1>2, <1>3, <1>4 DEF Next, Threads

\* The inductive invariant holds in every mode and configuration.
THEOREM Invariance == Spec => []IInv
BY InitIInv, NextIInv, PTL DEF Spec

\* The counters, labels and evaluation count keep their types; in particular
\* no evaluation is ever delivered twice (g_eval_tasks_wg stays in Nat).
THEOREM TypeCorrect == Spec => []TypeOK
<1>1. IInv => TypeOK  BY DEF IInv
<1> QED  BY Invariance, <1>1, PTL

\* Whenever the calling thread plays, changes the root, reads the result or
\* frees the tree, no search thread is inside a simulation: in synchronous and
\* in asynchronous mode, whoever paused the search.
THEOREM NobodyInside == Spec => []Quiescent
<1>1. IInv => Quiescent
  <2> SUFFICES ASSUME IInv, EngineOwns PROVE Active = {}
    BY DEF Quiescent
  <2> USE DEF IInv
  <2>1. CASE ctl = "gone"
    BY <2>1 DEF Ownership, Active, WorkersAt, InSimulation
  <2>2. CASE ctl # "gone"
    <3>1. Owner = "engine" /\ ~Terminated
      BY <2>2 DEF EngineOwns, Ownership, Owner, Terminated
    <3>2. NumAt(Awake) = 0
      <4>1. pause_wg = 0  BY <3>1 DEF Ownership
      <4> QED  BY <3>1, <4>1, CountBounds DEF Accounting, TypeOK
    <3>3. WorkersAt(Awake) = {}  BY <3>2, CountType
    <3> QED  BY <3>3 DEF Active, WorkersAt, Awake
  <2> QED  BY <2>1, <2>2
<1> QED  BY Invariance, <1>1, PTL

\* In synchronous mode neither wait group is ever decremented below zero, the
\* case in which WaitGroup::Add throws.
THEOREM NoThrow == ~enable_async /\ Spec => []WaitGroupsNeverThrow
<1>1. ~enable_async /\ IInv => WaitGroupsNeverThrow
  BY CountBounds DEF IInv, Accounting, Synchronous, WaitGroupsNeverThrow, TypeOK
<1>2. CASE enable_async  BY <1>2
<1>3. CASE ~enable_async  BY <1>1, <1>3, Invariance, PTL
<1> QED  BY <1>2, <1>3

\* In synchronous mode a search overruns max_simulations_per_step by at most
\* one simulation per search thread.
THEOREM OverrunBound == ~enable_async /\ Spec => []BoundedOverrun
<1>1. ~enable_async /\ IInv => BoundedOverrun
  BY CountBounds, ConfigAssumption DEF IInv, Overrun, BoundedOverrun, TypeOK
<1>2. CASE enable_async  BY <1>2
<1>3. CASE ~enable_async  BY <1>1, <1>3, Invariance, PTL
<1> QED  BY <1>2, <1>3

-----------------------------------------------------------------------------
(* The refinement.                                                         *)

\* Nobody is inside a simulation where a join has been passed.
LEMMA JoinedInactive ==
    ASSUME IInv, pause_wg = 0, ~Terminated
    PROVE  Active = {}
<1>1. NumAt(Awake) = 0  BY CountBounds DEF IInv, Accounting, TypeOK
<1>2. WorkersAt(Awake) = {}  BY <1>1, CountType
<1> QED  BY <1>2 DEF Active, WorkersAt, Awake

\* The caller hands the tree over, takes it back, or is not seen.
LEMMA CallerRefines ==
    ASSUME IInv, Call \/ Controller \/ SearchTimeout
    PROVE  Phases!HandOver \/ Phases!TakeBack \/ UNCHANGED <<Owner, Active>>
<1> USE DEF CtlStep, Goto
<1>1. Active' = Active
  BY DEF Call, Controller, SearchResumeSkip, SearchResumeBegin, InitRoot,
         SearchResumeEnter, SearchResumeReturn, SearchWait, SearchTimeout,
         SearchPauseSkip, SearchPauseWait, SearchPauseSet, SearchPauseJoin, FinishReset,
         FinishMove, FinishLastMove, FinishGenMove, TerminatePauseWait,
         TerminatePauseSet, TerminateJoin, TerminateEnd, JoinThreads,
         search, Active, WorkersAt
<1>2. CASE SearchResumeEnter
  <2>1. Owner = "engine" /\ Owner' = "search"
    BY <1>2 DEF SearchResumeEnter, Owner, Terminated, IInv, Ownership
  <2> QED  BY <1>1, <2>1 DEF Phases!HandOver
<1>3. CASE SearchPauseJoin
  <2>1. Owner = "search" /\ Owner' = "engine" /\ pause_wg = 0 /\ ~Terminated
    BY <1>3 DEF SearchPauseJoin, JoinReturn, Drained, Owner, Terminated, IInv,
                Ownership
  <2> QED  BY <1>1, <2>1, JoinedInactive DEF Phases!TakeBack
<1>4. CASE TerminateJoin
  <2>1. Owner' = "engine" /\ pause_wg = 0 /\ ~Terminated
    BY <1>4 DEF TerminateJoin, JoinReturn, Drained, Owner, Terminated
  <2>2. Owner \in {"engine", "search"}  BY DEF Owner
  <2> QED  BY <1>1, <2>1, <2>2, JoinedInactive DEF Phases!TakeBack
<1>5. CASE SearchResumeReturn
  BY <1>1, <1>5 DEF SearchResumeReturn, Owner, Terminated, AfterResume
<1>6. CASE TerminateEnd
  <2>1. Owner = "engine" /\ Owner' = "search"
    BY <1>6 DEF TerminateEnd, Owner
  <2> QED  BY <1>1, <2>1 DEF Phases!HandOver
<1>11. CASE JoinThreads
  <2>1. Owner = "search" /\ Owner' = "engine" /\ Active = {}
    BY <1>11 DEF JoinThreads, Owner, Active, WorkersAt, InSimulation
  <2> QED  BY <1>1, <2>1 DEF Phases!TakeBack
<1>7. CASE Call \/ SearchResumeSkip
  BY <1>1, <1>7 DEF Call, SearchResumeSkip, AfterResume, Owner, Terminated
<1>8. CASE SearchResumeBegin \/ InitRoot \/ SearchWait \/ SearchTimeout
           \/ SearchPauseSkip \/ SearchPauseWait \/ SearchPauseSet
  BY <1>1, <1>8 DEF SearchResumeBegin, InitRoot, SearchWait, SearchTimeout, SearchPauseSkip,
     SearchPauseWait, SearchPauseSet, Owner, Terminated
<1>9. CASE FinishReset \/ FinishMove \/ FinishLastMove \/ FinishGenMove
  BY <1>1, <1>9 DEF FinishReset, FinishMove, FinishLastMove, FinishGenMove,
     Owner, Terminated
<1>10. CASE TerminatePauseWait \/ TerminatePauseSet
  BY <1>1, <1>10 DEF TerminatePauseWait, TerminatePauseSet, Owner, Terminated
<1> QED
  BY <1>2, <1>3, <1>4, <1>5, <1>6, <1>7, <1>8, <1>9, <1>10, <1>11
  DEF Controller

\* A worker begins a simulation, ends one, or is not seen.
LEMMA WorkerRefines ==
    ASSUME IInv, NEW w \in Workers, Worker(w) \/ Callback(w)
    PROVE  Phases!BeginSimulation(w) \/ Phases!EndSimulation(w)
             \/ UNCHANGED <<Owner, Active>>
<1>1. w \in Threads  BY DEF Threads
<1>2. UNCHANGED engine
  BY DEF Worker, Callback, WorkerWait, WorkerResumed, WorkerCheck, WorkerLoop,
         WorkerAck, SimulationFails, SimulationSucceeds, EvalPush, CheckSims,
         SimsPauseWait, SimsPauseSet, CheckSize, SizePauseWait, SizePauseSet,
         CallbackStep
<1>3. UNCHANGED Owner  BY <1>2 DEF engine, Owner, Terminated
<1>4. PICK from \in WorkerLabels, to \in WorkerLabels :
        /\ Step(w, from, to)
        /\ from \notin InSimulation /\ to \in InSimulation
              => IsRunning \/ from = "check"
  <2>1. CASE WorkerWait(w) \/ WorkerResumed(w)
    BY <2>1 DEF WorkerWait, WorkerResumed, WorkerLabels, Waiting, Resumed,
                InSimulation
  <2>2. CASE WorkerCheck(w) \/ WorkerLoop(w) \/ WorkerAck(w)
    BY <2>2 DEF WorkerCheck, WorkerLoop, WorkerAck, WorkerLabels, Waiting,
                InSimulation
  <2>3. CASE SimulationFails(w) \/ SimulationSucceeds(w) \/ EvalPush(w)
    BY <2>3 DEF SimulationFails, SimulationSucceeds, EvalPush, WorkerLabels,
                InSimulation
  <2>4. CASE Callback(w)
    BY <2>4 DEF Callback, CheckSims, SimsPauseWait, SimsPauseSet, CheckSize,
                SizePauseWait, SizePauseSet, CallbackStep, CallbackEnd,
                WorkerLabels, InSimulation
  <2> QED  BY <2>1, <2>2, <2>3, <2>4 DEF Worker
<1>5. /\ pc[w] = from /\ pc'[w] = to
      /\ \A u \in Workers : u # w => pc'[u] = pc[u]
  BY <1>1, <1>4, StepLabel DEF Threads, Labels, IInv
<1>6. IsRunning \/ from = "check" => Owner = "search"
  <2>1. Owner \in {"engine", "search"}  BY DEF Owner
  <2>2. CASE IsRunning  BY <2>1, <2>2 DEF IInv, Ownership, IsRunning
  <2>3. CASE from = "check" /\ Terminated
    BY <1>5, <2>3 DEF IInv, Ownership, Owner, Terminated
  <2>4. CASE from = "check" /\ ~Terminated
    <3>1. NumAt(Awake) > 0
      <4>1. w \in WorkersAt(Awake)  BY <1>5, <2>4 DEF WorkersAt, Awake
      <4> QED  BY <4>1, CountType
    <3>2. pause_wg > 0
      BY <2>4, <3>1, CountBounds DEF IInv, Accounting, TypeOK
    <3> QED  BY <2>1, <2>4, <3>2 DEF IInv, Ownership
  <2> QED  BY <2>2, <2>3, <2>4
<1>7. CASE from \in InSimulation <=> to \in InSimulation
  <2>1. Active' = Active  BY <1>5, <1>7 DEF Active, WorkersAt
  <2> QED  BY <1>3, <2>1
<1>8. CASE from \notin InSimulation /\ to \in InSimulation
  <2>1. Active' = Active \cup {w} /\ w \notin Active
    BY <1>5, <1>8 DEF Active, WorkersAt
  <2> QED  BY <1>3, <1>4, <1>6, <1>8, <2>1 DEF Phases!BeginSimulation
<1>9. CASE from \in InSimulation /\ to \notin InSimulation
  <2>1. Active' = Active \ {w} /\ w \in Active
    BY <1>5, <1>9 DEF Active, WorkersAt
  <2> QED  BY <1>3, <2>1 DEF Phases!EndSimulation
<1> QED  BY <1>7, <1>8, <1>9

\* A completion thread is not seen.
LEMMA CompletionRefines ==
    ASSUME IInv, NEW e \in EvalThreads, Callback(e) \/ Completion(e)
    PROVE  UNCHANGED <<Owner, Active>>
<1>1. e \in Threads /\ e \notin Workers
  BY ThreadsAssumption DEF Threads
<1>2. UNCHANGED engine
  BY DEF Callback, Completion, EvalArrives, EvalDone, CheckSims, SimsPauseWait,
         SimsPauseSet, CheckSize, SizePauseWait, SizePauseSet, CallbackStep
<1>3. \A w \in Workers : pc'[w] = pc[w]
  BY <1>1 DEF Callback, Completion, EvalArrives, EvalDone, CheckSims, SimsPauseWait,
     SimsPauseSet, CheckSize, SizePauseWait, SizePauseSet, CallbackStep, Step,
     IInv, TypeOK, Threads
<1> QED  BY <1>2, <1>3 DEF engine, Owner, Terminated, Active, WorkersAt

\* The conductor hands the tree over as a whole and takes it back only when no
\* search thread is inside a simulation: every behaviour of the threads is a
\* behaviour of SearchPhases.
THEOREM Refinement == Spec => ImplementsPhases
<1>1. Init => Phases!PInit
  BY InitIInv, JoinedInactive, ConfigAssumption
  DEF Init, ConductorInit, Phases!PInit, Owner, Terminated
<1>2. IInv /\ [Next]_vars => [Phases!PNext]_(Phases!phases)
  <2> SUFFICES ASSUME IInv, [Next]_vars PROVE [Phases!PNext]_(Phases!phases)
    OBVIOUS
  <2> USE DEF Phases!PNext, Phases!phases
  <2>1. CASE Call \/ Controller \/ SearchTimeout  BY <2>1, CallerRefines
  <2>2. ASSUME NEW w \in Workers, Worker(w) \/ Callback(w)
        PROVE  [Phases!PNext]_(Phases!phases)
    BY <2>2, WorkerRefines
  <2>3. ASSUME NEW e \in EvalThreads, Callback(e) \/ Completion(e)
        PROVE  [Phases!PNext]_(Phases!phases)
    BY <2>3, CompletionRefines
  <2>4. CASE UNCHANGED vars
    BY <2>4 DEF vars, engine, search, Owner, Terminated, Active, WorkersAt
  <2> QED  BY <2>1, <2>2, <2>3, <2>4 DEF Next, Threads
<1> QED  BY <1>1, <1>2, Invariance, PTL DEF Spec, ImplementsPhases, Phases!PSpec

=============================================================================
