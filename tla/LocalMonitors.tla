--------------------------- MODULE LocalMonitors ---------------------------
(***************************************************************************)
(* The statistics of a search (mcts_monitor.h).  Each thread that updates  *)
(* them has a LocalMonitor of its own for each of the slots that the       *)
(* engines' monitors take, and every monitor knows the LocalMonitors that  *)
(* were created for it.  With listen_port an engine is created for each    *)
(* connection, and takes the slot of the one before, while the threads     *)
(* that evaluate stay.                                                     *)
(*                                                                         *)
(* One slot is modelled.  A LocalMonitor is named by its thread and m_id,  *)
(* of its averages, maxima and counts one count is kept.  The search       *)
(* threads and the calling thread are not updating when Reset() comes; a   *)
(* thread that completes evaluations may be, and reads and writes its      *)
(* count in two steps.                                                     *)
(***************************************************************************)
EXTENDS Integers, FiniteSetsExt

CONSTANTS
    SearchThreads,   \* the search threads of an engine, which end with it
    Completing,      \* the threads that complete evaluations in asynchronous mode
    Caller,          \* the calling thread
    MaxUpdates       \* bound of the model: updates in a search, and of one thread

ASSUME LocalMonitorsAssumption ==
    /\ IsFiniteSet(SearchThreads) /\ IsFiniteSet(Completing)
    /\ SearchThreads \cap Completing = {}
    /\ Caller \notin SearchThreads \cup Completing
    /\ MaxUpdates \in Nat

VARIABLES
    m_id,               \* the monitor of the engine that there is
    g_local_monitors,   \* the m_id of each thread's LocalMonitor in the slot, or None
    m_local_monitors,   \* the LocalMonitors that the monitor knows
    count,              \* what each LocalMonitor has counted
    read,               \* the count that a completing thread has read, or None
    updates,            \* updates since Reset() ...
    overlapped          \* ... which came between the two halves of one

monitors == <<m_id, g_local_monitors, m_local_monitors, count, read, updates, overlapped>>

Updating == SearchThreads \cup Completing \cup {Caller}
None == -1

MonitorsInit ==
    /\ m_id = 0
    /\ g_local_monitors = [t \in Updating |-> None]
    /\ m_local_monitors = {}
    /\ count = [r \in {} |-> 0]
    /\ read = [e \in Completing |-> None]
    /\ updates = 0
    /\ overlapped = FALSE

\* Variant of GetLocal: a thread that has a LocalMonitor takes it for the one.
GetLocalAny(t) ==
    IF g_local_monitors[t] # None
    THEN UNCHANGED <<g_local_monitors, m_local_monitors>>
    ELSE /\ g_local_monitors' = [g_local_monitors EXCEPT ![t] = m_id]
         /\ m_local_monitors' = m_local_monitors \cup {<<t, m_id>>}

\* A LocalMonitor of an earlier engine is replaced.
GetLocal(t) ==
    IF g_local_monitors[t] = m_id
    THEN UNCHANGED <<g_local_monitors, m_local_monitors>>
    ELSE /\ g_local_monitors' = [g_local_monitors EXCEPT ![t] = m_id]
         /\ m_local_monitors' = m_local_monitors \cup {<<t, m_id>>}

\* The count of t's LocalMonitor, which begins at 0.
CountOf(t, local) ==
    IF <<t, local>> \in DOMAIN count THEN count[<<t, local>>] ELSE 0

GetGlobalSum == MapThenSumSet(LAMBDA r : CountOf(r[1], r[2]), m_local_monitors)

\* The counts with that of r put at n.
Put(r, n) == [q \in DOMAIN count \cup {r} |-> IF q = r THEN n ELSE count[q]]

\* IncSelectSameNode() and the like of a search thread.
Inc(t) ==
    /\ updates < MaxUpdates /\ CountOf(t, m_id) < MaxUpdates
    /\ GetLocal(t)
    /\ LET r == <<t, g_local_monitors'[t]>>
       IN  count' = Put(r, CountOf(t, r[2]) + 1)
    /\ updates' = updates + 1
    /\ UNCHANGED <<m_id, read, overlapped>>

IncRead(e) ==
    /\ updates < MaxUpdates /\ CountOf(e, m_id) < MaxUpdates
    /\ read[e] = None
    /\ GetLocal(e)
    /\ read' = [read EXCEPT ![e] = CountOf(e, g_local_monitors'[e])]
    /\ UNCHANGED <<m_id, count, updates, overlapped>>

IncWrite(e) ==
    /\ read[e] # None
    /\ count' = Put(<<e, g_local_monitors[e]>>, read[e] + 1)
    /\ read' = [read EXCEPT ![e] = None]
    /\ updates' = updates + 1
    /\ UNCHANGED <<m_id, g_local_monitors, m_local_monitors, overlapped>>

\* InitRoot() may evaluate the root, which the calling thread counts, before Reset(),
\* after which LocalMonitors that no thread has any more are forgotten.
Reset ==
    /\ \/ GetLocal(Caller)
       \/ UNCHANGED <<g_local_monitors, m_local_monitors>>
    /\ count' = [r \in DOMAIN count |-> IF r \in m_local_monitors' THEN 0 ELSE count[r]]
    /\ updates' = 0
    /\ overlapped' = \E e \in Completing : read[e] # None
    /\ UNCHANGED <<m_id, read>>

\* The search threads end with their engine; ~MCTSMonitor() gives up the calling
\* thread's LocalMonitor only.
GiveUpSlot ==
    /\ g_local_monitors' =
         [t \in Updating |-> IF t \in Completing THEN g_local_monitors[t] ELSE None]
    /\ UNCHANGED <<m_id, m_local_monitors, count, read, updates, overlapped>>

\* The monitor of the next engine in the same slot.
NextMonitor ==
    /\ m_id' = m_id + 1
    /\ m_local_monitors' = {}
    /\ count' = [r \in {} |-> 0]
    /\ updates' = 0
    /\ overlapped' = FALSE
    /\ UNCHANGED <<g_local_monitors, read>>

-----------------------------------------------------------------------------
\* What the monitor reports of a search are the updates made since it began, by
\* threads old and new, and of no other engine; one that Reset() overlaps may bring
\* back what its thread had counted before, but never takes away.
UpdatesCounted ==
    /\ GetGlobalSum >= updates
    /\ ~overlapped => GetGlobalSum = updates

=============================================================================
