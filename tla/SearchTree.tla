----------------------------- MODULE SearchTree -----------------------------
(***************************************************************************)
(* The search tree of an MCTSEngine (mcts_engine.cc): the simulations of   *)
(* the search threads, which share the tree without a lock, the steps of   *)
(* the calling thread between two searches, and the thread that deletes    *)
(* the old trees.  In synchronous mode a search thread sees its simulation *)
(* through; in asynchronous mode it leaves a claimed leaf to a callback    *)
(* and begins the next one, and SearchPause, whose wait for the callbacks  *)
(* is commented out, may return before they have run.                      *)
(*                                                                         *)
(* SearchPhases says who may touch the tree; SearchThreads shows that the  *)
(* thread conductor provides it.  Here a step is one atomic access of the  *)
(* code, or several to the same node that no other thread can tell apart.  *)
(* The game is abstract: in every position the same Moves are legal and    *)
(* after GameLength moves the game is over (double pass).  The choice of   *)
(* SelectChild is left open: any child may have the best score.            *)
(***************************************************************************)
EXTENDS SearchPhases, Integers, Sequences, FiniteSetsExt

CONSTANTS
    Moves,         \* the moves Expand keeps as the children of a node
    GameLength,    \* bound of the model: moves until the game is over
    Values,        \* the values an evaluation may return
    MaxSims,       \* MCTSConfig::max_simulations_per_step
    MaxTreeSize,   \* MCTSConfig::max_search_tree_size
    MaxRoots,      \* bound of the model: roots, one per ChangeRoot
    MaxVisits,     \* bound of the model: a root visited as often is not
                   \* searched again
    Callbacks,     \* bound of the model: evaluations in flight (asynchronous mode)
    AsyncThreads,  \* the number of search threads in asynchronous mode
    nullptr

ASSUME TreeAssumption ==
    /\ IsFiniteSet(Moves) /\ Moves # {}
    /\ {GameLength, MaxSims, MaxTreeSize, MaxRoots, MaxVisits} \subseteq Nat \ {0}
    /\ Values \subseteq Int
    /\ IsFiniteSet(Workers) /\ AsyncThreads \in 1 .. Cardinality(Workers)
    /\ IsFiniteSet(Callbacks) /\ Workers \cap Callbacks = {}
    /\ nullptr \notin Nat \X Seq(Moves)

VARIABLES
    enable_async,
    threads,   \* the search threads there are
    node,      \* the allocated nodes: identity -> fields
    m_root,
    ply,       \* moves played on m_board
    running,   \* the conductor's state as the search threads see it
    sims,      \* m_simulation_counter
    queue,     \* m_delete_queue
    freed,     \* nodes given back to the allocator
    pc,        \* the search threads and the callbacks: program counter,
    cur,       \* the node they look at,
    leaf,      \* the node the simulation claimed,
    board,     \* moves made on their copy of the board,
    sign,      \* the value to back up
    due,       \* the search threads that wake up from a pause past their test
               \* for the next one and have not begun a simulation yet
    overtaken  \* history: the root was changed with evaluations in flight

Contexts == Workers \cup Callbacks

locals == <<pc, cur, leaf, board, sign>>
engineVars == <<m_root, ply, running, sims, queue, freed>>
config == <<enable_async, threads>>
vars == <<phases, config, node, engineVars, locals, due, overtaken>>

\* The tasks that g_eval_tasks_wg counts.
InFlight == {c \in Callbacks : pc[c] # "idle"}

\* A node is known by the root it was allocated under and the moves from there.
Child(n, m) == <<n[1], Append(n[2], m)>>

InitNode(fa) ==
    [fa |-> fa, ch |-> {}, expand_state |-> "unexpanded", size |-> 1,
     visit_count |-> 0, virtual_loss_count |-> 0, total_action |-> 0,
     value |-> 0]

NewRoot(n) == <<n[1] + 1, <<>>>>

\* The nodes below n, n included.
Subtree(n) ==
    LET below[k \in 0..GameLength] ==
            IF k = 0 THEN {n}
            ELSE below[k - 1] \cup UNION {node[x].ch : x \in below[k - 1]}
    IN  below[GameLength]

Init ==
    /\ PInit
    /\ enable_async \in BOOLEAN
    /\ threads \in kSubset(IF enable_async THEN AsyncThreads ELSE Cardinality(Workers),
                           Workers)
    /\ m_root = <<1, <<>>>>
    /\ node = [n \in {m_root} |-> InitNode(nullptr)]
    /\ ply = 0
    /\ running = FALSE
    /\ sims = 0
    /\ queue = <<>>
    /\ freed = {}
    /\ pc = [w \in Contexts |-> "idle"]
    /\ cur = [w \in Contexts |-> nullptr]
    /\ leaf = [w \in Contexts |-> nullptr]
    /\ board = [w \in Contexts |-> 0]
    /\ sign = [w \in Contexts |-> 0]
    /\ due = {}
    /\ overtaken = FALSE

-----------------------------------------------------------------------------
(* Operations on one node.                                                 *)

\* Variant of WithChildren: the children are linked and never constructed.
WithChildrenUnallocated(n) ==
    [node EXCEPT ![n].ch = {Child(n, m) : m \in Moves}]

\* Expand(): the new children of n, to be published by expand_state.
WithChildren(n) ==
    LET new == {Child(n, m) : m \in Moves}
    IN  [x \in DOMAIN node \cup new |->
            IF x = n THEN [node[n] EXCEPT !.ch = new]
            ELSE IF x \in new THEN InitNode(n)
            ELSE node[x]]

\* Variant of BackedUp: the virtual loss stays.
BackedUpKeepsLoss(record, value, ch_len) ==
    [record EXCEPT !.size = @ + ch_len,
                   !.visit_count = @ + 1,
                   !.total_action = @ + value]

\* What Backup() adds to one node.
BackedUp(record, value, ch_len) ==
    [record EXCEPT !.size = @ + ch_len,
                   !.visit_count = @ + 1,
                   !.virtual_loss_count = @ - 1,
                   !.total_action = @ + value]

-----------------------------------------------------------------------------
(* The search threads.                                                     *)

Goto(w, from, to) ==
    /\ pc[w] = from
    /\ pc' = [pc EXCEPT ![w] = to]

\* The loop of SearchRoutine: copy the board, start Select at the root.
SimBegin(w) ==
    /\ w \in threads /\ (running \/ w \in due)
    /\ due' = due \ {w}
    /\ BeginSimulation(w)
    /\ Goto(w, "idle", "descend")
    /\ cur' = [cur EXCEPT ![w] = m_root]
    /\ board' = [board EXCEPT ![w] = ply]
    /\ node' = [node EXCEPT ![m_root].virtual_loss_count = @ + 1]
    /\ UNCHANGED <<config, engineVars, leaf, sign, overtaken>>

\* Select: go on to a child ...
SimDescend(w) ==
    /\ Goto(w, "descend", "descend")
    /\ node[cur[w]].expand_state = "expanded"
    /\ \E c \in node[cur[w]].ch :
          /\ cur' = [cur EXCEPT ![w] = c]
          /\ node' = [node EXCEPT ![c].virtual_loss_count = @ + 1]
    /\ board' = [board EXCEPT ![w] = @ + 1]
    /\ UNCHANGED <<phases, config, overtaken, engineVars, leaf, sign, due>>

\* ... until a node is not expanded.
SimLeaf(w) ==
    /\ Goto(w, "descend", "claim")
    /\ node[cur[w]].expand_state # "expanded"
    /\ leaf' = [leaf EXCEPT ![w] = cur[w]]
    /\ UNCHANGED <<phases, config, overtaken, node, engineVars, cur, board, sign, due>>

\* Variant of SimClaim: a load and a store instead of the compare-and-exchange,
\* which takes the leaf from the thread that is expanding it.
SimClaimStore(w) ==
    /\ \/ /\ Goto(w, "claim", "eval")
          /\ node[leaf[w]].expand_state # "expanded"
          /\ node' = [node EXCEPT ![leaf[w]].expand_state = "expanding"]
       \/ /\ Goto(w, "claim", "undo")
          /\ node[leaf[w]].expand_state = "expanded"
          /\ UNCHANGED node
    /\ UNCHANGED <<phases, config, overtaken, engineVars, cur, leaf, board, sign, due>>

\* The compare-and-exchange: one thread gets to expand the leaf.
SimClaim(w) ==
    /\ \/ /\ Goto(w, "claim", "eval")
          /\ node[leaf[w]].expand_state = "unexpanded"
          /\ node' = [node EXCEPT ![leaf[w]].expand_state = "expanding"]
       \/ /\ Goto(w, "claim", "undo")
          /\ node[leaf[w]].expand_state # "unexpanded"
          /\ UNCHANGED node
    /\ UNCHANGED <<phases, config, overtaken, engineVars, cur, leaf, board, sign, due>>

\* In asynchronous mode the task goes to the queue and the thread to its next
\* simulation; the callback does the rest in another thread.
SimHandOff(w) ==
    /\ enable_async
    /\ pc[w] = "eval"
    /\ \E c \in Callbacks \ InFlight :
          /\ pc' = [pc EXCEPT ![w] = "idle", ![c] = "eval"]
          /\ cur' = [cur EXCEPT ![w] = nullptr, ![c] = cur[w]]
          /\ leaf' = [leaf EXCEPT ![w] = nullptr, ![c] = leaf[w]]
          /\ board' = [board EXCEPT ![w] = 0, ![c] = board[w]]
    /\ EndSimulation(w)
    /\ UNCHANGED <<config, overtaken, node, engineVars, sign, due>>

\* Where it runs itself when the position is in the cache.
SimEvalFails(w) ==
    /\ enable_async => w \in Callbacks
    /\ Goto(w, "eval", "undo")
    /\ node' = [node EXCEPT ![leaf[w]].expand_state = "unexpanded"]
    /\ UNCHANGED <<phases, config, overtaken, engineVars, cur, leaf, board, sign, due>>

SimEvalSucceeds(w) ==
    /\ Goto(w, "eval", "expand")
    /\ \E v \in Values : sign' = [sign EXCEPT ![w] = v]
    /\ UNCHANGED <<phases, config, overtaken, node, engineVars, cur, leaf, board, due>>

\* Variant of SimExpandOver: it is published like any other expansion.
SimExpandOverPublished(w) ==
    /\ board[w] = GameLength
    /\ Goto(w, "expand", "value")
    /\ node' = [node EXCEPT ![leaf[w]].expand_state = "expanded"]
    /\ UNCHANGED <<phases, config, overtaken, engineVars, cur, leaf, board, sign, due>>

\* Expand() of a position where the game is over lets the next one claim it.
SimExpandOver(w) ==
    /\ board[w] = GameLength
    /\ Goto(w, "expand", "value")
    /\ node' = [node EXCEPT ![leaf[w]].expand_state = "unexpanded"]
    /\ UNCHANGED <<phases, config, overtaken, engineVars, cur, leaf, board, sign, due>>

\* Otherwise the children are created and linked ...
SimExpand(w) ==
    /\ board[w] < GameLength
    /\ Goto(w, "expand", "publish")
    /\ node' = WithChildren(leaf[w])
    /\ UNCHANGED <<phases, config, overtaken, engineVars, cur, leaf, board, sign, due>>

\* ... before the state says that they are there.
SimPublish(w) ==
    /\ Goto(w, "publish", "value")
    /\ node' = [node EXCEPT ![leaf[w]].expand_state = "expanded"]
    /\ UNCHANGED <<phases, config, overtaken, engineVars, cur, leaf, board, sign, due>>

\* Backup(): the leaf's own value, then one node after the other.
SimValue(w) ==
    /\ Goto(w, "value", "backup")
    /\ node' = [node EXCEPT ![leaf[w]].value = sign[w]]
    /\ UNCHANGED <<phases, config, overtaken, engineVars, cur, leaf, board, sign, due>>

ChLen(w) == Cardinality(node[leaf[w]].ch)

\* Variant of SimBackup: the value keeps its sign on the way up.
SimBackupSameSign(w) ==
    /\ Goto(w, "backup", IF node[cur[w]].fa = nullptr THEN "count" ELSE "backup")
    /\ node' = [node EXCEPT ![cur[w]] = BackedUp(@, sign[w], ChLen(w))]
    /\ cur' = [cur EXCEPT ![w] = node[cur[w]].fa]
    /\ UNCHANGED <<phases, config, overtaken, engineVars, leaf, board, sign, due>>

SimBackup(w) ==
    /\ Goto(w, "backup", IF node[cur[w]].fa = nullptr THEN "count" ELSE "backup")
    /\ node' = [node EXCEPT ![cur[w]] = BackedUp(@, sign[w], ChLen(w))]
    /\ cur' = [cur EXCEPT ![w] = node[cur[w]].fa]
    /\ sign' = [sign EXCEPT ![w] = -@]
    /\ UNCHANGED <<phases, config, overtaken, engineVars, leaf, board, due>>

\* A search thread goes on with its loop, a callback is done.
SimulationOver(w) == IF w \in Workers THEN EndSimulation(w) ELSE UNCHANGED phases

\* The end of the callback: count, and pause the search over a limit.
SimEnd(w) ==
    /\ Goto(w, "count", "idle")
    /\ SimulationOver(w)
    /\ sims' = sims + 1
    /\ running' = (running /\ sims' <= MaxSims /\ node[m_root].size <= MaxTreeSize)
    /\ cur' = [cur EXCEPT ![w] = nullptr]
    /\ leaf' = [leaf EXCEPT ![w] = nullptr]
    /\ board' = [board EXCEPT ![w] = 0]
    /\ sign' = [sign EXCEPT ![w] = 0]
    /\ UNCHANGED <<config, overtaken, node, m_root, ply, queue, freed, due>>

\* UndoVirtualLoss().
SimUndo(w) ==
    /\ cur[w] # nullptr
    /\ Goto(w, "undo", "undo")
    /\ node' = [node EXCEPT ![cur[w]].virtual_loss_count = @ - 1]
    /\ cur' = [cur EXCEPT ![w] = node[cur[w]].fa]
    /\ UNCHANGED <<phases, config, overtaken, engineVars, leaf, board, sign, due>>

SimUndone(w) ==
    /\ cur[w] = nullptr
    /\ Goto(w, "undo", "idle")
    /\ SimulationOver(w)
    /\ leaf' = [leaf EXCEPT ![w] = nullptr]
    /\ board' = [board EXCEPT ![w] = 0]
    /\ UNCHANGED <<config, overtaken, node, engineVars, cur, sign, due>>

SearchRoutine(w) ==
    SimBegin(w) \/ SimDescend(w) \/ SimLeaf(w) \/ SimClaim(w) \/ SimHandOff(w)

\* The callback of Eval(), and what else ends a simulation.
SimRest(w) ==
    \/ SimEvalFails(w) \/ SimEvalSucceeds(w)
    \/ SimExpandOver(w) \/ SimExpand(w) \/ SimPublish(w)
    \/ SimValue(w) \/ SimBackup(w) \/ SimEnd(w)
    \/ SimUndo(w) \/ SimUndone(w)

-----------------------------------------------------------------------------
(* The calling thread.                                                     *)

\* InitRoot() evaluates an unexpanded root and backs the value up, although no
\* Select has put a virtual loss on it.  It waits for all evaluations in flight.
InitRoot ==
    /\ owner = "engine" /\ InFlight = {}
    /\ ply < GameLength
    /\ node[m_root].expand_state = "unexpanded"
    /\ \E v \in Values :
          node' = [WithChildren(m_root) EXCEPT
                     ![m_root] = [BackedUp(@, v, Cardinality(Moves)) EXCEPT
                                    !.expand_state = "expanded", !.value = v]]
    /\ UNCHANGED <<phases, config, overtaken, engineVars, locals, due>>

\* SearchResume() once the root is expanded.
SearchResume ==
    /\ HandOver
    /\ node[m_root].expand_state = "expanded"
    /\ node[m_root].visit_count < MaxVisits
    /\ sims' = 0
    /\ running' = TRUE
    /\ UNCHANGED <<config, overtaken, node, m_root, ply, queue, freed, locals, due>>

\* SearchPause(): on a timer, or for the next operation; then the join.
SearchPauseSet ==
    /\ owner = "search" /\ running
    /\ running' = FALSE
    /\ UNCHANGED <<phases, config, overtaken, node, m_root, ply, sims, queue, freed, locals, due>>

\* Every search thread has acknowledged and is parked in the Wait() after it.
SearchPauseJoin ==
    /\ ~running /\ due = {}
    /\ TakeBack
    /\ due' = threads
    /\ UNCHANGED <<config, overtaken, node, engineVars, locals>>

\* A callback that is still to come keeps the leaf it was given, whatever becomes
\* of it.  If it was in the part of the tree that goes, or was made the root, the
\* callback works on a node that is being deleted, and the new root stays claimed
\* for an expansion that goes elsewhere.

\* Variant of ChangeRoot: the old node keeps its children, and the thread that
\* deletes it deletes them with it.
ChangeRootKeepsChildren(n) ==
    LET root == NewRoot(m_root)
    IN  /\ root[1] <= MaxRoots
        /\ m_root' = root
        /\ overtaken' = (InFlight # {})
        /\ queue' = Append(queue, m_root)
        /\ node' = [x \in DOMAIN node \cup {root} |->
                      IF n = nullptr
                      THEN IF x = root THEN InitNode(nullptr) ELSE node[x]
                      ELSE CASE x = root -> [node[n] EXCEPT !.fa = nullptr]
                             [] x \in node[n].ch -> [node[x] EXCEPT !.fa = root]
                             [] OTHER -> node[x]]

\* The new root takes over the fields and the children of n, if there is an n.
ChangeRoot(n) ==
    LET root == NewRoot(m_root)
    IN  /\ root[1] <= MaxRoots
        /\ m_root' = root
        /\ overtaken' = (InFlight # {})
        /\ queue' = Append(queue, m_root)
        /\ node' = [x \in DOMAIN node \cup {root} |->
                      IF n = nullptr
                      THEN IF x = root THEN InitNode(nullptr) ELSE node[x]
                      ELSE CASE x = root -> [node[n] EXCEPT !.fa = nullptr]
                             [] x = n -> [node[n] EXCEPT !.ch = {}]
                             [] x \in node[n].ch -> [node[x] EXCEPT !.fa = root]
                             [] OTHER -> node[x]]

\* Move(): FindChild finds nothing below a root that was never expanded, nor for
\* a move that is not among the max_children_per_node that Expand has kept.  The
\* simulation counter is reset here or by the SearchResume that follows.
Move ==
    /\ owner = "engine"
    /\ ply < GameLength
    /\ \E n \in node[m_root].ch \cup {nullptr} : ChangeRoot(n)
    /\ ply' = ply + 1
    /\ sims' \in {0, sims}
    /\ UNCHANGED <<phases, config, running, freed, locals, due>>

\* Reset(), also for Undo: an empty tree under the board of the moves given; and
\* SearchResume() with clear_search_tree_per_move, which leaves the board alone.
Reset ==
    /\ owner = "engine"
    /\ ChangeRoot(nullptr)
    /\ \E p \in 0..ply : ply' = p
    /\ sims' = 0
    /\ UNCHANGED <<phases, config, running, freed, locals, due>>

-----------------------------------------------------------------------------
\* DeleteRoutine() with DeleteTree(), while the next search may be running.
DeleteTree ==
    /\ queue # <<>>
    /\ freed' = freed \cup Subtree(Head(queue))
    /\ queue' = Tail(queue)
    /\ UNCHANGED <<phases, config, overtaken, node, m_root, ply, running, sims, locals, due>>

\* The model ends where a root was changed with evaluations in flight: the code
\* goes on, but from here on its behaviour is undefined.
Next ==
    /\ ~overtaken
    /\ \/ \E w \in Workers : SearchRoutine(w)
       \/ \E w \in Contexts : SimRest(w)
       \/ InitRoot \/ SearchResume \/ SearchPauseSet \/ SearchPauseJoin
       \/ Move \/ Reset
       \/ DeleteTree

Spec == Init /\ [][Next]_vars

-----------------------------------------------------------------------------
Nodes == (1..MaxRoots) \X UNION {[1..k -> Moves] : k \in 0..GameLength}

TypeOK ==
    /\ DOMAIN node \subseteq Nodes
    /\ \A n \in DOMAIN node :
          /\ node[n].fa \in DOMAIN node \cup {nullptr}
          /\ node[n].ch \subseteq DOMAIN node
          /\ node[n].expand_state \in {"unexpanded", "expanding", "expanded"}
          /\ node[n].size \in Nat \ {0} /\ node[n].visit_count \in Nat
          /\ {node[n].virtual_loss_count, node[n].total_action,
              node[n].value} \subseteq Int
    /\ m_root \in DOMAIN node
    /\ ply \in 0..GameLength /\ sims \in Nat /\ running \in BOOLEAN
    /\ owner \in {"engine", "search"} /\ active \subseteq Workers
    /\ due \subseteq Workers
    /\ {enable_async, overtaken} \subseteq BOOLEAN /\ threads \subseteq Workers
    /\ freed \subseteq DOMAIN node
    /\ \A w \in Contexts : {cur[w], leaf[w]} \subseteq DOMAIN node \cup {nullptr}

Live == Subtree(m_root)
Queued == UNION {Subtree(queue[i]) : i \in DOMAIN queue}

SumOver(field(_), n) == FoldSet(LAMBDA c, s : field(c) + s, 0, node[n].ch)

\* A simulation puts a virtual loss on every node of its path and takes it off
\* again, by Backup or by UndoVirtualLoss, once, be it in the search thread or in
\* a callback that runs during the next search.  Only the root may be one
\* short, when InitRoot has backed up a value that no Select announced.
VirtualLossBalanced ==
    ~overtaken =>
        \A n \in Live :
            LET inside == {w \in Contexts :
                             cur[w] # nullptr /\ cur[w] \in Subtree(n)}
                excess == node[n].virtual_loss_count - Cardinality(inside)
            IN  excess = 0 \/ (n = m_root /\ excess = -1)

\* When no simulation is under way the statistics of every node agree with
\* those of its children: one visit of its own, one node of its own, its own
\* value seen from the other side.  This is what GetBestMove relies on.
StatisticsAddUp ==
    active = {} /\ InFlight = {} =>
        \A n \in Live :
            /\ node[n].size = 1 + SumOver(LAMBDA c : node[c].size, n)
            /\ node[n].ch # {} =>
                 /\ node[n].visit_count =
                      1 + SumOver(LAMBDA c : node[c].visit_count, n)
                 /\ node[n].total_action =
                      node[n].value - SumOver(LAMBDA c : node[c].total_action, n)

\* The compare-and-exchange makes one thread or callback the owner of an
\* expansion, and no node stays claimed without one.
OneExpander ==
    ~overtaken =>
        \A n \in Live :
            LET owners == {w \in Contexts :
                             leaf[w] = n /\ pc[w] \in {"eval", "expand", "publish"}}
            IN  Cardinality(owners) =
                  IF node[n].expand_state = "expanding" THEN 1 ELSE 0

\* A thread that sees an expanded node finds children below it.
ChildrenBeforeState ==
    \A n \in Live : node[n].expand_state = "expanded" => node[n].ch # {}

\* Every node allocated is in the tree, waits for its deletion, or has been
\* deleted, and in exactly one of them; the search threads and the callbacks
\* stay in the tree.
NodesOwnedOnce ==
    /\ DOMAIN node = Live \cup Queued \cup freed
    /\ Live \cap (Queued \cup freed) = {} /\ Queued \cap freed = {}
    /\ ~overtaken =>
          \A w \in Contexts : {cur[w], leaf[w]} \subseteq Live \cup {nullptr}

=============================================================================
