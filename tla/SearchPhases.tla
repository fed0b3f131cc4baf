---------------------------- MODULE SearchPhases ----------------------------
(***************************************************************************)
(* What the thread conductor promises the engine: the tree, the board and  *)
(* the root pointer belong either to the controlling thread or to the pool *)
(* of search threads, never to both.  The controlling thread hands them    *)
(* over as a whole and takes them back only when no search thread is       *)
(* inside a simulation.  SearchThreads implements this specification.      *)
(***************************************************************************)
CONSTANT Workers

VARIABLES
    owner,     \* who may touch the tree: "engine" or "search"
    active     \* the search threads inside a simulation

phases == <<owner, active>>

PInit ==
    /\ owner = "engine"
    /\ active = {}

HandOver ==
    /\ owner = "engine"
    /\ owner' = "search"
    /\ UNCHANGED active

BeginSimulation(w) ==
    /\ owner = "search"
    /\ w \notin active
    /\ active' = active \cup {w}
    /\ UNCHANGED owner

EndSimulation(w) ==
    /\ w \in active
    /\ active' = active \ {w}
    /\ UNCHANGED owner

TakeBack ==
    /\ owner = "search"
    /\ active = {}
    /\ owner' = "engine"
    /\ UNCHANGED active

PNext ==
    \/ HandOver
    \/ TakeBack
    \/ \E w \in Workers : BeginSimulation(w) \/ EndSimulation(w)

PSpec == PInit /\ [][PNext]_phases

=============================================================================
