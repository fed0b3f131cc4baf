--------------------------- MODULE MCEvalPipeline ---------------------------
(* Small instances of EvalPipeline for TLC. *)
EXTENDS EvalPipeline

CONSTANTS p1, p2, e1, e2, k1, k2

\* Two search threads that wait, and two evaluation threads with batches.
Synchronous ==
    [enable_async |-> FALSE, eval_batch_size |-> 2, stubs |-> 1,
     search |-> {p1, p2}, eval |-> {e1, e2}, tasks |-> 1 .. 2, positions |-> {k1},
     results |-> Results]

\* A client with one stub and enough tasks to overfill the queue.
Overfilling ==
    [enable_async |-> TRUE, eval_batch_size |-> 1, stubs |-> 1,
     search |-> {p1}, eval |-> {e1}, tasks |-> 1 .. 4, positions |-> {k1},
     results |-> {"ok", "timeout"}]

\* A client with several stubs, whose calls complete in any order.
OutOfOrder ==
    [enable_async |-> TRUE, eval_batch_size |-> 1, stubs |-> 2,
     search |-> {p1}, eval |-> {e1}, tasks |-> 1 .. 2, positions |-> {k1, k2},
     results |-> Results]

AllModes == {Synchronous, Overfilling, OutOfOrder}
OutOfOrderOnly == {[OutOfOrder EXCEPT !.tasks = 1 .. 2, !.positions = {k1}]}

=============================================================================
