----------------------------- MODULE EvalCache -----------------------------
(***************************************************************************)
(* EvalCache (config.h): the evaluations of positions by their hash, with  *)
(* a queue of the hashes in the order of their insertion, so that the      *)
(* oldest goes when the cache is full.  All search threads and, in         *)
(* asynchronous mode, all completing threads use it; Probe and Insert are  *)
(* one critical section each, but between a Probe that fails and the       *)
(* Insert of the same key lies a whole evaluation.                         *)
(*                                                                         *)
(* Of the map only its keys are kept: an entry is never changed.  Init and *)
(* Resize, which do not take the mutex, have no caller.                    *)
(***************************************************************************)
EXTENDS Integers, SequencesExt, FiniteSets

CONSTANT m_max_eval_cache_size

ASSUME CacheAssumption == m_max_eval_cache_size \in Nat

VARIABLES
    m_prob_value_map,   \* the keys that have an entry
    m_order

evalCache == <<m_prob_value_map, m_order>>

CacheInit ==
    /\ m_prob_value_map = {}
    /\ m_order = <<>>

Probe(key) == key \in m_prob_value_map

AddCache(key) ==
    IF Len(m_order) = m_max_eval_cache_size
    THEN LET order == Append(m_order, key)
         IN  /\ m_prob_value_map' = (m_prob_value_map \cup {key}) \ {Head(order)}
             /\ m_order' = Tail(order)
    ELSE /\ m_prob_value_map' = m_prob_value_map \cup {key}
         /\ m_order' = Append(m_order, key)

\* Variant of Insert: the caller's Probe is trusted.
InsertUnchecked(key) == AddCache(key)

\* Insert() looks again: another thread may have evaluated the position too.
Insert(key) == IF Probe(key) THEN UNCHANGED evalCache ELSE AddCache(key)

-----------------------------------------------------------------------------
\* The map and the order of insertion name the same keys, each once, and no more
\* than the cache may hold, although several threads may miss the same position,
\* evaluate it and insert it one after the other, or after it was evicted again.
CacheConsistent ==
    /\ ToSet(m_order) = m_prob_value_map
    /\ Len(m_order) = Cardinality(m_prob_value_map)
    /\ Len(m_order) <= m_max_eval_cache_size

=============================================================================
