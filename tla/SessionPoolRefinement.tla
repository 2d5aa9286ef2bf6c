------------------------- MODULE SessionPoolRefinement -------------------------
(***************************************************************************)
(* The session pool of the server implements a FIFO pool: a place is taken *)
(* when the semaphore grants it, which may be before the session runs.     *)
(***************************************************************************)
EXTENDS SessionPool, Sequences

(* The place of a waiting session: those that it queued behind and that still
   wait are in front of it.                                                  *)
InFront(s) == Cardinality(behind[s] \cap Pending)
Line == [i \in 1..Cardinality(Pending) |-> CHOOSE s \in Pending : InFront(s) = i - 1]

Fifo == INSTANCE FifoPool WITH Clients <- Sessions, Places <- Capacity,
                               inside <- Granted \cup Holders, line <- Line

(* Arrivals, hand-overs, cancellations and failures of server.py are walks-in,
   joins, services and departures of a FIFO pool, and its fairness too.      *)
RefinesFifoPool == Fifo!FairSpec

=============================================================================
