------------------------- MODULE MCBusCancellation -------------------------
(* Instances of BusCancellation for TLC. *)
EXTENDS BusCancellation

CONSTANT MaxWork   \* bound: attempts made, cancellations, tickets out of the
                   \* poller's window, cancellations with failed refunds
                   \* and, more, other mishaps

One(mishap) == IF mishap THEN 1 ELSE 0
Tried == Cardinality({k \in Attempts : ticket[k].state # "none"})
Unlisted == Cardinality({k \in Attempts : ticket[k].state = "unlisted"})
Misfiled == {k \in Attempts \cap refused : cancels[k] # <<>>}
Mishaps == Cardinality(Misfiled) + 2 * Cardinality(refused \ Misfiled)
           + 2 * Cardinality(unverified) + 3 * One(unguarded) + 3 * One(overruled)

\* Bounds: nothing is explored after an attempt is torn, nor the passing of the
\* expiry of an approval that is used.
LittleWork ==
    /\ torn = {} /\ paid <= 3 * Total
    /\ approval = "booked" => ~overdue
    /\ Tried + Unlisted + Mishaps
         + MapThenSumSet(LAMBDA k : Len(cancels[k]), Attempts) <= MaxWork
=============================================================================
