--------------------------- MODULE MCBackOffice ----------------------------
(* Instances of BackOffice for TLC. *)
EXTENDS BackOffice, TLC

CONSTANTS MaxDocuments, MaxMishaps, MaxRepeats   \* bounds

Used ==
    Cardinality({r \in Requests : request[r].status # "none"})
        + Cardinality({t \in Transfers : transfer[t] # "none"})
        + Cardinality({d \in Deposits : job[d].state # "none"})
        + Cardinality({p \in Products : product[p].status # "none"})
        + Cardinality({k \in Keyed : row[k] # NoRow})

Mishaps ==
    Cardinality(torn) + Cardinality(overlapped) + Cardinality(untaxed) + stranded + minted

LittleWork ==
    /\ \A r \in Requests : posted[r] <= MaxRepeats
    /\ \A p \in Products : repaid[p] <= MaxRepeats
    /\ Used <= MaxDocuments /\ Mishaps <= MaxMishaps
    /\ \A t \in Transfers :
        recalls[t] <= MaxRepeats /\ \A w \in Wallets : net[t][w] \in -1 .. 1

MCSymmetry == Permutations(Requests) \cup Permutations(Transfers) \cup Permutations(Clerks)
=============================================================================
