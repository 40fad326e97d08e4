---------------------------- MODULE BackOffice -----------------------------
(***************************************************************************)
(* The wallets of an agency and its distributor under all services that    *)
(* post in one request or job: approvals, transfers, incentives and        *)
(* one-step bookings interleave, and processes die.                        *)
(***************************************************************************)
EXTENDS ManualApproval, DistributorTransfer, DepositIncentive, ProductBooking, KeyedTransfer

vars == <<deskVars, requestVars, transferVars, incentiveVars, productVars, keyedVars>>

TypeOK ==
    /\ DeskTypeOK /\ RequestTypeOK /\ TransferTypeOK /\ IncentiveTypeOK
    /\ ProductTypeOK /\ KeyedTypeOK

Init ==
    /\ DeskInit /\ RequestInit /\ TransferInit /\ IncentiveInit
    /\ ProductInit /\ KeyedInit

\* Money that a clerk has taken from one wallet and not yet given to another.
Carriers ==
    {c \in Clerks : pc[c] \in {"in", "back", "keyedIn"}
                        \/ (pc[c] = "keyedBack" /\ row[Doc(c)].in = 0)}

\* Steps at which the document does not tell what was posted.
Untold == {"saveRequest", "out", "in", "back", "complete", "reverse", "fail", "tds",
           "pay", "bookFailed", "cancelProduct", "keyedIn", "keyedBack"}

\* The process dies.  A transfer and a RECALL are COMPLETED before their legs run.
Crash(c) ==
    /\ pc[c] # "idle"
    /\ torn' = IF pc[c] \in Untold THEN torn \cup ({Doc(c)} \ {None}) ELSE torn
    /\ stranded' = IF c \in Carriers THEN stranded + 1 ELSE stranded
    /\ Leave(c)
    /\ UNCHANGED <<balance, external, requestVars, transferVars, incentiveVars,
                   productVars, keyedVars>>

Next ==
    \/ RequestNext /\ UNCHANGED <<transferVars, incentiveVars, productVars, keyedVars>>
    \/ TransferNext /\ UNCHANGED <<requestVars, incentiveVars, productVars, keyedVars>>
    \/ IncentiveNext /\ UNCHANGED <<requestVars, transferVars, productVars, keyedVars>>
    \/ ProductNext /\ UNCHANGED <<requestVars, transferVars, incentiveVars, keyedVars>>
    \/ KeyedNext /\ UNCHANGED <<requestVars, transferVars, incentiveVars, productVars>>
    \/ \E c \in Clerks : Crash(c)

Spec == Init /\ [][Next]_vars

-----------------------------------------------------------------------------
(* Properties *)

\* No interleaving of legs, compensations, recalls and approvals makes or loses
\* money: what is in the two wallets, what clerks carry between them and what was
\* stranded is the opening balance and what came from outside.  (Up to minted, what a
\* reversal of WalletService adds that is not one.)
MoneyConserved ==
    balance["agency"] + balance["distributor"] + Cardinality(Carriers) + stranded
        = 2 * Opening + external + minted
=============================================================================
