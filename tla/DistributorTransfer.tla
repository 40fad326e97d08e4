------------------------ MODULE DistributorTransfer ------------------------
(***************************************************************************)
(* Transfers from a distributor to its agency and their recalls            *)
(* (services/wallet/distributor-transfer.service.ts), and the transfer     *)
(* without a document (transfer.ts).  Two postings that are not one        *)
(* transaction: the first is given back when the second fails.             *)
(***************************************************************************)
EXTENDS WalletDesk

VARIABLES
    transfer,   \* status of the DistributorTransfer document
    recalls,    \* its RECALL documents that are COMPLETED
    net,        \* what its legs and those of its recalls gave to each wallet
    contested   \* history: transfers that were reversed under another recall

transferVars == <<transfer, recalls, net, contested>>

TransferStatuses == {"none", "PENDING_APPROVAL", "COMPLETED", "REJECTED", "REVERSED", "FAILED"}

TransferTypeOK ==
    /\ transfer \in [Transfers -> TransferStatuses]
    /\ recalls \in [Transfers -> Nat]
    /\ net \in [Transfers -> [Wallets -> Int]]
    /\ contested \subseteq Transfers

TransferInit ==
    /\ transfer = [t \in Transfers |-> "none"]
    /\ recalls = [t \in Transfers |-> 0]
    /\ net = [t \in Transfers |-> [w \in Wallets |-> 0]]
    /\ contested = {}

-----------------------------------------------------------------------------
(* requestTransfer, distributorTransferToAgency *)

RequestTransfer(c, t) ==
    /\ pc[c] = "idle"
    /\ transfer[t] = "none"
    /\ \/ /\ transfer' = [transfer EXCEPT ![t] = "PENDING_APPROVAL"]
          /\ UNCHANGED <<pc, call>>
       \/ /\ transfer' = [transfer EXCEPT ![t] = "COMPLETED"]   \* before its legs ran
          /\ Take(c, t, "out")
    /\ UNCHANGED <<money, torn, recalls, net, contested>>

TransferDirectly(c) ==
    /\ pc[c] = "idle"
    /\ Take(c, None, "out")
    /\ UNCHANGED <<money, torn, transferVars>>

-----------------------------------------------------------------------------
(* approveTransfer, rejectTransfer *)

ReadTransfer(c, t) ==
    /\ pc[c] = "idle"
    /\ transfer[t] = "PENDING_APPROVAL"
    /\ \E step \in {"approve", "reject"} : Take(c, t, step)
    /\ UNCHANGED <<money, torn, transferVars>>

SaveDecision(c, status) ==
    /\ transfer' = [transfer EXCEPT ![Doc(c)] = status]
    /\ TornIfStale(c)
    /\ UNCHANGED <<money, recalls, net, contested>>

ApproveTransfer(c) ==
    /\ pc[c] = "approve"
    /\ SaveDecision(c, "COMPLETED")
    /\ Goto(c, "out")
    /\ call' = Decided(c, call[c])

RejectTransfer(c) ==
    /\ pc[c] = "reject"
    /\ SaveDecision(c, "REJECTED")
    /\ Goto(c, "idle")
    /\ call' = Decided(c, NoCall)

-----------------------------------------------------------------------------
(* recallTransfer *)

ReadRecall(c, t) ==
    /\ pc[c] = "idle"
    /\ transfer[t] = "COMPLETED"
    /\ call' = [call EXCEPT ![c] = [NoCall EXCEPT !.doc = t, !.recall = TRUE]]
    /\ Goto(c, "recall")
    /\ UNCHANGED <<money, torn, transferVars>>

CreateRecall(c) ==
    /\ pc[c] = "recall"
    /\ recalls' = [recalls EXCEPT ![Doc(c)] = @ + 1]
    /\ Goto(c, "out")
    /\ UNCHANGED <<money, torn, transfer, net, contested, call>>

\* A transfer that was recalled before its legs ran, and failed, turns REVERSED.
SaveReversed(c) ==
    LET t == Doc(c) IN
    /\ pc[c] = "reverse"
    /\ transfer' = [transfer EXCEPT ![t] = "REVERSED"]
    /\ torn' = IF transfer[t] = "FAILED" THEN torn \cup {t} ELSE torn
    /\ contested' = IF call[c].stale THEN contested \cup {t} ELSE contested
    /\ Goto(c, "idle")
    /\ call' = Decided(c, NoCall)
    /\ UNCHANGED <<money, recalls, net>>

-----------------------------------------------------------------------------
(* executeTransferLegs, executeRecallLegs *)

Source(c) == IF call[c].recall THEN "agency" ELSE "distributor"
Target(c) == IF call[c].recall THEN "distributor" ELSE "agency"

Give(c, w, amount) ==
    /\ Post(w, amount)
    /\ net' = IF Doc(c) = None THEN net ELSE [net EXCEPT ![Doc(c)][w] = @ + amount]
    /\ UNCHANGED external

\* A failure before anything moved; no document of transfer.ts tells of it.
Refused(c) ==
    /\ IF Doc(c) = None THEN Leave(c) ELSE Goto(c, "fail") /\ UNCHANGED call
    /\ UNCHANGED <<money, torn, net>>

TakeOut(c) ==
    /\ pc[c] = "out"
    /\ \/ /\ balance[Source(c)] >= 1
          /\ Give(c, Source(c), -1)
          /\ Goto(c, "in")
          /\ UNCHANGED <<stranded, torn, call>>
       \/ Refused(c)
    /\ UNCHANGED <<transfer, recalls, contested>>

\* Mutant: a second leg that fails is taken for one before which nothing moved.
AfterLostLegNothing == "fail"

AfterLostLeg == "back"

PutIn(c) ==
    /\ pc[c] = "in"
    /\ \/ /\ Give(c, Target(c), 1)
          /\ IF Doc(c) = None THEN Leave(c) ELSE Goto(c, "complete") /\ UNCHANGED call
       \/ Goto(c, AfterLostLeg) /\ UNCHANGED <<balance, external, net, call>>
    /\ UNCHANGED <<stranded, torn, transfer, recalls, contested>>

\* Mutant: the money goes to the wallet that the leg was for.
CompensatedTarget(c) == Target(c)

Compensated(c) == Source(c)

\* The compensation, or its failure, which is logged as fatal.
GiveBack(c) ==
    /\ pc[c] = "back"
    /\ \/ Give(c, Compensated(c), 1) /\ UNCHANGED <<stranded, torn>>
       \/ /\ stranded' = stranded + 1
          /\ torn' = torn \cup ({Doc(c)} \ {None})
          /\ UNCHANGED <<balance, external, net>>
    /\ IF Doc(c) = None THEN Leave(c) ELSE Goto(c, "fail") /\ UNCHANGED call
    /\ UNCHANGED <<transfer, recalls, contested>>

\* The save of the ledger entries leaves the status, COMPLETED since before the
\* legs, as others may have made it; when it fails the document is marked FAILED.
Complete(c) ==
    /\ pc[c] = "complete"
    /\ \/ /\ IF call[c].recall THEN Goto(c, "reverse") /\ UNCHANGED call ELSE Leave(c)
          /\ UNCHANGED torn
       \/ /\ torn' = torn \cup {Doc(c)}
          /\ Goto(c, "fail")
          /\ UNCHANGED call
    /\ UNCHANGED <<money, transferVars>>

\* FAILED is saved to the document whose legs ran; a failure of that is swallowed.
Fail(c) ==
    /\ pc[c] = "fail"
    /\ \/ /\ IF call[c].recall
             THEN recalls' = [recalls EXCEPT ![Doc(c)] = @ - 1] /\ UNCHANGED transfer
             ELSE transfer' = [transfer EXCEPT ![Doc(c)] = "FAILED"] /\ UNCHANGED recalls
          /\ UNCHANGED torn
       \/ torn' = torn \cup {Doc(c)} /\ UNCHANGED <<transfer, recalls>>
    /\ Leave(c)
    /\ UNCHANGED <<money, net, contested>>

-----------------------------------------------------------------------------
TransferNext ==
    \E c \in Clerks :
        \/ \E t \in Transfers : RequestTransfer(c, t) \/ ReadTransfer(c, t) \/ ReadRecall(c, t)
        \/ TransferDirectly(c) \/ ApproveTransfer(c) \/ RejectTransfer(c)
        \/ CreateRecall(c) \/ SaveReversed(c)
        \/ TakeOut(c) \/ PutIn(c) \/ GiveBack(c) \/ Complete(c) \/ Fail(c)

-----------------------------------------------------------------------------
(* Properties *)

\* "The DistributorTransfer row is the cross-leg state": once nobody is at work on
\* a transfer, what the legs, compensations and recalls did to each of the two
\* wallets is what its documents say, also when recalls overlap.
RowsTellMoves ==
    \A t \in Transfers \ torn : Quiet(t) =>
        LET moved == (IF transfer[t] \in {"COMPLETED", "REVERSED"} THEN 1 ELSE 0) - recalls[t]
        IN net[t] = [w \in Wallets |-> IF w = "agency" THEN moved ELSE -moved]

\* "A row already in REVERSED status cannot be recalled again", and the original is
\* REVERSED "only after both legs land": unless two recalls overlapped, one RECALL
\* stands for a reversed transfer and none for a completed one.
RecalledOnce ==
    \A t \in Transfers \ (torn \cup contested) :
        Quiet(t) /\ transfer[t] # "FAILED" =>
            recalls[t] = IF transfer[t] = "REVERSED" THEN 1 ELSE 0

\* The documents of a transfer and of its recalls account for both wallets.
TransfersTellMoves == RowsTellMoves /\ RecalledOnce
=============================================================================
