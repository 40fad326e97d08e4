-------------------------- MODULE ManualApproval ---------------------------
(***************************************************************************)
(* Manual top-ups (services/wallet/topup.ts) and adjustments              *)
(* (adjust-approval.service.ts, adjust.ts): a request is decided once it   *)
(* is found pending; an approval posts to the wallet first and saves the   *)
(* decision after that.                                                    *)
(***************************************************************************)
EXTENDS WalletDesk

VARIABLES
    request,   \* of a TopupRequest or PendingAdjustment
    posted     \* times that it was posted

requestVars == <<request, posted>>

Pending == {"PENDING", "PENDING_APPROVAL"}
RequestStatuses ==
    Pending \cup {"none", "EXECUTED", "APPROVED", "REJECTED", "CANCELLED"}

RequestTypeOK ==
    /\ request \in [Requests -> [kind : {"topup", "adjustment"}, wallet : Wallets,
                                 delta : {1, -1}, status : RequestStatuses]]
    /\ posted \in [Requests -> Nat]

RequestInit ==
    /\ request = [r \in Requests |-> [kind |-> "topup", wallet |-> "agency",
                                      delta |-> 1, status |-> "none"]]
    /\ posted = [r \in Requests |-> 0]

-----------------------------------------------------------------------------
(* initiateTopup, proposeAdjustment *)

Ask(r, kind, wallet, delta, status) ==
    /\ request[r].status = "none"
    /\ request' = [request EXCEPT ![r] = [kind |-> kind, wallet |-> wallet,
                                          delta |-> delta, status |-> status]]

InitiateTopup(r) ==
    /\ \E wallet \in Wallets : Ask(r, "topup", wallet, 1, "PENDING")
    /\ UNCHANGED <<deskVars, posted>>

\* Up to the threshold an adjustment is executed at once and leaves no document.
ProposeAdjustment(r) ==
    \E wallet \in Wallets, delta \in {1, -1} :
        \/ /\ Ask(r, "adjustment", wallet, delta, "PENDING_APPROVAL")
           /\ UNCHANGED <<deskVars, posted>>
        \/ /\ Ask(r, "adjustment", wallet, delta, "EXECUTED")
           /\ PostExternal(wallet, delta)
           /\ posted' = [posted EXCEPT ![r] = 1]
           /\ UNCHANGED <<stranded, torn, pc, call>>

-----------------------------------------------------------------------------
(* approveManualTopup, rejectTopup, approve-, reject- and cancelAdjustment *)

Decidable(r) == request[r].status \in Pending

\* Mutant: the decision is saved before the posting, or without it.
AfterGuardSave == {"saveRequest", "dismiss"}

AfterGuard == {"post", "dismiss"}

ReadRequest(c, r) ==
    /\ pc[c] = "idle"
    /\ Decidable(r)
    /\ \E step \in AfterGuard : Take(c, r, step)
    /\ UNCHANGED <<money, torn, requestVars>>

\* postCredit, adjustWallet: the debit of an adjustment may go below zero.
PostRequest(c) ==
    LET r == Doc(c) IN
    /\ pc[c] = "post"
    /\ \/ /\ PostExternal(request[r].wallet, request[r].delta)
          /\ posted' = [posted EXCEPT ![r] = @ + 1]
          /\ Goto(c, "saveRequest")
          /\ UNCHANGED call
       \/ Leave(c) /\ UNCHANGED <<balance, external, posted>>
    /\ UNCHANGED <<stranded, torn, request>>

Decide(c, status) ==
    /\ request' = [request EXCEPT ![Doc(c)].status = status]
    /\ TornIfStale(c)
    /\ Goto(c, "idle")
    /\ call' = Decided(c, NoCall)
    /\ UNCHANGED <<money, posted>>

SaveApproved(c) ==
    /\ pc[c] = "saveRequest"
    /\ Decide(c, "APPROVED")

\* Only an adjustment can be cancelled.
Dismissals(r) == IF request[r].kind = "topup" THEN {"REJECTED"} ELSE {"REJECTED", "CANCELLED"}

Dismiss(c) ==
    /\ pc[c] = "dismiss"
    /\ \E status \in Dismissals(Doc(c)) : Decide(c, status)

-----------------------------------------------------------------------------
RequestNext ==
    \/ \E r \in Requests : InitiateTopup(r) \/ ProposeAdjustment(r)
    \/ \E c \in Clerks :
         \/ \E r \in Requests : ReadRequest(c, r)
         \/ PostRequest(c) \/ SaveApproved(c) \/ Dismiss(c)

-----------------------------------------------------------------------------
(* Properties *)

\* "We don't want a row marked APPROVED with no matching ledger entry": whatever
\* clerks interleave, and wherever they end, an approved request was posted.
ApprovedIsPosted ==
    \A r \in Requests : request[r].status = "APPROVED" => posted[r] >= 1

\* Unless a clerk decided about what another had decided, or ended between its
\* posting and its save, a request is posted once when it is APPROVED and never
\* when it is pending or dismissed.
RequestTellsPostings ==
    \A r \in Requests \ torn : Quiet(r) =>
        posted[r] = IF request[r].status \in {"APPROVED", "EXECUTED"} THEN 1 ELSE 0

\* Postings and decisions match: none approved without one, and one for each approval.
RequestsArePosted == ApprovedIsPosted /\ RequestTellsPostings
=============================================================================
