----------------------------- MODULE PaymentTxn -----------------------------
(***************************************************************************)
(* The life of a gateway top-up (services/payment/payment.service.ts) and  *)
(* everything that moves it: the webhook queue and its worker, the return  *)
(* URL and the payment advice, the recon sweeper and the settlement file.  *)
(*                                                                         *)
(* Each of them ends in one of the markX methods, which read the           *)
(* PaymentTransaction, check the transition, move the wallet and save the  *)
(* new status.  The three are separate round trips with nothing held in    *)
(* between: save() writes the status without comparing the one it read.    *)
(* A wallet call is one step here; WalletWriters says why it may be.       *)
(***************************************************************************)
EXTENDS Naturals, Sequences, FiniteSets

CONSTANTS
    Payments,       \* PaymentTransactions
    Handlers,       \* concurrent requests, queue jobs and cron runs
    EventTypes,     \* webhook event types the gateway sends
    Repeated,       \* those it may deliver twice
    Notices,        \* ICICI: its return page and its payment advice
    MaxAttempts,    \* BullMQ attempts of a webhook job
    WaterfallLive,  \* env.WATERFALL_LIVE, for top-ups of an agency
    SessionId,      \* what initiate() stores as gatewayTxnId
    Expires,        \* a session may stay undecided for more than an hour
    Reconciles,     \* finance uploads the gateway's settlement file
    None

ASSUME PaymentAssumption ==
    /\ EventTypes \subseteq {"SUCCESS", "FAILED", "REFUND_ACCEPTED",
                             "REFUND_COMPLETED", "REFUND_FAILED"}
    /\ Repeated \subseteq EventTypes
    /\ Notices \subseteq {"return", "advice"}
    /\ MaxAttempts \in Nat \ {0}
    /\ WaterfallLive \in BOOLEAN /\ Expires \in BOOLEAN /\ Reconciles \in BOOLEAN
    /\ SessionId \in {"session", "order"}
    /\ None \notin Handlers

VARIABLES
    pt,         \* the PaymentTransaction documents: status, gatewayTxnId
    rows,       \* WalletTransactions of each payment, in commit order
    unreversed, \* payments whose reversal the wallet refused
    gateway,    \* the gateway's verdict on the money of the customer
    refund,     \* the gateway's verdict on a refund
    event,      \* webhook events by payment, type and delivery
    notice,     \* the event an ICICI return page or advice is stored as
    report,     \* what the settlement reconciliation said of a payment
    pc, job, seen \* per handler: control point, call, document it read

callVars == <<pc, job, seen>>
vars == <<pt, rows, unreversed, gateway, refund, event, notice, report, callVars>>

Statuses == {"NONE", "INITIATED", "PENDING", "SUCCESS", "FAILED", "TIMEOUT",
             "REFUND_INITIATED", "REFUNDED"}
Marks == {"SUCCESS", "FAILED", "TIMEOUT", "REFUND_INITIATED", "REFUNDED",
          "REFUND_FAILED"}
Document == [status : Statuses, gid : {None, "session", "order", "gateway"}]
Delivery == Payments \X ((EventTypes \X {1}) \cup (Repeated \X {2}))
Row == [kind : {"TOPUP", "REVERSAL"}, ref : {"pt", "order", "gateway", "pt-refund"}]
Job == [mark : Marks, payment : Payments, gid : {None, "order", "gateway"},
        delivery : Delivery \cup {None}, notice : {"none", "return", "advice"},
        recon : BOOLEAN]

TypeOK ==
    /\ pt \in [Payments -> Document]
    /\ rows \in [Payments -> Seq(Row)]
    /\ unreversed \subseteq Payments
    /\ gateway \in [Payments -> {"none", "open", "captured", "declined"}]
    /\ refund \in [Payments -> {"none", "accepted", "completed", "failed"}]
    /\ event \in [Delivery -> [state : {"none", "queued", "running", "PROCESSED",
                                        "DUPLICATE", "dead"},
                               attempts : 0 .. MaxAttempts]]
    /\ notice \in [Payments -> [{"return", "advice"} ->
                                  {"none", "stored", "PROCESSED"}]]
    /\ report \in [Payments -> {"none", "matched", "resolved", "mismatch", "no PT"}]
    /\ pc \in [Handlers -> {"idle", "read", "credit", "debit", "save", "done", "error"}]
    /\ job \in [Handlers -> Job \cup {None}]
    /\ seen \in [Handlers -> Document \cup {None}]

Init ==
    /\ pt = [p \in Payments |-> [status |-> "NONE", gid |-> None]]
    /\ rows = [p \in Payments |-> <<>>]
    /\ unreversed = {}
    /\ gateway = [p \in Payments |-> "none"]
    /\ refund = [p \in Payments |-> "none"]
    /\ event = [d \in Delivery |-> [state |-> "none", attempts |-> 0]]
    /\ notice = [p \in Payments |-> [n \in {"return", "advice"} |-> "none"]]
    /\ report = [p \in Payments |-> "none"]
    /\ pc = [h \in Handlers |-> "idle"]
    /\ job = [h \in Handlers |-> None]
    /\ seen = [h \in Handlers |-> None]

-----------------------------------------------------------------------------
(* The state machine of types.ts, without the statuses no code ever sets *)

ValidTransitions ==
    {<<"INITIATED", "PENDING">>, <<"INITIATED", "FAILED">>,
     <<"PENDING", "SUCCESS">>, <<"PENDING", "FAILED">>, <<"PENDING", "TIMEOUT">>,
     <<"SUCCESS", "REFUND_INITIATED">>,
     <<"TIMEOUT", "SUCCESS">>, <<"TIMEOUT", "FAILED">>,
     <<"REFUND_INITIATED", "REFUNDED">>, <<"REFUND_INITIATED", "FAILED">>}

\* Statuses in which a call has nothing left to do and returns the document.
NothingToDo(mark) ==
    CASE mark = "SUCCESS"          -> {"SUCCESS"}
      [] mark = "FAILED"           -> {"SUCCESS"}
      [] mark = "TIMEOUT"          -> {"SUCCESS", "FAILED"}
      [] mark = "REFUND_INITIATED" -> {"REFUND_INITIATED", "REFUNDED"}
      [] mark = "REFUNDED"         -> {"REFUNDED"}
      [] mark = "REFUND_FAILED"    -> Statuses \ {"REFUND_INITIATED"}

\* The status a call saves.
Target(mark) == IF mark = "REFUND_FAILED" THEN "FAILED" ELSE mark

\* markTimeout is the only call that does not ask isValidTransition.
Allowed(mark, status) ==
    mark = "TIMEOUT" \/ <<status, Target(mark)>> \in ValidTransitions

\* Mutant: the credit carries the gateway reference of the call that makes it.
CreditRefPerCall(j) == IF j.gid = None THEN "pt" ELSE j.gid

\* The idempotency key of a credit: the payment, or what the caller of
\* markSuccess knows as the gateway's reference.
CreditRef(j) == IF WaterfallLive /\ j.gid # None THEN j.gid ELSE "pt"

\* Mutant: the row is written whatever the keys of the rows before it.
PostedAlways(p, row) == Append(rows[p], row)

\* A row is written unless its key was used before.
Posted(p, row) ==
    IF \E i \in DOMAIN rows[p] : rows[p][i].ref = row.ref
    THEN rows[p] ELSE Append(rows[p], row)

-----------------------------------------------------------------------------
(* Initiation and the gateway *)

SetStatus(p, status) == pt' = [pt EXCEPT ![p].status = status]

\* initiateTopup creates the document before it contacts the gateway.
Initiate(p) ==
    /\ pt[p].status = "NONE"
    /\ SetStatus(p, "INITIATED")
    /\ UNCHANGED <<rows, unreversed, gateway, refund, event, notice, report, callVars>>

\* provider.initiate returned a session: the customer is redirected.
Redirect(p) ==
    /\ pt[p].status = "INITIATED"
    /\ pt' = [pt EXCEPT ![p] = [status |-> "PENDING", gid |-> SessionId]]
    /\ gateway' = [gateway EXCEPT ![p] = "open"]
    /\ UNCHANGED <<rows, unreversed, refund, event, notice, report, callVars>>

\* provider.initiate threw.
InitiateFails(p) ==
    /\ pt[p].status = "INITIATED"
    /\ SetStatus(p, "FAILED")
    /\ UNCHANGED <<rows, unreversed, gateway, refund, event, notice, report, callVars>>

\* The customer pays, gives up, or asks the merchant's dashboard for a refund.
Decide(p, verdict) ==
    /\ gateway[p] = "open"
    /\ gateway' = [gateway EXCEPT ![p] = verdict]
    /\ UNCHANGED <<pt, rows, unreversed, refund, event, notice, report, callVars>>

Refund(p, verdict) ==
    /\ gateway[p] = "captured"
    /\ \/ refund[p] = "none" /\ verdict = "accepted"
       \/ refund[p] = "accepted" /\ verdict \in {"completed", "failed"}
    /\ refund' = [refund EXCEPT ![p] = verdict]
    /\ UNCHANGED <<pt, rows, unreversed, gateway, event, notice, report, callVars>>

\* What must be true at the gateway before it sends an event.
Happened(p, type) ==
    CASE type = "SUCCESS"          -> gateway[p] = "captured"
      [] type = "FAILED"           -> gateway[p] = "declined"
      [] type = "REFUND_ACCEPTED"  -> refund[p] # "none"
      [] type = "REFUND_COMPLETED" -> refund[p] = "completed"
      [] type = "REFUND_FAILED"    -> refund[p] = "failed"

\* POST /phonepe/webhook stores the event, answers 200 and queues a job.  Any
\* delivery may be lost, and one event may be delivered more than once.
Deliver(d) ==
    /\ event[d].state = "none"
    /\ Happened(d[1], d[2][1])
    /\ event' = [event EXCEPT ![d].state = "queued"]
    /\ UNCHANGED <<pt, rows, unreversed, gateway, refund, notice, report, callVars>>

-----------------------------------------------------------------------------
(* Where the calls come from *)

Goto(h, step) == pc' = [pc EXCEPT ![h] = step]

\* A call to mark p, for nothing but its answer.
Call(mark, p, gid) ==
    [mark |-> mark, payment |-> p, gid |-> gid, delivery |-> None, notice |-> "none",
     recon |-> FALSE]

Start(h, call) ==
    /\ pc[h] = "idle"
    /\ job' = [job EXCEPT ![h] = call]
    /\ Goto(h, "read")
    /\ UNCHANGED seen

MarkFor(type) ==
    CASE type = "SUCCESS"          -> "SUCCESS"
      [] type = "FAILED"           -> "FAILED"
      [] type = "REFUND_ACCEPTED"  -> "REFUND_INITIATED"
      [] type = "REFUND_COMPLETED" -> "REFUNDED"
      [] type = "REFUND_FAILED"    -> "REFUND_FAILED"

Same(e, d) == e[1] = d[1] /\ e[2][1] = d[2][1]

\* Mutant: an event that was delivered before is a duplicate already.
DuplicateOnReceipt(d) ==
    \E e \in Delivery : e # d /\ Same(e, d) /\ event[e].state # "none"

\* Another delivery of the same event has been processed.
Duplicate(d) ==
    \E e \in Delivery : e # d /\ Same(e, d) /\ event[e].state = "PROCESSED"

\* The webhook worker drops a duplicate.
DropDuplicate(d) ==
    /\ event[d].state = "queued"
    /\ Duplicate(d)
    /\ event' = [event EXCEPT ![d].state = "DUPLICATE"]
    /\ UNCHANGED <<pt, rows, unreversed, gateway, refund, notice, report, callVars>>

\* It routes the others by their type, refunds first; the reference it passes
\* on is the merchantOrderId of the payload.
WebhookJob(h, d) ==
    /\ event[d].state = "queued"
    /\ ~Duplicate(d)
    /\ event' = [event EXCEPT ![d].state = "running"]
    /\ Start(h, [Call(MarkFor(d[2][1]), d[1], "order") EXCEPT !.delivery = d])
    /\ UNCHANGED <<pt, rows, unreversed, gateway, refund, notice, report>>

\* A page or an advice with a verdict on p.
Told(h, p, from) ==
    \/ gateway[p] = "captured" /\ Start(h, [Call("SUCCESS", p, "gateway") EXCEPT !.notice = from])
    \/ gateway[p] = "declined" /\ Start(h, [Call("FAILED", p, None) EXCEPT !.notice = from])

\* The return URL of pgpay, which stores no event, and of ICICI when storing
\* one failed.
Inline(h, p) ==
    /\ Told(h, p, "none")
    /\ UNCHANGED <<pt, rows, unreversed, gateway, refund, event, notice, report>>

SetNotice(p, n, state) == notice' = [notice EXCEPT ![p][n] = state]

\* The return URL of ICICI: its event says PROCESSED before markSuccess is called.
\* Without a verdict there is no call, without a valid hash no PROCESSED.
ReturnPage(h, p) ==
    /\ "return" \in Notices /\ notice[p]["return"] = "none"
    /\ \/ SetNotice(p, "return", "PROCESSED") /\ Told(h, p, "return")
       \/ /\ gateway[p] = "open" /\ pc[h] = "idle"
          /\ SetNotice(p, "return", "PROCESSED") /\ UNCHANGED callVars
       \/ /\ gateway[p] # "none" /\ pc[h] = "idle"
          /\ SetNotice(p, "return", "stored") /\ UNCHANGED callVars
    /\ UNCHANGED <<pt, rows, unreversed, gateway, refund, event, report>>

\* Mutant: the advice says PROCESSED before the call, as the return page does.
AdviceProcessedFirst(h, p) ==
    /\ "advice" \in Notices /\ notice[p]["advice"] = "none"
    /\ SetNotice(p, "advice", "PROCESSED")
    /\ Told(h, p, "advice")
    /\ UNCHANGED <<pt, rows, unreversed, gateway, refund, event, report>>

\* The payment advice of ICICI is stored and answered with 200 before the call.
Advice(h, p) ==
    /\ "advice" \in Notices /\ notice[p]["advice"] = "none"
    /\ SetNotice(p, "advice", "stored")
    /\ Told(h, p, "advice")
    /\ UNCHANGED <<pt, rows, unreversed, gateway, refund, event, report>>

\* Mutant: the sweeper asks with the session id of any gateway.
AskedSession(p) == "session"

\* The reference the sweeper asks the gateway with: gatewayTxnId, else txnCode.
Asked(p) == IF pt[p].gid = None THEN "order" ELSE pt[p].gid

\* fetchStatus answers with the verdict, or with UNKNOWN when the gateway is not
\* reached or, as PhonePe and ICICI, knows payments by the merchant's order id only.
PollAnswer(p) == IF Asked(p) = "order" THEN {gateway[p], "open"} ELSE {"open"}

\* sweepStalePayments on one stale payment.
Sweep(h, p) ==
    /\ pt[p].status = "PENDING"
    /\ \E answer \in PollAnswer(p) :
         \/ answer = "captured" /\ Start(h, Call("SUCCESS", p, "gateway"))
         \/ answer = "declined" /\ Start(h, Call("FAILED", p, None))
         \/ answer = "open" /\ Expires /\ Start(h, Call("TIMEOUT", p, None))
    /\ UNCHANGED <<pt, rows, unreversed, gateway, refund, event, notice, report>>

\* The settlement file lists merchant order ids; the document is looked up by
\* its gatewayTxnId.
FoundInSettlement(p) == pt[p].gid = "order"

\* What a row of the file says of its payment: recover a pending one, report a
\* false SUCCESS, count everything else as agreement.
SettlementVerdict(p) ==
    LET captured == gateway[p] = "captured" IN
    CASE ~FoundInSettlement(p) -> "no PT"
      [] FoundInSettlement(p) /\ captured /\ pt[p].status \in {"PENDING", "TIMEOUT"}
           -> "recover"
      [] FoundInSettlement(p) /\ ~captured /\ pt[p].status = "SUCCESS" -> "mismatch"
      [] OTHER -> "matched"

\* reconcileOneRow, for the row of a payment the gateway has decided.
Reconcile(h, p) ==
    /\ Reconciles
    /\ gateway[p] \in {"captured", "declined"}
    /\ LET verdict == SettlementVerdict(p) IN
         IF verdict = "recover"
         THEN Start(h, [Call("SUCCESS", p, "order") EXCEPT !.recon = TRUE]) /\ UNCHANGED report
         ELSE report' = [report EXCEPT ![p] = verdict] /\ UNCHANGED callVars
    /\ UNCHANGED <<pt, rows, unreversed, gateway, refund, event, notice>>

-----------------------------------------------------------------------------
(* The markX methods *)

\* findById and the checks on the status it returned.
Read(h) ==
    /\ pc[h] = "read"
    /\ LET mark == job[h].mark
           status == pt[job[h].payment].status
       IN
         /\ seen' = [seen EXCEPT ![h] = pt[job[h].payment]]
         /\ Goto(h, IF status \in NothingToDo(mark) THEN "done"
                    ELSE IF ~Allowed(mark, status) THEN "error"
                    ELSE IF mark = "SUCCESS" THEN "credit"
                    ELSE IF mark = "REFUNDED" THEN "debit"
                    ELSE "save")
    /\ UNCHANGED <<pt, rows, unreversed, gateway, refund, event, notice, report, job>>

\* walletService.credit, or applyPayment of the waterfall.
Credit(h) ==
    /\ pc[h] = "credit"
    /\ LET p == job[h].payment IN
         rows' = [rows EXCEPT ![p] = Posted(p, [kind |-> "TOPUP",
                                               ref |-> CreditRef(job[h])])]
    /\ Goto(h, "save")
    /\ UNCHANGED <<pt, unreversed, gateway, refund, event, notice, report, job, seen>>

\* Mutant: a refused credit is logged like a refused reversal is.
CreditFailsQuietly(h) ==
    /\ pc[h] = "credit"
    /\ Goto(h, "save")
    /\ UNCHANGED <<pt, rows, unreversed, gateway, refund, event, notice, report, job, seen>>

\* The wallet is locked, frozen or unreachable: markSuccess throws.
CreditFails(h) ==
    /\ pc[h] = "credit"
    /\ Goto(h, "error")
    /\ UNCHANGED <<pt, rows, unreversed, gateway, refund, event, notice, report, job, seen>>

\* walletService.debit with allowNegative.
Debit(h) ==
    /\ pc[h] = "debit"
    /\ LET p == job[h].payment IN
         rows' = [rows EXCEPT ![p] = Posted(p, [kind |-> "REVERSAL",
                                               ref |-> "pt-refund"])]
    /\ Goto(h, "save")
    /\ UNCHANGED <<pt, unreversed, gateway, refund, event, notice, report, job, seen>>

\* A refused reversal is logged, and the payment becomes REFUNDED all the same.
DebitFails(h) ==
    /\ pc[h] = "debit"
    /\ unreversed' = unreversed \cup {job[h].payment}
    /\ Goto(h, "save")
    /\ UNCHANGED <<pt, rows, gateway, refund, event, notice, report, job, seen>>

\* Mongoose writes a field only when the call changed the value it read.
Dirty(read, new, stored) == IF new = read THEN stored ELSE new

\* pt.save(): the document in the database may have changed since the read.
Save(h) ==
    /\ pc[h] = "save"
    /\ LET j == job[h]
           gid == IF j.mark = "SUCCESS" /\ j.gid # None THEN j.gid ELSE seen[h].gid
       IN
         pt' = [pt EXCEPT ![j.payment] =
                  [status |-> Dirty(seen[h].status, Target(j.mark), @.status),
                   gid |-> Dirty(seen[h].gid, gid, @.gid)]]
    /\ Goto(h, "done")
    /\ UNCHANGED <<rows, unreversed, gateway, refund, event, notice, report, job, seen>>

\* The event of a return page or advice gets its outcome; a save that throws
\* leaves it as it was.
Noted(h, state) ==
    LET p == job[h].payment
        n == job[h].notice
    IN  IF n = "none" THEN UNCHANGED notice
        ELSE \E new \in {notice[p][n], state} : SetNotice(p, n, new)

\* The call returned: the worker or the advice marks its event PROCESSED, the
\* reconciliation counts a recovered payment.
Return(h) ==
    /\ pc[h] = "done"
    /\ event' = IF job[h].delivery = None THEN event
                ELSE [event EXCEPT ![job[h].delivery].state = "PROCESSED"]
    /\ Noted(h, "PROCESSED")
    /\ report' = IF job[h].recon
                 THEN [report EXCEPT ![job[h].payment] = "resolved"] ELSE report
    /\ Goto(h, "idle")
    /\ job' = [job EXCEPT ![h] = None]
    /\ seen' = [seen EXCEPT ![h] = None]
    /\ UNCHANGED <<pt, rows, unreversed, gateway, refund>>

\* A failed job is queued again until its attempts are used up.
Requeue(d) ==
    LET n == event[d].attempts + 1 IN
        [state |-> IF n < MaxAttempts THEN "queued" ELSE "dead", attempts |-> n]

\* The call threw.  Only a queued webhook is tried again.
Throw(h) ==
    /\ pc[h] = "error"
    /\ event' = IF job[h].delivery = None THEN event
                ELSE [event EXCEPT ![job[h].delivery] = Requeue(job[h].delivery)]
    /\ Noted(h, "stored")
    /\ Goto(h, "idle")
    /\ job' = [job EXCEPT ![h] = None]
    /\ seen' = [seen EXCEPT ![h] = None]
    /\ UNCHANGED <<pt, rows, unreversed, gateway, refund, report>>

\* The process dies: an inline call is lost, its event stays as it is; a stalled
\* job is queued again, or given up when it stalled before.
Crash(h) ==
    /\ pc[h] # "idle"
    /\ IF job[h].delivery = None THEN UNCHANGED event
       ELSE \E state \in {"queued", "dead"} :
              event' = [event EXCEPT ![job[h].delivery].state = state]
    /\ Goto(h, "idle")
    /\ job' = [job EXCEPT ![h] = None]
    /\ seen' = [seen EXCEPT ![h] = None]
    /\ UNCHANGED <<pt, rows, unreversed, gateway, refund, notice, report>>

-----------------------------------------------------------------------------
(* The specification *)

Proceed(h) ==
    \/ Read(h) \/ Credit(h) \/ CreditFails(h) \/ Debit(h) \/ DebitFails(h)
    \/ Save(h) \/ Return(h) \/ Throw(h)

External(p) ==
    \/ Initiate(p) \/ Redirect(p) \/ InitiateFails(p)
    \/ \E verdict \in {"captured", "declined"} : Decide(p, verdict)
    \/ \E verdict \in {"accepted", "completed", "failed"} :
         /\ "REFUND_ACCEPTED" \in EventTypes
         /\ Refund(p, verdict)

Next ==
    \/ \E p \in Payments : External(p)
    \/ \E d \in Delivery : Deliver(d) \/ DropDuplicate(d)
    \/ \E h \in Handlers :
         \/ Proceed(h) \/ Crash(h)
         \/ \E d \in Delivery : WebhookJob(h, d)
         \/ \E p \in Payments :
              \/ Inline(h, p) \/ ReturnPage(h, p) \/ Advice(h, p)
              \/ Sweep(h, p) \/ Reconcile(h, p)

Spec == Init /\ [][Next]_vars

\* The scheduler of Node runs every call on, the wallet does not refuse a credit
\* forever, the cron comes back every five minutes while the payment is PENDING
\* and a gateway that can answer is reached now and then.  Strong fairness, since
\* a crash may take any of these steps away for a while.  No webhook, return or
\* advice need ever arrive.
FairSpec ==
    /\ Spec
    /\ \A h \in Handlers :
         /\ SF_vars(Read(h)) /\ SF_vars(Credit(h)) /\ SF_vars(Save(h))
         /\ WF_vars(Return(h)) /\ WF_vars(Throw(h))
    /\ \A p \in Payments :
         SF_vars(\E h \in Handlers : Sweep(h, p) /\ job'[h].mark = "SUCCESS")

-----------------------------------------------------------------------------
(* Properties *)

\* Where the rows of that kind are.
Rows(p, kind) == {i \in DOMAIN rows[p] : rows[p][i].kind = kind}
Credited(p) == Rows(p, "TOPUP") # {}
Reversed(p) == Rows(p, "REVERSAL") # {}
AtMostOne(p, kind) == \A i, j \in Rows(p, kind) : i = j

\* However many webhooks, returns, advices and sweeps race on one payment, the
\* wallet is credited for it once ("concurrent calls converge").
CreditedOnce == \A p \in Payments : AtMostOne(p, "TOPUP")

\* A payment is shown as paid, or as being refunded, only after the wallet has
\* the money: the status is saved after the credit and never without it.
SettledIsCredited ==
    \A p \in Payments :
        pt[p].status \in {"SUCCESS", "REFUND_INITIATED", "REFUNDED"} => Credited(p)

\* Nobody's word but the gateway's moves the wallet: no timeout, poll or
\* settlement row credits a payment that was not captured.
OnlyCapturedIsCredited ==
    \A p \in Payments : Credited(p) => gateway[p] = "captured"

\* The wallet, the status and the gateway agree on what was captured, whichever of
\* webhook, return, poll and timeout comes in between.
CreditsMatchCaptures == SettledIsCredited /\ OnlyCapturedIsCredited

\* The wallet gives money back at most once, only for a credit it made, and
\* only when the gateway has completed the refund.
ReversalsFollowRefunds ==
    \A p \in Payments :
        /\ AtMostOne(p, "REVERSAL")
        /\ Reversed(p) => refund[p] = "completed" /\ rows[p][1].kind = "TOPUP"

\* A webhook that was acknowledged and is done with has had its effect: a paid
\* payment is in the wallet, a refund was taken out of it or is known to have
\* been refused.  A crash or a failed attempt never leaves a processed event
\* whose money did not move.
AcknowledgedEventsTookEffect ==
    \A d \in Delivery :
        /\ event[d].state = "PROCESSED" /\ d[2][1] = "SUCCESS" => Credited(d[1])
        /\ event[d].state = "PROCESSED" /\ d[2][1] = "REFUND_COMPLETED"
              => Reversed(d[1]) \/ d[1] \in unreversed
        /\ event[d].state = "DUPLICATE"
              => \E e \in Delivery : Same(e, d) /\ event[e].state = "PROCESSED"

\* The payment advice of ICICI says PROCESSED only of money that is in the wallet.
\* Its return page says so before the call, and a call that throws or dies may
\* leave it so: then the money is not in the wallet, but the payment is still in a
\* status from which another call can bring it in, and no document says it failed.
NoticesTookEffect ==
    \A p \in Payments :
        gateway[p] = "captured" /\ ~Credited(p) =>
            /\ notice[p]["advice"] # "PROCESSED"
            /\ notice[p]["return"] = "PROCESSED" => pt[p].status \in {"PENDING", "TIMEOUT"}

\* Once the books are closed on a payment (REFUNDED, and the reversal posted)
\* no late webhook or sweep opens them again: its rows stay as they are.
RefundsAreFinal ==
    [][\A p \in Payments : Reversed(p) => rows'[p] = rows[p]]_vars

\* A captured payment reaches the wallet although webhooks and advices may be lost,
\* calls may crash and the wallet may refuse some of them: the sweeper brings the
\* credit in.  It can only where initiate() stored the id the gateway is asked with
\* (pgpay): "Status reconciliation [...] works as-is" is false of the others.
CapturedIsCredited ==
    \A p \in Payments : gateway[p] = "captured" ~> Credited(p)
=============================================================================
