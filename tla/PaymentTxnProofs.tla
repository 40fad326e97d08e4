-------------------------- MODULE PaymentTxnProofs --------------------------
(***************************************************************************)
(* Theorems about PaymentTxn, for any number of payments, handlers, event  *)
(* types and attempts: what the wallet got, what the documents say and     *)
(* what the gateway did agree, in every race of webhooks, returns, polls   *)
(* and settlement rows and with every call that dies.                      *)
(*                                                                         *)
(* The markX methods look once and save what they decided then.  What      *)
(* carries the proofs is therefore what never goes back: a row, a verdict  *)
(* of the gateway, a processed event.  A call between its wallet step and  *)
(* its save leans on the row it wrote, not on the status it read.          *)
(***************************************************************************)
EXTENDS PaymentTxn, SequenceTheorems, TLAPS

-----------------------------------------------------------------------------
(* The inductive invariant *)

Unsent  == {"NONE", "INITIATED"}
Settled == {"SUCCESS", "REFUND_INITIATED", "REFUNDED"}
Waiting == {"PENDING", "TIMEOUT"}

\* No key is used twice, the reversal has a key of its own, and the first row is
\* a credit.  Without the waterfall there is one key for all credits.
RowsKnown(p) ==
    /\ \A i, j \in DOMAIN rows[p] : rows[p][i].ref = rows[p][j].ref => i = j
    /\ \A i \in DOMAIN rows[p] :
          /\ rows[p][i].kind = "REVERSAL" <=> rows[p][i].ref = "pt-refund"
          /\ ~WaterfallLive => rows[p][i].ref \in {"pt", "pt-refund"}
    /\ rows[p] # <<>> => rows[p][1].kind = "TOPUP"

\* The reversal of a refund was posted, or the wallet refused it.
Taken(p) == Reversed(p) \/ p \in unreversed

PaymentKnown(p) ==
    /\ RowsKnown(p)
    /\ pt[p].status \in Unsent => gateway[p] = "none"
    /\ pt[p].status \in Settled => Credited(p)
    /\ pt[p].status = "REFUNDED" => Taken(p)
    /\ Credited(p) => gateway[p] = "captured"
    /\ Reversed(p) => refund[p] = "completed"
    /\ gateway[p] \in {"open", "captured"} => Credited(p) \/ pt[p].status \in Waiting
    /\ notice[p]["advice"] = "PROCESSED" => Credited(p) \/ gateway[p] = "declined"

\* What a call at that step has behind it.
JobKnown(h) ==
    pc[h] # "idle" =>
        LET j == job[h]
            p == j.payment IN
        /\ j \in Job
        /\ j.mark = "SUCCESS" => gateway[p] = "captured"
        /\ j.mark = "FAILED" => gateway[p] = "declined"
        /\ j.mark = "REFUNDED" => refund[p] = "completed"
        /\ pc[h] = "credit" => j.mark = "SUCCESS"
        /\ pc[h] = "debit" => j.mark = "REFUNDED"
        /\ pc[h] \in {"credit", "debit", "save"} => seen[h] \in Document
        /\ pc[h] \in {"save", "done"} /\ j.mark = "SUCCESS" => Credited(p)
        /\ pc[h] = "save" /\ j.mark \in {"REFUND_INITIATED", "REFUND_FAILED"} => Credited(p)
        /\ pc[h] \in {"debit", "save"} /\ j.mark = "REFUNDED" => Credited(p)
        /\ pc[h] \in {"save", "done"} /\ j.mark = "REFUNDED" => Taken(p)
        /\ j.delivery # None => /\ event[j.delivery].state = "running"
                                /\ j.mark = MarkFor(j.delivery[2][1])
                                /\ p = j.delivery[1]
        /\ j.notice # "none" => j.mark \in {"SUCCESS", "FAILED"}

\* A delivery is in the hands of one call.
HandledOnce ==
    \A g, h \in Handlers :
        pc[g] # "idle" /\ pc[h] # "idle" /\ job[g].delivery = job[h].delivery =>
            g = h \/ job[h].delivery = None

EventKnown(d) ==
    /\ event[d].state # "none" => Happened(d[1], d[2][1])
    /\ event[d].state \in {"none", "queued", "running"} => event[d].attempts < MaxAttempts
    /\ event[d].state = "PROCESSED" /\ d[2][1] = "SUCCESS" => Credited(d[1])
    /\ event[d].state = "PROCESSED" /\ d[2][1] = "REFUND_COMPLETED" => Taken(d[1])
    /\ event[d].state = "DUPLICATE" =>
          \E e \in Delivery : Same(e, d) /\ event[e].state = "PROCESSED"

IInv ==
    /\ TypeOK /\ HandledOnce
    /\ \A p \in Payments : PaymentKnown(p)
    /\ \A h \in Handlers : JobKnown(h)
    /\ \A d \in Delivery : EventKnown(d)

-----------------------------------------------------------------------------
(* What never goes back *)

Grows ==
    /\ \A p \in Payments :
          /\ Credited(p) => Credited(p)'
          /\ Reversed(p) => Reversed(p)'
          /\ p \in unreversed => p \in unreversed'
          /\ gateway[p] \in {"captured", "declined"} => gateway'[p] = gateway[p]
          /\ refund[p] # "none" => refund'[p] # "none"
          /\ refund[p] \in {"completed", "failed"} => refund'[p] = refund[p]
    /\ \A d \in Delivery : event[d].state = "PROCESSED" => event'[d].state = "PROCESSED"

Untouched(h) == pc'[h] = pc[h] /\ job'[h] = job[h] /\ seen'[h] = seen[h]

LEMMA DeliveryFacts ==
    ASSUME NEW d \in Delivery
    PROVE  d[1] \in Payments /\ d[2][1] \in EventTypes
BY PaymentAssumption DEF Delivery

\* What happened at the gateway stays so.
LEMMA HappenedKeeps ==
    ASSUME NEW p \in Payments, NEW type \in EventTypes, Grows, Happened(p, type)
    PROVE  Happened(p, type)'
<1>1. type \in {"SUCCESS", "FAILED", "REFUND_ACCEPTED", "REFUND_COMPLETED", "REFUND_FAILED"}
  BY PaymentAssumption
<1> QED
  BY <1>1 DEF Grows, Happened

\* A call that waits keeps what it has behind it.
LEMMA JobKeeps ==
    ASSUME IInv, NEW h \in Handlers, Untouched(h), Grows,
           pc[h] # "idle" /\ job[h].delivery # None =>
              event'[job[h].delivery].state = event[job[h].delivery].state
    PROVE  JobKnown(h)'
<1> SUFFICES ASSUME pc[h] # "idle" PROVE JobKnown(h)'
  BY DEF JobKnown, Untouched
<1>1. PICK j \in Job : j = job[h]
  BY DEF IInv, JobKnown
<1>2. j.payment \in Payments
  BY DEF Job
<1>3. JobKnown(h)
  BY DEF IInv
<1> QED
  BY <1>1, <1>2, <1>3 DEF JobKnown, Untouched, Grows, Taken

LEMMA EventKeeps ==
    ASSUME IInv, NEW d \in Delivery, Grows, event'[d] = event[d]
    PROVE  EventKnown(d)'
<1>1. EventKnown(d) /\ d[1] \in Payments /\ d[2][1] \in EventTypes
  BY DeliveryFacts DEF IInv
<1>2. event'[d].state # "none" => Happened(d[1], d[2][1])'
  BY <1>1, HappenedKeeps DEF EventKnown
<1>3. event'[d].state = "DUPLICATE" =>
         \E e \in Delivery : Same(e, d) /\ event'[e].state = "PROCESSED"
  BY <1>1 DEF EventKnown, Grows
<1> QED
  BY <1>1, <1>2, <1>3 DEF EventKnown, Grows, Taken

\* Rows are only appended, each under a key of its own.
LEMMA PostedFacts ==
    ASSUME NEW p \in Payments, rows \in [Payments -> Seq(Row)], RowsKnown(p), NEW row \in Row,
           row.kind = "REVERSAL" <=> row.ref = "pt-refund",
           ~WaterfallLive => row.ref \in {"pt", "pt-refund"},
           row.kind = "REVERSAL" => Credited(p),
           rows' = [rows EXCEPT ![p] = Posted(p, row)]
    PROVE  /\ rows' \in [Payments -> Seq(Row)]
           /\ RowsKnown(p)'
           /\ Credited(p) => Credited(p)'
           /\ Reversed(p) => Reversed(p)'
           /\ Credited(p)' <=> Credited(p) \/ row.kind = "TOPUP"
           /\ Reversed(p)' <=> Reversed(p) \/ row.kind = "REVERSAL"
           /\ \A q \in Payments \ {p} : rows'[q] = rows[q]
<1>1. PICK old \in Seq(Row) : old = rows[p]
  OBVIOUS
<1>0. row.kind \in {"TOPUP", "REVERSAL"} /\ "TOPUP" # "REVERSAL"
  BY DEF Row
<1>2. CASE \E i \in DOMAIN old : old[i].ref = row.ref
  <2>1. rows' = rows
    BY <1>1, <1>2 DEF Posted
  <2>2. PICK i \in DOMAIN old : old[i].ref = row.ref
    BY <1>2
  <2>3. old[i].kind \in {"TOPUP", "REVERSAL"}
    <3>1. i \in 1 .. Len(old)
      BY <2>2, LenProperties
    <3>2. old[i] \in Row
      BY <3>1, ElementOfSeq
    <3> QED
      BY <3>2 DEF Row
  <2>4. old[i].kind = row.kind
    BY <1>0, <1>1, <2>2, <2>3 DEF RowsKnown
  <2>5. row.kind = "TOPUP" => Credited(p)
    BY <1>1, <2>2, <2>4 DEF Credited, Rows
  <2>6. row.kind = "REVERSAL" => Reversed(p)
    BY <1>1, <2>2, <2>4 DEF Reversed, Rows
  <2>7. RowsKnown(p)' /\ (Credited(p)' <=> Credited(p)) /\ (Reversed(p)' <=> Reversed(p))
    BY <2>1 DEF RowsKnown, Credited, Reversed, Rows
  <2> QED
    BY <2>1, <2>5, <2>6, <2>7
<1>3. CASE \A i \in DOMAIN old : old[i].ref # row.ref
  <2>1. PICK new : new = Append(old, row)
    OBVIOUS
  <2>2. /\ new \in Seq(Row) /\ DOMAIN new = 1 .. (Len(old) + 1)
        /\ DOMAIN old = 1 .. Len(old) /\ Len(old) \in Nat
        /\ \A i \in DOMAIN old : i \in DOMAIN new /\ new[i] = old[i]
        /\ new[Len(old) + 1] = row
    BY <2>1, AppendProperties
  <2>3. rows' = [rows EXCEPT ![p] = new]
    BY <1>1, <1>3, <2>1 DEF Posted
  <2>4. rows'[p] = new /\ rows' \in [Payments -> Seq(Row)]
        /\ \A q \in Payments \ {p} : rows'[q] = rows[q]
    BY <2>2, <2>3
  <2>5. Credited(p)' <=> Credited(p) \/ row.kind = "TOPUP"
    BY <1>1, <2>2, <2>4 DEF Credited, Rows
  <2>6. Reversed(p)' <=> Reversed(p) \/ row.kind = "REVERSAL"
    BY <1>1, <2>2, <2>4 DEF Reversed, Rows
  <2>7. \A i, j \in DOMAIN new : new[i].ref = new[j].ref => i = j
    BY <1>1, <1>3, <2>2 DEF RowsKnown
  <2>8. \A i \in DOMAIN new : /\ new[i].kind = "REVERSAL" <=> new[i].ref = "pt-refund"
                              /\ ~WaterfallLive => new[i].ref \in {"pt", "pt-refund"}
    BY <1>1, <2>2 DEF RowsKnown
  <2>9. new[1].kind = "TOPUP"
    <3>1. CASE old = <<>>
      <4>1. ~Credited(p) /\ new[1] = row
        BY <1>1, <2>2, <3>1 DEF Credited, Rows
      <4> QED
        BY <1>0, <4>1
    <3>2. CASE old # <<>>
      <4>1. 1 \in DOMAIN old
        BY <3>2, <2>2, EmptySeq
      <4> QED
        BY <1>1, <2>2, <3>2, <4>1 DEF RowsKnown
    <3> QED
      BY <3>1, <3>2
  <2>10. RowsKnown(p)'
    BY <2>4, <2>7, <2>8, <2>9 DEF RowsKnown
  <2> QED
    BY <2>4, <2>5, <2>6, <2>10
<1> QED
  BY <1>2, <1>3

-----------------------------------------------------------------------------
(* Steps that touch no call, and steps of one call *)

BookTypes ==
    /\ pt \in [Payments -> Document]
    /\ rows \in [Payments -> Seq(Row)]
    /\ unreversed \subseteq Payments
    /\ gateway \in [Payments -> {"none", "open", "captured", "declined"}]
    /\ refund \in [Payments -> {"none", "accepted", "completed", "failed"}]
    /\ event \in [Delivery -> [state : {"none", "queued", "running", "PROCESSED",
                                        "DUPLICATE", "dead"},
                               attempts : 0 .. MaxAttempts]]
    /\ notice \in [Payments -> [{"return", "advice"} -> {"none", "stored", "PROCESSED"}]]
    /\ report \in [Payments -> {"none", "matched", "resolved", "mismatch", "no PT"}]

CallTypes ==
    /\ pc \in [Handlers -> {"idle", "read", "credit", "debit", "save", "done", "error"}]
    /\ job \in [Handlers -> Job \cup {None}]
    /\ seen \in [Handlers -> Document \cup {None}]

LEMMA Known ==
    ASSUME IInv
    PROVE  /\ BookTypes /\ CallTypes /\ HandledOnce
           /\ \A p \in Payments : PaymentKnown(p) /\ pt[p] \in Document /\ pt[p].status \in Statuses
           /\ \A d \in Delivery : EventKnown(d) /\ d[1] \in Payments /\ d[2][1] \in EventTypes
           /\ \A h \in Handlers :
                 /\ JobKnown(h)
                 /\ pc[h] # "idle" => /\ job[h] \in Job /\ job[h].payment \in Payments
                                      /\ job[h].mark \in Marks
                                      /\ job[h].delivery \in Delivery \cup {None}
                                      /\ job[h].notice \in {"none", "return", "advice"}
BY ZenonT(40), DeliveryFacts DEF IInv, TypeOK, BookTypes, CallTypes, JobKnown, Job, Document

\* What was paid and posted stays as it is.
Still(p) ==
    /\ pt'[p].status = pt[p].status /\ rows'[p] = rows[p]
    /\ gateway[p] = "none" => gateway'[p] = "none"
    /\ notice'[p]["advice"] = "PROCESSED" => notice[p]["advice"] = "PROCESSED"

LEMMA PaymentKeeps ==
    ASSUME IInv, NEW p \in Payments, Still(p), Grows, BookTypes'
    PROVE  PaymentKnown(p)'
<1>1. PaymentKnown(p)
  BY Known
<1>2. RowsKnown(p)' /\ (Credited(p)' <=> Credited(p)) /\ (Reversed(p)' <=> Reversed(p))
  BY <1>1 DEF PaymentKnown, RowsKnown, Still, Credited, Reversed, Rows
<1>3. gateway'[p] \in {"open", "captured"} => gateway[p] \in {"open", "captured"}
  BY Known DEF Still, Grows, BookTypes
<1> QED
  BY <1>1, <1>2, <1>3 DEF PaymentKnown, Still, Grows, Taken

LEMMA StillGrows ==
    ASSUME UNCHANGED <<rows, unreversed>>,
           \A p \in Payments :
              /\ gateway[p] \in {"captured", "declined"} => gateway'[p] = gateway[p]
              /\ refund[p] # "none" => refund'[p] # "none"
              /\ refund[p] \in {"completed", "failed"} => refund'[p] = refund[p],
           \A d \in Delivery : event[d].state = "PROCESSED" => event'[d].state = "PROCESSED"
    PROVE  Grows
BY DEF Grows, Credited, Reversed, Rows

\* No call is touched.
LEMMA OutsideStep ==
    ASSUME IInv, UNCHANGED <<pc, job, seen>>, Grows, BookTypes',
           \A p \in Payments : PaymentKnown(p)',
           \A d \in Delivery :
              \/ event'[d] = event[d]
              \/ event[d].state # "running" /\ EventKnown(d)'
    PROVE  IInv'
<1>1. TypeOK' /\ HandledOnce'
  <2>1. UNCHANGED <<pc, job, seen>>
    OBVIOUS
  <2>2. CallTypes' /\ HandledOnce'
    BY <2>1, Known DEF CallTypes, HandledOnce
  <2> QED
    BY <2>2 DEF TypeOK, BookTypes, CallTypes
<1>2. ASSUME NEW h \in Handlers PROVE JobKnown(h)'
  <2>1. Untouched(h)
    BY DEF Untouched, callVars
  <2>2. pc[h] # "idle" /\ job[h].delivery # None =>
           event'[job[h].delivery].state = event[job[h].delivery].state
    <3> SUFFICES ASSUME pc[h] # "idle", job[h].delivery # None
                 PROVE  event'[job[h].delivery].state = event[job[h].delivery].state
      OBVIOUS
    <3>1. job[h].delivery \in Delivery /\ event[job[h].delivery].state = "running"
      BY Known DEF JobKnown
    <3> QED
      BY <3>1
  <2> QED
    BY <2>1, <2>2, JobKeeps
<1>3. \A d \in Delivery : EventKnown(d)'
  BY EventKeeps
<1> QED
  BY <1>1, <1>2, <1>3 DEF IInv

\* A call h moves; the event it brings, if any, is in nobody else's hands.
LEMMA CallStep ==
    ASSUME IInv, NEW h \in Handlers, \A g \in Handlers \ {h} : Untouched(g),
           Grows, BookTypes', CallTypes', HandledOnce', JobKnown(h)',
           \A p \in Payments : PaymentKnown(p)',
           \A d \in Delivery :
              \/ event'[d] = event[d]
              \/ /\ EventKnown(d)'
                 /\ \A g \in Handlers \ {h} :
                       pc[g] # "idle" /\ job[g].delivery # None => job[g].delivery # d
    PROVE  IInv'
<1>1. TypeOK'
  BY DEF TypeOK, BookTypes, CallTypes
<1>2. ASSUME NEW g \in Handlers \ {h} PROVE JobKnown(g)'
  <2>1. pc[g] # "idle" /\ job[g].delivery # None => job[g].delivery \in Delivery
    BY Known
  <2> QED
    BY <2>1, JobKeeps
<1>3. \A d \in Delivery : EventKnown(d)'
  BY EventKeeps
<1> QED
  BY <1>1, <1>2, <1>3 DEF IInv

\* It goes on with the job it has.
LEMMA CallGoesOn ==
    ASSUME IInv, NEW h \in Handlers, NEW step \in {"credit", "debit", "save", "done", "error"},
           pc[h] # "idle", Goto(h, step), UNCHANGED <<job, event>>,
           seen' \in [Handlers -> Document \cup {None}],
           \A g \in Handlers \ {h} : seen'[g] = seen[g],
           Grows, BookTypes', JobKnown(h)', \A p \in Payments : PaymentKnown(p)'
    PROVE  IInv'
<1>1. CallTypes' /\ pc'[h] = step /\ \A g \in Handlers \ {h} : Untouched(g)
  BY Known DEF CallTypes, Goto, Untouched
<1>2. HandledOnce'
  BY <1>1, Known DEF HandledOnce, Untouched
<1> QED
  BY <1>1, <1>2, CallStep

-----------------------------------------------------------------------------
(* The customer and the gateway *)

LEMMA DocumentStep ==
    ASSUME IInv, NEW p \in Payments, Initiate(p) \/ Redirect(p) \/ InitiateFails(p)
    PROVE  IInv'
<1>1. PICK status \in Statuses \ Settled, gid \in {None, "session", "order", "gateway"} :
         pt' = [pt EXCEPT ![p] = [status |-> status, gid |-> gid]]
  <2>1. pt[p] \in Document /\ pt \in [Payments -> Document]
    BY Known DEF BookTypes
  <2>2. CASE Redirect(p)
    BY <2>2, PaymentAssumption DEF Redirect, Statuses, Settled
  <2>3. ASSUME NEW status \in {"INITIATED", "FAILED"}, SetStatus(p, status)
        PROVE  pt' = [pt EXCEPT ![p] = [status |-> status, gid |-> pt[p].gid]]
    <3>1. [pt[p] EXCEPT !.status = status] = [status |-> status, gid |-> pt[p].gid]
      BY <2>1 DEF Document
    <3>2. pt' = [pt EXCEPT ![p] = [pt[p] EXCEPT !.status = status]]
      BY <2>1, <2>3 DEF SetStatus
    <3> QED
      BY <3>1, <3>2
  <2>4. CASE Initiate(p) \/ InitiateFails(p)
    BY <2>1, <2>3, <2>4 DEF Initiate, InitiateFails, Document, Statuses, Settled
  <2> QED
    BY <2>2, <2>4
<1>2. UNCHANGED <<rows, unreversed, refund, event, notice, report>> /\ UNCHANGED <<pc, job, seen>>
  BY DEF Initiate, Redirect, InitiateFails, callVars
<1>3. \/ gateway' = gateway
      \/ pt[p].status = "INITIATED" /\ gateway' = [gateway EXCEPT ![p] = "open"]
  BY DEF Initiate, Redirect, InitiateFails, SetStatus, callVars
<1>4. BookTypes'
  <2>1. [status |-> status, gid |-> gid] \in Document
    BY DEF Document
  <2> QED
    BY <1>1, <1>2, <1>3, <2>1, Known DEF BookTypes
<1>5. pt[p].status \in Unsent /\ gateway[p] = "none" /\ gateway'[p] \in {"none", "open"}
  BY <1>3, Known DEF Initiate, Redirect, InitiateFails, PaymentKnown, Unsent, BookTypes
<1>6. \A q \in Payments \ {p} : pt'[q] = pt[q] /\ gateway'[q] = gateway[q]
  BY <1>1, <1>3, Known DEF BookTypes
<1>7. Grows
  BY <1>2, <1>5, <1>6, StillGrows
<1>8. ASSUME NEW q \in Payments PROVE PaymentKnown(q)'
  <2>1. CASE q # p
    BY <1>2, <1>4, <1>6, <1>7, <2>1, PaymentKeeps DEF Still
  <2>2. CASE q = p
    <3>1. pt'[p].status = status /\ status \notin Settled /\ status # "REFUNDED"
      BY <1>1, Known DEF BookTypes, Settled
    <3>2. RowsKnown(p)' /\ (Credited(p)' <=> Credited(p)) /\ (Reversed(p)' <=> Reversed(p))
      BY <1>2, Known DEF PaymentKnown, RowsKnown, Credited, Reversed, Rows
    <3>3. ~Credited(p)
      BY <1>5, Known DEF PaymentKnown
    <3>4. status \in Unsent => gateway'[p] = "none"
      <4>1. CASE Redirect(p)
        <5>1. pt'[p].status = "PENDING"
          BY <4>1, Known DEF Redirect, BookTypes
        <5> QED
          BY <3>1, <5>1 DEF Unsent
      <4>2. CASE Initiate(p) \/ InitiateFails(p)
        BY <1>5, <4>2 DEF Initiate, InitiateFails
      <4> QED
        BY <4>1, <4>2
    <3>5. gateway'[p] = "open" => status = "PENDING"
      <4>1. CASE Redirect(p)
        <5>1. pt'[p].status = "PENDING"
          BY <4>1, Known DEF Redirect, BookTypes
        <5> QED
          BY <3>1, <5>1
      <4>2. CASE Initiate(p) \/ InitiateFails(p)
        BY <1>5, <4>2 DEF Initiate, InitiateFails
      <4> QED
        BY <4>1, <4>2
    <3>6. notice'[p]["advice"] # "PROCESSED"
      BY <1>2, <1>5, <3>3, Known DEF PaymentKnown
    <3> QED
      BY <1>2, <1>5, <2>2, <3>1, <3>2, <3>3, <3>4, <3>5, <3>6, Known DEF PaymentKnown, Waiting
  <2> QED
    BY <2>1, <2>2
<1> QED
  BY <1>2, <1>4, <1>7, <1>8, OutsideStep

\* The verdict of the gateway, on the payment and on its refund, and its events.
LEMMA GatewayStep ==
    ASSUME IInv, NEW p \in Payments,
           \/ \E verdict \in {"captured", "declined"} : Decide(p, verdict)
           \/ \E verdict \in {"accepted", "completed", "failed"} : Refund(p, verdict)
    PROVE  IInv'
<1>1. UNCHANGED <<pt, rows, unreversed, event, notice, report>> /\ UNCHANGED <<pc, job, seen>>
  BY DEF Decide, Refund, callVars
<1>2. BookTypes'
  <2>1. /\ gateway' \in [Payments -> {"none", "open", "captured", "declined"}]
        /\ refund' \in [Payments -> {"none", "accepted", "completed", "failed"}]
    <3>1. CASE \E verdict \in {"captured", "declined"} : Decide(p, verdict)
      <4>1. PICK verdict \in {"captured", "declined"} :
               gateway' = [gateway EXCEPT ![p] = verdict] /\ refund' = refund
        BY <3>1 DEF Decide
      <4> QED
        BY <4>1, Known DEF BookTypes
    <3>2. CASE \E verdict \in {"accepted", "completed", "failed"} : Refund(p, verdict)
      <4>1. PICK verdict \in {"accepted", "completed", "failed"} :
               refund' = [refund EXCEPT ![p] = verdict] /\ gateway' = gateway
        BY <3>2 DEF Refund
      <4> QED
        BY <4>1, Known DEF BookTypes
    <3> QED
      BY <3>1, <3>2
  <2> QED
    BY <1>1, <2>1, Known DEF BookTypes
<1>3. Grows
  BY <1>1, StillGrows, Known DEF BookTypes, Decide, Refund
<1>4. ASSUME NEW q \in Payments PROVE Still(q)
  BY <1>1, Known DEF BookTypes, Decide, Refund, Still
<1>5. \A q \in Payments : PaymentKnown(q)'
  BY <1>2, <1>3, <1>4, PaymentKeeps
<1> QED
  BY <1>1, <1>2, <1>3, <1>5, OutsideStep

LEMMA EventStep ==
    ASSUME IInv, NEW d \in Delivery, Deliver(d) \/ DropDuplicate(d)
    PROVE  IInv'
<1>1. UNCHANGED <<pt, rows, unreversed, gateway, refund, notice, report>> /\ UNCHANGED <<pc, job, seen>>
  BY DEF Deliver, DropDuplicate, callVars
<1>2. PICK state \in {"queued", "DUPLICATE"} :
         /\ event' = [event EXCEPT ![d].state = state]
         /\ event[d].state \in {"none", "queued"}
         /\ state = "queued" => Happened(d[1], d[2][1]) /\ event[d].state = "none"
         /\ state = "DUPLICATE" => Duplicate(d) /\ event[d].state = "queued"
  BY DEF Deliver, DropDuplicate
<1>3. /\ BookTypes' /\ event'[d].state = state /\ event'[d].attempts = event[d].attempts
      /\ \A e \in Delivery \ {d} : event'[e] = event[e]
  BY <1>1, <1>2, Known DEF BookTypes
<1>4. Grows
  BY <1>1, <1>2, <1>3, StillGrows
<1>5. EventKnown(d)'
  <2>1. EventKnown(d)
    BY Known
  <2>2. Happened(d[1], d[2][1])'
    BY <1>2, <1>4, <2>1, HappenedKeeps, Known DEF EventKnown
  <2>3. state = "DUPLICATE" =>
           \E e \in Delivery : Same(e, d) /\ event'[e].state = "PROCESSED"
    BY <1>2, <1>3 DEF Duplicate
  <2> QED
    BY <1>2, <1>3, <2>1, <2>2, <2>3 DEF EventKnown
<1>6. \A q \in Payments : PaymentKnown(q)'
  BY <1>1, <1>3, <1>4, PaymentKeeps DEF Still
<1> QED
  BY <1>1, <1>2, <1>3, <1>4, <1>5, <1>6, OutsideStep

-----------------------------------------------------------------------------
(* A call starts *)

LEMMA StartStep ==
    ASSUME IInv, NEW h \in Handlers, NEW j \in Job, NEW mark \in Marks, NEW p \in Payments,
           NEW delivery \in Delivery \cup {None}, Start(h, j),
           mark = j.mark, p = j.payment, delivery = j.delivery,
           UNCHANGED <<pt, rows, unreversed, gateway, refund, report>>,
           notice' \in [Payments -> [{"return", "advice"} -> {"none", "stored", "PROCESSED"}]],
           \A q \in Payments : notice'[q]["advice"] = "PROCESSED" => notice[q]["advice"] = "PROCESSED",
           mark = "SUCCESS" => gateway[p] = "captured",
           mark = "FAILED" => gateway[p] = "declined",
           mark = "REFUNDED" => refund[p] = "completed",
           j.notice # "none" => mark \in {"SUCCESS", "FAILED"},
           \/ delivery = None /\ UNCHANGED event
           \/ /\ delivery \in Delivery /\ event[delivery].state = "queued"
              /\ event' = [event EXCEPT ![delivery].state = "running"]
              /\ mark = MarkFor(delivery[2][1]) /\ p = delivery[1]
    PROVE  IInv'
<1>2. j \in Job /\ j.mark = mark /\ j.payment = p /\ j.delivery = delivery
  OBVIOUS
<1>3. /\ CallTypes' /\ pc[h] = "idle" /\ pc'[h] = "read" /\ job'[h] = j
      /\ \A g \in Handlers \ {h} : Untouched(g)
  BY <1>2, Known DEF Start, Goto, CallTypes, Untouched
<1>1. /\ event \in [Delivery -> [state : {"none", "queued", "running", "PROCESSED",
                                        "DUPLICATE", "dead"},
                               attempts : 0 .. MaxAttempts]]
      /\ event' \in [Delivery -> [state : {"none", "queued", "running", "PROCESSED",
                                        "DUPLICATE", "dead"},
                               attempts : 0 .. MaxAttempts]]
      /\ \/ delivery = None /\ event' = event
         \/ /\ delivery \in Delivery /\ event'[delivery].state = "running"
            /\ event'[delivery].attempts = event[delivery].attempts
      /\ \A d \in Delivery : d # delivery => event'[d] = event[d]
  <2>1. event \in [Delivery -> [state : {"none", "queued", "running", "PROCESSED",
                                        "DUPLICATE", "dead"},
                               attempts : 0 .. MaxAttempts]]
    BY Known DEF BookTypes
  <2>2. CASE delivery \in Delivery /\ event' = [event EXCEPT ![delivery].state = "running"]
    BY <2>1, <2>2
  <2>3. CASE delivery = None /\ UNCHANGED event
    BY <2>1, <2>3
  <2> QED
    BY <2>2, <2>3
<1>4. BookTypes'
  BY <1>1, Known DEF BookTypes
<1>5. \A d \in Delivery : event[d].state = "PROCESSED" => event'[d].state = "PROCESSED"
  BY Known DEF BookTypes
<1>6. Grows
  BY <1>5, StillGrows
<1>7. JobKnown(h)'
  BY <1>1, <1>2, <1>3 DEF JobKnown
<1>8. \A g \in Handlers \ {h} : pc[g] # "idle" /\ job[g].delivery # None => job[g].delivery # delivery
  BY Known DEF JobKnown
<1>9. HandledOnce'
  BY <1>2, <1>3, <1>8, Known DEF HandledOnce, Untouched
<1>10. \A q \in Payments : PaymentKnown(q)'
  BY <1>4, <1>6, PaymentKeeps DEF Still
<1>11. ASSUME NEW d \in Delivery
       PROVE  event'[d] = event[d] \/ (d = delivery /\ EventKnown(d)')
  <2>1. CASE event'[d] # event[d]
    <3>0. /\ delivery \in Delivery /\ event[delivery].state = "queued"
          /\ event' = [event EXCEPT ![delivery].state = "running"]
      BY <2>1
    <3>1. /\ d = delivery /\ event[d].state = "queued" /\ event'[d].state = "running"
          /\ event'[d].attempts = event[d].attempts
      BY <1>1, <2>1, <3>0
    <3>2. EventKnown(d) /\ Happened(d[1], d[2][1])'
      BY <1>6, <3>1, HappenedKeeps, Known DEF EventKnown
    <3> QED
      BY <3>1, <3>2 DEF EventKnown
  <2> QED
    BY <2>1
<1> QED
  BY <1>3, <1>4, <1>6, <1>7, <1>8, <1>9, <1>10, <1>11, CallStep

LEMMA WebhookJobStep ==
    ASSUME IInv, NEW h \in Handlers, NEW d \in Delivery, WebhookJob(h, d)
    PROVE  IInv'
<1>1. /\ d[1] \in Payments /\ d[2][1] \in EventTypes /\ event[d].state = "queued"
      /\ Happened(d[1], d[2][1])
  BY Known DEF WebhookJob, EventKnown
<1>2. PICK p \in Payments, mark \in {MarkFor(d[2][1])} : p = d[1] /\ mark = MarkFor(d[2][1])
  BY <1>1
<1>3. /\ mark \in Marks
      /\ mark = "SUCCESS" => gateway[p] = "captured"
      /\ mark = "FAILED" => gateway[p] = "declined"
      /\ mark = "REFUNDED" => refund[p] = "completed"
  BY <1>1, <1>2, PaymentAssumption DEF MarkFor, Marks, Happened
<1>4. PICK j : j = [Call(mark, p, "order") EXCEPT !.delivery = d]
  OBVIOUS
<1>5. j \in Job /\ j.mark = mark /\ j.payment = p /\ j.delivery = d /\ j.notice = "none"
  BY <1>3, <1>4 DEF Call, Job
<1>6. Start(h, j)
  BY <1>2, <1>4 DEF WebhookJob
<1>7. notice' \in [Payments -> [{"return", "advice"} -> {"none", "stored", "PROCESSED"}]]
  BY Known DEF WebhookJob, BookTypes
<1> QED
  BY ZenonT(40), <1>1, <1>2, <1>3, <1>5, <1>6, <1>7, StartStep DEF WebhookJob

\* A call that brings no webhook.
LEMMA AskedStart ==
    ASSUME IInv, NEW h \in Handlers, NEW p \in Payments,
           NEW mark \in {"SUCCESS", "FAILED", "TIMEOUT"}, NEW j \in Job,
           j.mark = mark, j.payment = p, j.delivery = None, Start(h, j),
           j.notice # "none" => mark \in {"SUCCESS", "FAILED"},
           mark = "SUCCESS" => gateway[p] = "captured",
           mark = "FAILED" => gateway[p] = "declined",
           UNCHANGED <<pt, rows, unreversed, gateway, refund, event, report>>,
           notice' \in [Payments -> [{"return", "advice"} -> {"none", "stored", "PROCESSED"}]],
           \A q \in Payments : notice'[q]["advice"] = "PROCESSED" => notice[q]["advice"] = "PROCESSED"
    PROVE  IInv'
<1>1. mark \in Marks /\ mark # "REFUNDED"
  BY DEF Marks
<1> QED
  BY <1>1, StartStep

\* No call is made: the settlement report, or the event of a page, is all that changes.
LEMMA NotedStep ==
    ASSUME IInv, UNCHANGED <<pt, rows, unreversed, gateway, refund, event>>, UNCHANGED <<pc, job, seen>>,
           report' \in [Payments -> {"none", "matched", "resolved", "mismatch", "no PT"}],
           notice' \in [Payments -> [{"return", "advice"} -> {"none", "stored", "PROCESSED"}]],
           \A q \in Payments : notice'[q]["advice"] = "PROCESSED" => notice[q]["advice"] = "PROCESSED"
    PROVE  IInv'
<1>1. BookTypes'
  BY Known DEF BookTypes
<1>2. Grows
  BY StillGrows
<1>3. \A q \in Payments : PaymentKnown(q)'
  BY <1>1, <1>2, PaymentKeeps DEF Still
<1> QED
  BY <1>1, <1>2, <1>3, OutsideStep

\* What a page or an advice starts.
LEMMA ToldStep ==
    ASSUME IInv, NEW h \in Handlers, NEW p \in Payments, NEW from \in {"none", "return", "advice"},
           Told(h, p, from), UNCHANGED <<pt, rows, unreversed, gateway, refund, event, report>>,
           notice' \in [Payments -> [{"return", "advice"} -> {"none", "stored", "PROCESSED"}]],
           \A q \in Payments : notice'[q]["advice"] = "PROCESSED" => notice[q]["advice"] = "PROCESSED"
    PROVE  IInv'
<1>1. PICK mark \in {"SUCCESS", "FAILED"}, gid \in {None, "order", "gateway"} :
         /\ Start(h, [Call(mark, p, gid) EXCEPT !.notice = from])
         /\ mark = "SUCCESS" => gateway[p] = "captured"
         /\ mark = "FAILED" => gateway[p] = "declined"
  BY DEF Told
<1>2. mark \in Marks /\ mark \in {"SUCCESS", "FAILED", "TIMEOUT"}
  BY DEF Marks
<1>3. PICK j : j = [Call(mark, p, gid) EXCEPT !.notice = from]
  OBVIOUS
<1>4. j \in Job /\ j.mark = mark /\ j.payment = p /\ j.delivery = None
  BY <1>2, <1>3 DEF Call, Job
<1> QED
  BY <1>1, <1>2, <1>3, <1>4, AskedStart

LEMMA PageStep ==
    ASSUME IInv, NEW h \in Handlers, NEW p \in Payments,
           Inline(h, p) \/ ReturnPage(h, p) \/ Advice(h, p)
    PROVE  IInv'
<1>1. ASSUME NEW n \in {"return", "advice"}, NEW state \in {"none", "stored", "PROCESSED"},
             SetNotice(p, n, state)
      PROVE  /\ notice' \in [Payments -> [{"return", "advice"} -> {"none", "stored", "PROCESSED"}]]
             /\ n = "return" \/ state # "PROCESSED" =>
                  \A q \in Payments : notice'[q]["advice"] = "PROCESSED" => notice[q]["advice"] = "PROCESSED"
  <2>1. notice \in [Payments -> [{"return", "advice"} -> {"none", "stored", "PROCESSED"}]]
    BY Known DEF BookTypes
  <2>2. PICK old \in [{"return", "advice"} -> {"none", "stored", "PROCESSED"}] : old = notice[p]
    BY <2>1
  <2>3. notice' = [notice EXCEPT ![p] = [old EXCEPT ![n] = state]]
    BY <1>1, <2>2 DEF SetNotice
  <2>4. [old EXCEPT ![n] = state] \in [{"return", "advice"} -> {"none", "stored", "PROCESSED"}]
    OBVIOUS
  <2>5. \A q \in Payments : notice'[q] = IF q = p THEN [old EXCEPT ![n] = state] ELSE notice[q]
    BY <2>1, <2>3
  <2> QED
    BY <2>1, <2>2, <2>3, <2>4, <2>5
<1>2. notice \in [Payments -> [{"return", "advice"} -> {"none", "stored", "PROCESSED"}]]
      /\ report \in [Payments -> {"none", "matched", "resolved", "mismatch", "no PT"}]
  BY Known DEF BookTypes
<1>3. CASE Inline(h, p)
  BY <1>2, <1>3, ToldStep DEF Inline
<1>4. CASE Advice(h, p)
  BY <1>1, <1>4, ToldStep DEF Advice
<1>5. CASE ReturnPage(h, p)
  <2>1. CASE Told(h, p, "return") /\ SetNotice(p, "return", "PROCESSED")
    BY <1>1, <1>5, <2>1, ToldStep DEF ReturnPage
  <2>2. CASE UNCHANGED callVars /\ \E state \in {"stored", "PROCESSED"} : SetNotice(p, "return", state)
    <3>1. UNCHANGED <<pc, job, seen>>
      BY <2>2 DEF callVars
    <3>2. PICK state \in {"stored", "PROCESSED"} : SetNotice(p, "return", state)
      BY <2>2
    <3> QED
      BY <1>1, <1>2, <1>5, <3>1, <3>2, NotedStep DEF ReturnPage
  <2> QED
    BY <1>5, <2>1, <2>2 DEF ReturnPage
<1> QED
  BY <1>3, <1>4, <1>5

\* Sweeper and settlement ask the gateway first.
LEMMA AskedStep ==
    ASSUME IInv, NEW h \in Handlers, NEW p \in Payments, Sweep(h, p) \/ Reconcile(h, p)
    PROVE  IInv'
<1>1. notice' \in [Payments -> [{"return", "advice"} -> {"none", "stored", "PROCESSED"}]]
      /\ UNCHANGED notice
  BY Known DEF BookTypes, Sweep, Reconcile
<1>2. CASE Sweep(h, p)
  <2>1. PICK mark \in {"SUCCESS", "FAILED", "TIMEOUT"}, gid \in {None, "order", "gateway"} :
           /\ Start(h, Call(mark, p, gid))
           /\ mark = "SUCCESS" => gateway[p] = "captured"
           /\ mark = "FAILED" => gateway[p] = "declined"
    BY <1>2 DEF Sweep, PollAnswer
  <2>2. mark \in Marks
    BY DEF Marks
  <2>3. PICK j : j = Call(mark, p, gid)
    OBVIOUS
  <2>4. j \in Job /\ j.mark = mark /\ j.payment = p /\ j.delivery = None /\ j.notice = "none"
    BY <2>2, <2>3 DEF Call, Job
  <2> QED
    BY <1>1, <1>2, <2>1, <2>3, <2>4, AskedStart DEF Sweep
<1>3. CASE Reconcile(h, p)
  <2>1. PICK verdict : verdict = SettlementVerdict(p)
    OBVIOUS
  <2>2. /\ verdict \in {"no PT", "recover", "mismatch", "matched"}
        /\ verdict = "recover" => gateway[p] = "captured"
    BY <2>1 DEF SettlementVerdict
  <2>3. CASE verdict = "recover"
    <3>1. PICK mark \in {"SUCCESS", "FAILED", "TIMEOUT"} : mark = "SUCCESS" /\ mark \in Marks
      BY DEF Marks
    <3>2. PICK j : j = [Call(mark, p, "order") EXCEPT !.recon = TRUE]
      OBVIOUS
    <3>4. j \in Job /\ j.mark = mark /\ j.payment = p /\ j.delivery = None /\ j.notice = "none"
      BY <3>1, <3>2 DEF Call, Job
    <3>3. Start(h, j) /\ UNCHANGED report
      BY <1>3, <2>1, <2>3, <3>1, <3>2 DEF Reconcile
    <3> QED
      BY <1>1, <1>3, <2>2, <2>3, <3>1, <3>3, <3>4, AskedStart DEF Reconcile
  <2>4. CASE verdict # "recover"
    <3>1. report' = [report EXCEPT ![p] = verdict]
      BY <1>3, <2>1, <2>4 DEF Reconcile
    <3>2. report' \in [Payments -> {"none", "matched", "resolved", "mismatch", "no PT"}]
      BY <2>2, <2>4, <3>1, Known DEF BookTypes
    <3> QED
      BY <1>1, <1>3, <2>1, <2>4, <3>2, NotedStep DEF Reconcile, callVars
  <2> QED
    BY <2>3, <2>4
<1> QED
  BY <1>2, <1>3

-----------------------------------------------------------------------------
(* The markX methods *)

\* What the checks of a call let through.
LEMMA ReadFacts ==
    ASSUME NEW mark \in Marks, NEW status \in Statuses
    PROVE  /\ mark = "SUCCESS" /\ status \in NothingToDo(mark) => status = "SUCCESS"
           /\ mark = "REFUNDED" /\ status \in NothingToDo(mark) => status = "REFUNDED"
           /\ mark = "REFUNDED" /\ Allowed(mark, status) => status = "REFUND_INITIATED"
           /\ mark = "REFUND_INITIATED" /\ Allowed(mark, status) => status = "SUCCESS"
           /\ mark = "REFUND_FAILED" /\ status \notin NothingToDo(mark) => status = "REFUND_INITIATED"
           /\ Target(mark) \in Statuses \ Unsent
           /\ Target(mark) \in Settled => Target(mark) = mark
<1>1. /\ NothingToDo("SUCCESS") = {"SUCCESS"} /\ NothingToDo("REFUNDED") = {"REFUNDED"}
      /\ NothingToDo("REFUND_FAILED") = Statuses \ {"REFUND_INITIATED"}
  BY DEF NothingToDo
<1>2. /\ Allowed("REFUNDED", status) => status = "REFUND_INITIATED"
      /\ Allowed("REFUND_INITIATED", status) => status = "SUCCESS"
  BY DEF Allowed, Target, ValidTransitions
<1>3. /\ Target(mark) \in Statuses \ Unsent
      /\ Target(mark) \in Settled => Target(mark) = mark
  BY DEF Target, Marks, Statuses, Unsent, Settled
<1> QED
  BY <1>1, <1>2, <1>3

LEMMA ReadStep ==
    ASSUME IInv, NEW h \in Handlers, Read(h)
    PROVE  IInv'
<1>1. PICK j \in Job, p \in Payments, mark \in Marks, status \in Statuses :
         /\ j = job[h] /\ p = j.payment /\ mark = j.mark /\ status = pt[p].status
  BY Known DEF Read
<1>2. PICK step \in {"credit", "debit", "save", "done", "error"} :
         /\ Goto(h, step)
         /\ step = "done" => status \in NothingToDo(mark)
         /\ step \in {"credit", "debit", "save"} =>
              Allowed(mark, status) /\ status \notin NothingToDo(mark)
         /\ step = "credit" => mark = "SUCCESS"
         /\ step = "debit" => mark = "REFUNDED"
         /\ step = "save" => mark \notin {"SUCCESS", "REFUNDED"}
  <2>1. CASE status \in NothingToDo(mark)
    BY <1>1, <2>1 DEF Read
  <2>2. CASE status \notin NothingToDo(mark) /\ ~Allowed(mark, status)
    BY <1>1, <2>2 DEF Read
  <2>3. CASE status \notin NothingToDo(mark) /\ Allowed(mark, status)
    BY <1>1, <2>3 DEF Read
  <2> QED
    BY <2>1, <2>2, <2>3
<1>3. /\ pc[h] = "read" /\ seen' = [seen EXCEPT ![h] = pt[p]] /\ pt[p] \in Document
      /\ UNCHANGED <<pt, rows, unreversed, gateway, refund, event, notice, report, job>>
  BY <1>1, Known DEF Read
<1>4. /\ seen' \in [Handlers -> Document \cup {None}] /\ seen'[h] = pt[p]
      /\ \A g \in Handlers \ {h} : seen'[g] = seen[g]
  BY <1>3, Known DEF CallTypes
<1>5. Grows /\ BookTypes'
  BY <1>3, StillGrows, Known DEF BookTypes
<1>6. \A q \in Payments : PaymentKnown(q)'
  BY <1>3, <1>5, PaymentKeeps DEF Still
<1>7. JobKnown(h)'
  <2>1. pc'[h] = step /\ job'[h] = j
    BY <1>1, <1>2, <1>3, Known DEF Goto, CallTypes
  <2>2. JobKnown(h) /\ PaymentKnown(p)
    BY Known
  <2>3. /\ step = "done" /\ mark = "SUCCESS" => Credited(p)
        /\ step \in {"debit", "save"} /\ mark = "REFUNDED" => Credited(p)
        /\ step = "save" /\ mark \in {"REFUND_INITIATED", "REFUND_FAILED"} => Credited(p)
        /\ step = "done" /\ mark = "REFUNDED" => Taken(p)
    BY <1>1, <1>2, <2>2, ReadFacts DEF PaymentKnown, Settled
  <2>4. (Credited(p)' <=> Credited(p)) /\ (Taken(p)' <=> Taken(p))
    BY <1>3 DEF Credited, Taken, Reversed, Rows
  <2> QED
    BY <1>1, <1>2, <1>3, <1>4, <2>1, <2>2, <2>3, <2>4 DEF JobKnown
<1> QED
  BY <1>2, <1>3, <1>4, <1>5, <1>6, <1>7, CallGoesOn

\* A wallet step of the payment p; the others stay as they are.
LEMMA PostStep ==
    ASSUME IInv, NEW h \in Handlers, NEW p \in Payments, NEW step \in {"save", "error"},
           pc[h] # "idle", p = job[h].payment, Goto(h, step),
           UNCHANGED <<pt, gateway, refund, event, notice, report, job, seen>>,
           rows' \in [Payments -> Seq(Row)], unreversed' \subseteq Payments,
           \A q \in Payments \ {p} : rows'[q] = rows[q] /\ (q \in unreversed => q \in unreversed'),
           RowsKnown(p)', p \in unreversed => p \in unreversed',
           Credited(p) => Credited(p)', Reversed(p) => Reversed(p)',
           Credited(p)' => gateway[p] = "captured", Reversed(p)' => refund[p] = "completed",
           step = "save" =>
              /\ seen[h] \in Document
              /\ job[h].mark \in {"SUCCESS", "REFUNDED"} /\ Credited(p)'
              /\ job[h].mark = "REFUNDED" => Reversed(p)' \/ p \in unreversed'
    PROVE  IInv'
<1>1. ASSUME NEW q \in Payments \ {p}
      PROVE  (Credited(q)' <=> Credited(q)) /\ (Reversed(q)' <=> Reversed(q))
  BY DEF Credited, Reversed, Rows
<1>2. Grows
  BY <1>1 DEF Grows
<1>3. BookTypes'
  BY Known DEF BookTypes
<1>4. ASSUME NEW q \in Payments PROVE PaymentKnown(q)'
  <2>1. CASE q # p
    BY <1>2, <1>3, <2>1, PaymentKeeps DEF Still
  <2>2. CASE q = p
    <3>1. PaymentKnown(p)
      BY Known
    <3> QED
      BY <2>2, <3>1 DEF PaymentKnown, Taken
  <2> QED
    BY <2>1, <2>2
<1>5. JobKnown(h)'
  <2>1. pc'[h] = step
    BY Known DEF Goto, CallTypes
  <2>2. JobKnown(h) /\ {"REFUND_INITIATED", "REFUND_FAILED"} \cap {"SUCCESS", "REFUNDED"} = {}
    BY Known
  <2>3. PICK j \in Job : j = job[h]
    BY Known
  <2> QED
    BY <2>1, <2>2, <2>3 DEF JobKnown, Taken
<1>6. seen' \in [Handlers -> Document \cup {None}] /\ \A g \in Handlers \ {h} : seen'[g] = seen[g]
  BY Known DEF CallTypes
<1> QED
  BY <1>2, <1>3, <1>4, <1>5, <1>6, CallGoesOn

\* walletService.credit or the waterfall, and their refusal.
LEMMA CreditStep ==
    ASSUME IInv, NEW h \in Handlers, Credit(h) \/ CreditFails(h)
    PROVE  IInv'
<1>1. PICK j \in Job, p \in Payments : j = job[h] /\ p = j.payment /\ pc[h] = "credit"
  BY Known DEF Credit, CreditFails
<1>2. /\ j.mark = "SUCCESS" /\ gateway[p] = "captured" /\ seen[h] \in Document
      /\ PaymentKnown(p) /\ rows \in [Payments -> Seq(Row)] /\ unreversed \subseteq Payments
  BY <1>1, Known DEF JobKnown, BookTypes
<1>3. CASE Credit(h)
  <2>1. PICK row : row = [kind |-> "TOPUP", ref |-> CreditRef(j)]
    OBVIOUS
  <2>2. CreditRef(j) \in {"pt", "order", "gateway"} /\ (~WaterfallLive => CreditRef(j) = "pt")
    BY DEF CreditRef, Job
  <2>3. row \in Row /\ row.kind = "TOPUP" /\ row.ref # "pt-refund"
        /\ (~WaterfallLive => row.ref \in {"pt", "pt-refund"})
    BY <2>1, <2>2 DEF Row
  <2>4. rows' = [rows EXCEPT ![p] = Posted(p, row)]
    BY <1>1, <1>3, <2>1 DEF Credit
  <2>5. /\ rows' \in [Payments -> Seq(Row)] /\ RowsKnown(p)'
        /\ Credited(p)' /\ (Reversed(p)' <=> Reversed(p))
        /\ \A q \in Payments \ {p} : rows'[q] = rows[q]
    BY <1>2, <2>3, <2>4, PostedFacts DEF PaymentKnown
  <2> QED
    BY <1>1, <1>2, <1>3, <2>5, PostStep DEF Credit, PaymentKnown
<1>4. CASE CreditFails(h)
  <2>1. RowsKnown(p)' /\ (Credited(p)' <=> Credited(p)) /\ (Reversed(p)' <=> Reversed(p))
    BY <1>2, <1>4 DEF CreditFails, PaymentKnown, RowsKnown, Credited, Reversed, Rows
  <2> QED
    BY <1>1, <1>2, <1>4, <2>1, PostStep DEF CreditFails, PaymentKnown
<1> QED
  BY <1>3, <1>4

\* The reversal of a refund, and its refusal.
LEMMA DebitStep ==
    ASSUME IInv, NEW h \in Handlers, Debit(h) \/ DebitFails(h)
    PROVE  IInv'
<1>1. PICK j \in Job, p \in Payments : j = job[h] /\ p = j.payment /\ pc[h] = "debit"
  BY Known DEF Debit, DebitFails
<1>2. /\ j.mark = "REFUNDED" /\ refund[p] = "completed" /\ seen[h] \in Document /\ Credited(p)
      /\ PaymentKnown(p) /\ rows \in [Payments -> Seq(Row)] /\ unreversed \subseteq Payments
  BY <1>1, Known DEF JobKnown, BookTypes
<1>3. CASE Debit(h)
  <2>1. PICK row : row = [kind |-> "REVERSAL", ref |-> "pt-refund"]
    OBVIOUS
  <2>2. row \in Row /\ row.kind = "REVERSAL" /\ row.ref = "pt-refund"
    BY <2>1 DEF Row
  <2>3. rows' = [rows EXCEPT ![p] = Posted(p, row)]
    BY <1>1, <1>3, <2>1 DEF Debit
  <2>4. /\ rows' \in [Payments -> Seq(Row)] /\ RowsKnown(p)'
        /\ Credited(p)' /\ Reversed(p)'
        /\ \A q \in Payments \ {p} : rows'[q] = rows[q]
    BY <1>2, <2>2, <2>3, PostedFacts DEF PaymentKnown
  <2> QED
    BY <1>1, <1>2, <1>3, <2>4, PostStep DEF Debit, PaymentKnown
<1>4. CASE DebitFails(h)
  <2>1. /\ RowsKnown(p)' /\ (Credited(p)' <=> Credited(p)) /\ (Reversed(p)' <=> Reversed(p))
    BY <1>2, <1>4 DEF DebitFails, PaymentKnown, RowsKnown, Credited, Reversed, Rows
  <2>2. unreversed' = unreversed \cup {p}
    BY <1>1, <1>4 DEF DebitFails
  <2> QED
    BY <1>1, <1>2, <1>4, <2>1, <2>2, PostStep DEF DebitFails, PaymentKnown
<1> QED
  BY <1>3, <1>4

\* The save writes the status only if the call changed the one it read, over
\* whatever is stored by now.
LEMMA SaveStep ==
    ASSUME IInv, NEW h \in Handlers, Save(h)
    PROVE  IInv'
<1>1. PICK j \in Job, p \in Payments, mark \in Marks :
         j = job[h] /\ p = j.payment /\ mark = j.mark /\ pc[h] = "save"
  BY Known DEF Save
<1>2. /\ JobKnown(h) /\ PaymentKnown(p) /\ seen[h] \in Document /\ pt[p] \in Document
  BY <1>1, Known DEF JobKnown
<1>3. PICK status \in {pt[p].status, Target(mark)}, gid \in {None, "session", "order", "gateway"} :
         pt' = [pt EXCEPT ![p] = [status |-> status, gid |-> gid]]
  <2>1. j.gid \in {None, "session", "order", "gateway"}
        /\ seen[h].gid \in {None, "session", "order", "gateway"}
        /\ pt[p].gid \in {None, "session", "order", "gateway"}
    BY <1>2 DEF Job, Document
  <2>2. PICK new : new = IF j.mark = "SUCCESS" /\ j.gid # None THEN j.gid ELSE seen[h].gid
    OBVIOUS
  <2>3. pt' = [pt EXCEPT ![p] = [status |-> Dirty(seen[h].status, Target(mark), pt[p].status),
                                 gid |-> Dirty(seen[h].gid, new, pt[p].gid)]]
    BY <1>1, <2>2, Known DEF Save, BookTypes
  <2>4. Dirty(seen[h].status, Target(mark), pt[p].status) \in {pt[p].status, Target(mark)}
        /\ Dirty(seen[h].gid, new, pt[p].gid) \in {None, "session", "order", "gateway"}
    BY <2>1, <2>2 DEF Dirty
  <2> QED
    BY <2>3, <2>4
<1>4. /\ Goto(h, "done") /\ UNCHANGED <<rows, unreversed, gateway, refund, event, notice, report, job, seen>>
  BY DEF Save
<1>5. /\ pt' \in [Payments -> Document] /\ pt'[p].status = status
      /\ \A q \in Payments \ {p} : pt'[q] = pt[q]
  <2>1. pt[p].status \in Statuses /\ Target(mark) \in Statuses
    BY <1>2, ReadFacts DEF Document
  <2>2. [status |-> status, gid |-> gid] \in Document
    BY <1>3, <2>1 DEF Document
  <2> QED
    BY <1>3, <2>2, Known DEF BookTypes
<1>6. BookTypes' /\ Grows
  BY <1>4, <1>5, StillGrows, Known DEF BookTypes
<1>7. ASSUME NEW q \in Payments PROVE PaymentKnown(q)'
  <2>1. CASE q # p
    BY <1>4, <1>5, <1>6, <2>1, PaymentKeeps DEF Still
  <2>2. CASE q = p /\ status = pt[p].status
    BY <1>4, <1>5, <1>6, <2>2, PaymentKeeps DEF Still
  <2>3. CASE q = p /\ status = Target(mark)
    <3>1. /\ Target(mark) \notin Unsent
          /\ Target(mark) \in Settled => Target(mark) = mark
      BY ReadFacts, <1>2 DEF Document
    <3>2. Target(mark) \in Settled => Credited(p)
      BY <1>1, <1>2, <3>1 DEF JobKnown, Settled
    <3>5. Credited(p) \/ gateway[p] = "declined" \/ Target(mark) \in Waiting
      BY <1>1, <1>2 DEF JobKnown, Marks, Target, Waiting
    <3>3. Target(mark) = "REFUNDED" => Taken(p)
      BY <1>1, <1>2, <3>1 DEF JobKnown, Settled
    <3>4. RowsKnown(p)' /\ (Credited(p)' <=> Credited(p)) /\ (Reversed(p)' <=> Reversed(p))
      BY <1>2, <1>4 DEF PaymentKnown, RowsKnown, Credited, Reversed, Rows
    <3> QED
      BY <1>2, <1>4, <1>5, <2>3, <3>1, <3>2, <3>3, <3>4, <3>5 DEF PaymentKnown, Taken
  <2> QED
    BY <2>1, <2>2, <2>3
<1>8. JobKnown(h)'
  <2>1. pc'[h] = "done"
    BY <1>4, Known DEF Goto, CallTypes
  <2>2. (Credited(p)' <=> Credited(p)) /\ (Taken(p)' <=> Taken(p))
    BY <1>4 DEF Credited, Taken, Reversed, Rows
  <2> QED
    BY <1>1, <1>2, <1>4, <2>1, <2>2 DEF JobKnown
<1>9. seen' \in [Handlers -> Document \cup {None}] /\ \A g \in Handlers \ {h} : seen'[g] = seen[g]
  BY <1>4, Known DEF CallTypes
<1> QED
  BY <1>1, <1>4, <1>6, <1>7, <1>8, <1>9, CallGoesOn

-----------------------------------------------------------------------------
(* A call ends *)

LEMMA EndStep ==
    ASSUME IInv, NEW h \in Handlers, Return(h) \/ Throw(h) \/ Crash(h)
    PROVE  IInv'
<1>1. PICK j \in Job, p \in Payments, d \in Delivery \cup {None}, mark \in Marks,
           n \in {"none", "return", "advice"} :
         /\ j = job[h] /\ p = j.payment /\ d = j.delivery /\ mark = j.mark /\ n = j.notice
         /\ pc[h] # "idle"
  BY Known DEF Return, Throw, Crash
<1>0. n = "none" \/ mark = "SUCCESS" \/ mark = "FAILED"
  BY <1>1, Known DEF JobKnown
<1>2. /\ UNCHANGED <<pt, rows, unreversed, gateway, refund>>
      /\ Goto(h, "idle") /\ job' = [job EXCEPT ![h] = None] /\ seen' = [seen EXCEPT ![h] = None]
  BY DEF Return, Throw, Crash
<1>3. CallTypes' /\ pc'[h] = "idle" /\ \A g \in Handlers \ {h} : Untouched(g)
  BY <1>2, Known DEF CallTypes, Goto, Untouched
<1>4. HandledOnce' /\ JobKnown(h)'
  BY <1>3, Known DEF HandledOnce, JobKnown, Untouched
<1>5. report' \in [Payments -> {"none", "matched", "resolved", "mismatch", "no PT"}]
  BY <1>1, Known DEF Return, Throw, Crash, BookTypes
<1>9. notice' \in [Payments -> [{"return", "advice"} -> {"none", "stored", "PROCESSED"}]]
      /\ \A q \in Payments :
            \/ notice'[q]["advice"] = "PROCESSED" => notice[q]["advice"] = "PROCESSED"
            \/ q = p /\ (Credited(p) \/ gateway[p] = "declined")
  <2>1. notice \in [Payments -> [{"return", "advice"} -> {"none", "stored", "PROCESSED"}]]
    BY Known DEF BookTypes
  <2>2. CASE UNCHANGED notice
    BY <2>1, <2>2
  <2>3. CASE n # "none" /\ ~UNCHANGED notice
    <3>1. PICK old \in [{"return", "advice"} -> {"none", "stored", "PROCESSED"}] : old = notice[p]
      BY <2>1
    <3>2. PICK state \in {"none", "stored", "PROCESSED"} :
             /\ notice' = [notice EXCEPT ![p][n] = state]
             /\ state = "PROCESSED" => pc[h] = "done" \/ old[n] = "PROCESSED"
      BY <1>1, <2>3, <3>1 DEF Return, Throw, Crash, Noted, SetNotice
    <3>3. notice' = [notice EXCEPT ![p] = [old EXCEPT ![n] = state]]
      BY <3>1, <3>2
    <3>4. [old EXCEPT ![n] = state] \in [{"return", "advice"} -> {"none", "stored", "PROCESSED"}]
      BY <2>3
    <3>5. \A q \in Payments : notice'[q] = IF q = p THEN [old EXCEPT ![n] = state] ELSE notice[q]
      BY <2>1, <3>3
    <3>6. pc[h] = "done" => Credited(p) \/ gateway[p] = "declined"
      BY <1>0, <1>1, <2>3, Known DEF JobKnown
    <3> QED
      BY <2>1, <2>3, <3>1, <3>2, <3>3, <3>4, <3>5, <3>6
  <2>4. n = "none" => UNCHANGED notice
    BY <1>1 DEF Return, Throw, Crash, Noted
  <2> QED
    BY <2>2, <2>3, <2>4
<1>10. ASSUME BookTypes', Grows, NEW q \in Payments PROVE PaymentKnown(q)'
  <2>1. CASE Still(q)
    BY <1>10, <2>1, PaymentKeeps
  <2>2. CASE ~Still(q)
    <3>1. q = p /\ (Credited(p) \/ gateway[p] = "declined")
      BY <1>2, <1>9, <2>2 DEF Still
    <3>2. PaymentKnown(p) /\ rows'[p] = rows[p]
      BY <1>2, Known
    <3>3. RowsKnown(p)' /\ (Credited(p)' <=> Credited(p)) /\ (Reversed(p)' <=> Reversed(p))
      BY <3>2 DEF PaymentKnown, RowsKnown, Credited, Reversed, Rows
    <3> QED
      BY <1>2, <3>1, <3>2, <3>3 DEF PaymentKnown, Taken
  <2> QED
    BY <2>1, <2>2
<1>6. CASE UNCHANGED event
  <2>1. BookTypes'
    BY <1>2, <1>5, <1>6, <1>9, Known DEF BookTypes
  <2>2. Grows
    BY <1>2, <1>6, StillGrows
  <2>3. \A q \in Payments : PaymentKnown(q)'
    BY <1>10, <2>1, <2>2
  <2> QED
    BY <1>3, <1>4, <1>6, <2>1, <2>2, <2>3, CallStep
<1>7. CASE d # None /\ ~UNCHANGED event
  <2>0. /\ d \in Delivery /\ event[d].state = "running" /\ mark = MarkFor(d[2][1]) /\ p = d[1]
        /\ event[d].attempts \in 0 .. MaxAttempts /\ event[d].attempts < MaxAttempts
        /\ d[2][1] \in EventTypes /\ EventKnown(d) /\ JobKnown(h) /\ MaxAttempts \in Nat \ {0}
    BY <1>1, <1>7, Known, PaymentAssumption DEF JobKnown, EventKnown, BookTypes
  <2>1. PICK state \in {"queued", "dead", "PROCESSED"}, attempts \in 0 .. MaxAttempts :
           /\ event' = [event EXCEPT ![d] = [state |-> state, attempts |-> attempts]]
           /\ state = "queued" => attempts < MaxAttempts
           /\ state = "PROCESSED" => pc[h] = "done"
    <3>1. event[d] \in [state : {"none", "queued", "running", "PROCESSED", "DUPLICATE", "dead"},
                        attempts : 0 .. MaxAttempts] /\ DOMAIN event = Delivery
      BY <2>0, Known DEF BookTypes
    <3>2. ASSUME NEW state \in {"queued", "dead", "PROCESSED"},
                 event' = [event EXCEPT ![d].state = state]
          PROVE  event' = [event EXCEPT ![d] = [state |-> state, attempts |-> event[d].attempts]]
      <4>1. [event[d] EXCEPT !.state = state] = [state |-> state, attempts |-> event[d].attempts]
        BY <3>1
      <4> QED
        BY <3>2, <4>1
    <3>3. CASE Return(h)
      <4>1. event' = [event EXCEPT ![d].state = "PROCESSED"] /\ pc[h] = "done"
        BY <1>1, <1>7, <3>3 DEF Return
      <4> QED
        BY <2>0, <3>2, <4>1
    <3>4. CASE Crash(h)
      <4>1. PICK state \in {"queued", "dead"} : event' = [event EXCEPT ![d].state = state]
        BY <1>1, <1>7, <3>4 DEF Crash
      <4> QED
        BY <2>0, <3>2, <4>1
    <3>5. CASE Throw(h)
      <4>1. event' = [event EXCEPT ![d] = Requeue(d)]
        BY <1>1, <1>7, <3>5 DEF Throw
      <4>2. PICK tries : tries = event[d].attempts + 1
        OBVIOUS
      <4>3. tries \in 0 .. MaxAttempts
        BY <2>0, <4>2
      <4>4. CASE tries < MaxAttempts
        BY <4>1, <4>2, <4>3, <4>4 DEF Requeue
      <4>5. CASE ~(tries < MaxAttempts)
        BY <4>1, <4>2, <4>3, <4>5 DEF Requeue
      <4> QED
        BY <4>4, <4>5
    <3> QED
      BY <3>3, <3>4, <3>5
  <2>2. /\ event' \in [Delivery -> [state : {"none", "queued", "running", "PROCESSED",
                                             "DUPLICATE", "dead"},
                                    attempts : 0 .. MaxAttempts]]
        /\ event'[d].state = state /\ event'[d].attempts = attempts
        /\ \A e \in Delivery \ {d} : event'[e] = event[e]
    BY <2>0, <2>1, Known DEF BookTypes
  <2>3. BookTypes'
    BY <1>2, <1>5, <1>9, <2>2, Known DEF BookTypes
  <2>4. \A e \in Delivery : event[e].state = "PROCESSED" => event'[e].state = "PROCESSED"
    BY <2>0, <2>2
  <2>5. Grows
    BY <1>2, <2>4, StillGrows
  <2>6. \A q \in Payments : PaymentKnown(q)'
    BY <1>10, <2>3, <2>5
  <2>7. EventKnown(d)'
    <3>1. Happened(d[1], d[2][1])'
      BY <2>0, <2>5, HappenedKeeps DEF EventKnown
    <3>2. state = "PROCESSED" =>
             /\ d[2][1] = "SUCCESS" => Credited(p)'
             /\ d[2][1] = "REFUND_COMPLETED" => Taken(p)'
      <4>1. /\ d[2][1] = "SUCCESS" => mark = "SUCCESS"
            /\ d[2][1] = "REFUND_COMPLETED" => mark = "REFUNDED"
        BY <2>0 DEF MarkFor
      <4>2. (Credited(p)' <=> Credited(p)) /\ (Taken(p)' <=> Taken(p))
        BY <1>2 DEF Credited, Taken, Reversed, Rows
      <4> QED
        BY <1>1, <2>0, <2>1, <4>1, <4>2 DEF JobKnown
    <3> QED
      BY <2>0, <2>1, <2>2, <3>1, <3>2 DEF EventKnown
  <2>8. \A g \in Handlers \ {h} : pc[g] # "idle" /\ job[g].delivery # None => job[g].delivery # d
    BY <1>1, <1>7, Known DEF HandledOnce
  <2> QED
    BY <1>3, <1>4, <2>2, <2>3, <2>5, <2>6, <2>7, <2>8, CallStep
<1>8. d = None => UNCHANGED event
  BY <1>1 DEF Return, Throw, Crash
<1> QED
  BY <1>6, <1>7, <1>8

-----------------------------------------------------------------------------
(* The theorems *)

LEMMA InitIInv == Init => IInv
<1> SUFFICES ASSUME Init PROVE IInv
  OBVIOUS
<1>1. <<>> \in Seq(Row)
  BY EmptySeq
<1>2. TypeOK
  BY <1>1, PaymentAssumption DEF Init, TypeOK, Document, Statuses
<1>3. ASSUME NEW p \in Payments PROVE PaymentKnown(p)
  <2>1. rows[p] = <<>> /\ pt[p].status = "NONE" /\ gateway[p] = "none"
    BY DEF Init
  <2>2. DOMAIN rows[p] = {}
    BY <2>1
  <2>3. RowsKnown(p) /\ ~Credited(p) /\ ~Reversed(p)
    BY <2>1, <2>2 DEF RowsKnown, Credited, Reversed, Rows
  <2>4. notice[p]["advice"] = "none"
    BY DEF Init
  <2> QED
    BY <2>1, <2>3, <2>4 DEF PaymentKnown, Settled
<1>4. HandledOnce /\ \A h \in Handlers : JobKnown(h)
  BY DEF Init, HandledOnce, JobKnown
<1>5. \A d \in Delivery : EventKnown(d)
  BY PaymentAssumption DEF Init, EventKnown
<1> QED
  BY <1>2, <1>3, <1>4, <1>5 DEF IInv

LEMMA StutterIInv ==
    ASSUME IInv, UNCHANGED vars
    PROVE  IInv'
<1>1. /\ UNCHANGED <<pt, rows, unreversed, gateway, refund, event, notice, report>>
      /\ UNCHANGED <<pc, job, seen>>
  BY DEF vars, callVars
<1>2. BookTypes' /\ Grows
  BY <1>1, StillGrows, Known DEF BookTypes
<1>3. \A p \in Payments : PaymentKnown(p)'
  BY <1>1, <1>2, PaymentKeeps DEF Still
<1> QED
  BY <1>1, <1>2, <1>3, OutsideStep

LEMMA NextIInv == IInv /\ [Next]_vars => IInv'
<1> SUFFICES ASSUME IInv, [Next]_vars PROVE IInv'
  OBVIOUS
<1>1. CASE UNCHANGED vars
  BY <1>1, StutterIInv
<1>2. CASE \E p \in Payments : External(p)
  BY <1>2, DocumentStep, GatewayStep DEF External
<1>3. CASE \E d \in Delivery : Deliver(d) \/ DropDuplicate(d)
  BY <1>3, EventStep
<1>4. ASSUME NEW h \in Handlers, Proceed(h) \/ Crash(h) PROVE IInv'
  BY <1>4, ReadStep, CreditStep, DebitStep, SaveStep, EndStep DEF Proceed
<1>5. ASSUME NEW h \in Handlers, \E d \in Delivery : WebhookJob(h, d) PROVE IInv'
  BY <1>5, WebhookJobStep
<1>6. ASSUME NEW h \in Handlers,
             \E p \in Payments : Inline(h, p) \/ ReturnPage(h, p) \/ Advice(h, p)
      PROVE  IInv'
  BY <1>6, PageStep
<1>7. ASSUME NEW h \in Handlers, \E p \in Payments : Sweep(h, p) \/ Reconcile(h, p) PROVE IInv'
  BY <1>7, AskedStep
<1> QED
  BY <1>1, <1>2, <1>3, <1>4, <1>5, <1>6, <1>7 DEF Next

\* For any payments, handlers, events and attempts every reachable state keeps the
\* inductive invariant: each call of markSuccess, markRefunded and the others leans
\* on the row it has posted, and documents, rows, gateway and webhooks tell one story.
THEOREM PaymentInvariance == Spec => []IInv
<1> QED
  BY InitIInv, NextIInv, PTL DEF Spec

\* Documents, rows, events and calls keep their types; no job is tried more often
\* than MaxAttempts.
THEOREM TypesKept == Spec => []TypeOK
<1>1. IInv => TypeOK
  BY DEF IInv
<1> QED
  BY <1>1, PaymentInvariance, PTL

\* Without the waterfall a payment has one key for its credit, and however many
\* webhooks, returns, advices and sweeps race, markSuccess credits it once.  With the
\* waterfall live the code does not keep this.
THEOREM CreditsOnce ==
    ASSUME ~WaterfallLive
    PROVE  Spec => []CreditedOnce
<1>1. IInv => CreditedOnce
  <2> SUFFICES ASSUME IInv, NEW p \in Payments, NEW i \in Rows(p, "TOPUP"), NEW j \in Rows(p, "TOPUP")
               PROVE  i = j
    BY DEF CreditedOnce, AtMostOne
  <2>1. RowsKnown(p) /\ i \in DOMAIN rows[p] /\ j \in DOMAIN rows[p]
        /\ rows[p][i].kind = "TOPUP" /\ rows[p][j].kind = "TOPUP"
    BY Known DEF PaymentKnown, Rows
  <2>2. rows[p][i].ref = "pt" /\ rows[p][j].ref = "pt"
    BY <2>1 DEF RowsKnown
  <2> QED
    BY <2>1, <2>2 DEF RowsKnown
<1> QED
  BY <1>1, PaymentInvariance, PTL

\* With or without the waterfall: a document says SUCCESS or REFUNDED only of money
\* the wallet has, and the wallet has only money the gateway captured.
THEOREM CreditsMatch == Spec => []CreditsMatchCaptures
<1>1. IInv => CreditsMatchCaptures
  BY Known DEF CreditsMatchCaptures, SettledIsCredited, OnlyCapturedIsCredited, PaymentKnown, Settled
<1> QED
  BY <1>1, PaymentInvariance, PTL

\* Money is taken back at most once, after the credit, when the gateway has completed
\* the refund, however often its events are delivered.
THEOREM ReversalsFollow == Spec => []ReversalsFollowRefunds
<1>1. IInv => ReversalsFollowRefunds
  <2> SUFFICES ASSUME IInv, NEW p \in Payments
               PROVE  /\ AtMostOne(p, "REVERSAL")
                      /\ Reversed(p) => refund[p] = "completed" /\ rows[p][1].kind = "TOPUP"
    BY DEF ReversalsFollowRefunds
  <2>1. PaymentKnown(p) /\ RowsKnown(p)
    BY Known DEF PaymentKnown
  <2>2. AtMostOne(p, "REVERSAL")
    BY <2>1 DEF RowsKnown, AtMostOne, Rows
  <2>3. Reversed(p) => rows[p] # <<>>
    BY DEF Reversed, Rows
  <2> QED
    BY <2>1, <2>2, <2>3 DEF PaymentKnown, RowsKnown
<1> QED
  BY <1>1, PaymentInvariance, PTL

\* A webhook that the worker marked PROCESSED has moved its money, or the refusal of
\* the reversal is logged; one that it dropped as a duplicate has a processed twin.
THEOREM AcknowledgedTookEffect == Spec => []AcknowledgedEventsTookEffect
<1>1. IInv => AcknowledgedEventsTookEffect
  BY Known DEF AcknowledgedEventsTookEffect, EventKnown, Taken
<1> QED
  BY <1>1, PaymentInvariance, PTL

\* The payment advice of ICICI says PROCESSED only of money that was credited.  Its
\* return page says so before the call: a captured payment that the call did not
\* credit is then still PENDING or TIMEOUT, open to the next advice, poll or file.
THEOREM NoticesTold == Spec => []NoticesTookEffect
<1>1. IInv => NoticesTookEffect
  BY Known DEF NoticesTookEffect, PaymentKnown, Waiting
<1> QED
  BY <1>1, PaymentInvariance, PTL

\* Without the waterfall no late webhook, sweep or retry posts anything on a payment
\* whose reversal is posted.
THEOREM RefundsStayFinal ==
    ASSUME ~WaterfallLive
    PROVE  Spec => RefundsAreFinal
<1> DEFINE Final == \A p \in Payments : Reversed(p) => rows'[p] = rows[p]
<1>1. IInv /\ [Next]_vars => Final \/ UNCHANGED vars
  <2> SUFFICES ASSUME IInv, [Next]_vars, NEW p \in Payments, Reversed(p) PROVE rows'[p] = rows[p]
    OBVIOUS
  <2>1. RowsKnown(p) /\ rows \in [Payments -> Seq(Row)]
    BY Known DEF PaymentKnown, BookTypes
  <2>2. PICK i \in DOMAIN rows[p] : rows[p][i].ref = "pt-refund"
    BY <2>1 DEF Reversed, Rows, RowsKnown
  <2>3. PICK k \in DOMAIN rows[p] : rows[p][k].ref = "pt"
    <3>1. rows[p] # <<>> /\ rows[p] \in Seq(Row)
      BY <2>1, <2>2
    <3>2. 1 \in DOMAIN rows[p]
      BY <3>1, EmptySeq, LenProperties
    <3>3. rows[p][1].kind = "TOPUP" /\ rows[p][1].ref # "pt-refund"
      BY <2>1, <3>1, <3>2 DEF RowsKnown
    <3> QED
      BY <2>1, <3>2, <3>3 DEF RowsKnown
  <2>4. \A row : row.ref \in {"pt", "pt-refund"} => Posted(p, row) = rows[p]
    BY <2>2, <2>3 DEF Posted
  <2>5. ASSUME NEW h \in Handlers, Credit(h) \/ Debit(h) PROVE rows'[p] = rows[p]
    <3>0. PICK j \in Job : j = job[h]
      BY <2>5, Known DEF Credit, Debit
    <3>1. PICK kind \in {"TOPUP", "REVERSAL"}, ref \in {"pt", "pt-refund"} :
             rows' = [rows EXCEPT ![j.payment] =
                        Posted(j.payment, [kind |-> kind, ref |-> ref])]
      <4>1. CASE Credit(h)
        <5>1. CreditRef(j) = "pt"
          BY DEF CreditRef
        <5> QED
          BY <3>0, <4>1, <5>1 DEF Credit
      <4>2. CASE Debit(h)
        BY <3>0, <4>2 DEF Debit
      <4> QED
        BY <2>5, <4>1, <4>2
    <3>2. CASE j.payment = p
      BY <2>1, <2>4, <3>1, <3>2
    <3>3. CASE j.payment # p
      BY <2>1, <3>1, <3>3
    <3> QED
      BY <3>2, <3>3
  <2>6. CASE UNCHANGED rows
    BY <2>6
  <2>7. UNCHANGED rows \/ \E h \in Handlers : Credit(h) \/ Debit(h)
    BY ZenonT(40) DEF Next, External, Initiate, Redirect, InitiateFails, Decide, Refund, Deliver,
       DropDuplicate, WebhookJob, Inline, ReturnPage, Advice, Sweep, Reconcile, Proceed, Read, CreditFails,
       DebitFails, Save, Return, Throw, Crash, vars
  <2> QED
    BY <2>5, <2>6, <2>7
<1>2. Spec => [][Final]_vars
  BY <1>1, PaymentInvariance, PTL DEF Spec
<1> QED
  BY <1>2 DEF RefundsAreFinal
=============================================================================
