-------------------------- MODULE ProductBooking ---------------------------
(***************************************************************************)
(* Holidays, visas and hotels of the mock supplier: quick-book creates a   *)
(* CONFIRMED booking and then debits the wallet (routes/products.routes.ts,*)
(* routes/hotels.routes.ts); the unified cancel (routes/booking.routes.ts) *)
(* reads the status, credits the whole price and saves CANCELLED.  Both    *)
(* postings carry an idempotency key made of the booking's id.             *)
(*                                                                         *)
(* A visa differs from a holiday only in statuses that no code sets.       *)
(***************************************************************************)
EXTENDS WalletDesk

VARIABLES
    product,   \* the HolidayBooking, VisaBooking and HotelBooking documents
    charged,   \* rows under the key of the booking
    repaid     \* rows under the key of its cancellation

productVars == <<product, charged, repaid>>

ProductStatuses == {"none", "CONFIRMED", "BOOK_FAILED", "VOUCHERED", "CANCELLED"}

ProductTypeOK ==
    /\ product \in [Products -> [kind : {"holiday", "hotel"}, status : ProductStatuses]]
    /\ charged \in [Products -> Nat] /\ repaid \in [Products -> Nat]

ProductInit ==
    /\ product = [p \in Products |-> [kind |-> "holiday", status |-> "none"]]
    /\ charged = [p \in Products |-> 0] /\ repaid = [p \in Products |-> 0]

SaveProduct(c, status) ==
    /\ product' = [product EXCEPT ![Doc(c)].status = status]
    /\ Leave(c)
    /\ UNCHANGED <<money, torn, charged, repaid>>

-----------------------------------------------------------------------------
(* quick-book *)

\* "Create the booking row FIRST so we have a stable id for the wallet".
QuickBook(c, p, kind) ==
    /\ pc[c] = "idle"
    /\ product[p].status = "none"
    /\ product' = [product EXCEPT ![p] = [kind |-> kind, status |-> "CONFIRMED"]]
    /\ Take(c, p, "pay")
    /\ UNCHANGED <<money, torn, charged, repaid>>

\* walletService.debit, strict: the wallet does not go below zero.
PayProduct(c) ==
    /\ pc[c] = "pay"
    /\ balance["agency"] >= 1
    /\ PostExternal("agency", -1)
    /\ charged' = [charged EXCEPT ![Doc(c)] = @ + 1]
    /\ IF product[Doc(c)].kind = "hotel" THEN Goto(c, "voucher") /\ UNCHANGED call
       ELSE Leave(c)
    /\ UNCHANGED <<stranded, torn, product, repaid>>

PaymentRefused(c) ==
    /\ pc[c] = "pay"
    /\ Goto(c, "bookFailed")
    /\ UNCHANGED <<money, torn, call, productVars>>

SaveBookFailed(c) == pc[c] = "bookFailed" /\ SaveProduct(c, "BOOK_FAILED")

SaveVouchered(c) == pc[c] = "voucher" /\ SaveProduct(c, "VOUCHERED")

-----------------------------------------------------------------------------
(* POST /bookings/:id/cancel *)

Cancellable(p) == product[p].status \notin {"none", "CANCELLED"}

\* BOOK_FAILED is no obstacle, nor is a request that has still to pay: what a
\* cancellation of such a booking leaves is torn.
ReadToCancel(c, p) ==
    /\ pc[c] = "idle"
    /\ Cancellable(p)
    /\ Take(c, p, "refundProduct")
    /\ torn' = IF product[p].status = "BOOK_FAILED" \/ ~Quiet(p) THEN torn \cup {p} ELSE torn
    /\ UNCHANGED <<money, productVars>>

\* Mutant: the credit carries no key.
RefundFreshAlways(p) == TRUE

RefundFresh(p) == repaid[p] = 0

\* walletService.credit; the key of an earlier credit brings back its row.
RefundProduct(c) ==
    /\ pc[c] = "refundProduct"
    /\ IF RefundFresh(Doc(c))
       THEN PostExternal("agency", 1) /\ repaid' = [repaid EXCEPT ![Doc(c)] = @ + 1]
       ELSE UNCHANGED <<balance, external, repaid>>
    /\ Goto(c, "cancelProduct")
    /\ UNCHANGED <<stranded, torn, call, product, charged>>

\* The credit throws, or the request of somebody else has just used its key.
RefundThrows(c) ==
    /\ pc[c] = "refundProduct"
    /\ Leave(c)
    /\ UNCHANGED <<money, torn, productVars>>

SaveProductCancelled(c) == pc[c] = "cancelProduct" /\ SaveProduct(c, "CANCELLED")

-----------------------------------------------------------------------------
ProductNext ==
    \E c \in Clerks :
        \/ \E p \in Products :
             ReadToCancel(c, p) \/ \E kind \in {"holiday", "hotel"} : QuickBook(c, p, kind)
        \/ PayProduct(c) \/ PaymentRefused(c) \/ SaveBookFailed(c) \/ SaveVouchered(c)
        \/ RefundProduct(c) \/ RefundThrows(c) \/ SaveProductCancelled(c)

-----------------------------------------------------------------------------
(* Properties *)

\* However many cancellations run, crash and are asked for again, the price of a
\* booking is given back once: the check of the status does not see to that.
ProductRefundedOnce == \A p \in Products : repaid[p] <= 1

\* No booking is CANCELLED before the agency has its money back, wherever the
\* request that cancelled it, or one that raced it, ended.
CancelledIsRefunded ==
    \A p \in Products : product[p].status = "CANCELLED" => repaid[p] >= 1

\* Unless a request died or was cancelled in the middle, a booking that stands is
\* paid and one that failed cost nothing.
ProductTellsMoney ==
    \A p \in Products \ torn : Quiet(p) =>
        /\ product[p].status \in {"CONFIRMED", "VOUCHERED"} => charged[p] = 1 /\ repaid[p] = 0
        /\ product[p].status = "BOOK_FAILED" => charged[p] = 0 /\ repaid[p] = 0

\* A one-step booking is paid or refunded, once, and its status tells which.
ProductPaidOrRefunded == ProductRefundedOnce /\ CancelledIsRefunded /\ ProductTellsMoney
=============================================================================
