--------------------------- MODULE FlightBooking ---------------------------
(***************************************************************************)
(* Flight bookings (services/booking.service.ts, the adapters,             *)
(* queues/hold-expiry.worker.ts): hold, confirm, manual issue, cancel and  *)
(* expiry of bookings that compete for the seats of one series inventory,  *)
(* or are made at a supplier (no seats of ours), and the edit of that      *)
(* inventory.                                                              *)
(*                                                                         *)
(* Two writes are atomic in the database, the claim of a HOLD by confirm   *)
(* and by the expiry sweep.  All other writes are a read, some remote      *)
(* calls and a save() that does not look at the status it overwrites.      *)
(* clobbered remembers the documents such a save hit after somebody else   *)
(* had moved them: several properties hold until then and not longer.      *)
(*                                                                         *)
(* A wallet call is one step here; WalletWriters says why it may be.       *)
(***************************************************************************)
EXTENDS Naturals, FiniteSets, FiniteSetsExt

CONSTANTS
    Bookings,
    Calls,       \* concurrent requests and jobs
    SeatsOf,     \* seatsConsumed of a booking, 0 without an inventory
    Price,       \* pricing.agencyPayablePaise
    Fee,         \* cancellation fee of the fare rule
    TotalSeats,  \* seats of the inventory when it is created
    NewTotals,   \* values of totalSeats an admin may enter
    SupplierOf,  \* whose adapter holds, tickets and cancels a booking
    None

Inventory == "inventory"

\* SERIES has no supplier behind it.  A TBO booking of a low cost carrier has a
\* synthetic reference, "LCC:...".  KAFILA tickets when it holds and cannot cancel.
Suppliers == {"SERIES", "TBO", "LCC", "KAFILA"}

ASSUME BookingAssumption ==
    /\ IsFiniteSet(Bookings)
    /\ SeatsOf \in [Bookings -> Nat]
    /\ Price \in Nat /\ Fee \in 0 .. Price
    /\ TotalSeats \in Nat /\ NewTotals \subseteq Nat
    /\ SupplierOf \in [Bookings -> Suppliers]
    /\ \A b \in Bookings : SeatsOf[b] > 0 => SupplierOf[b] = "SERIES"
    /\ Inventory \notin Bookings
    /\ None \notin Calls \cup Bookings \cup {"DONE", "FAILED"}

VARIABLES
    inventory,  \* totalSeats and seatsRemaining
    doc,        \* the Booking documents
    overdue,    \* bookings whose expiresAt has passed
    issued,     \* tickets the supplier has issued for a booking
    voided,     \* bookings the supplier has cancelled
    money,      \* BOOKING_DEBIT, REFUND_CREDIT, CANCELLATION_FEE by booking
    refused,    \* bookings a refund of which the wallet refused
    clobbered,  \* documents a save hit after they had moved
    pc, call    \* per call: control point, and what it remembers

books == <<money, refused>>
supplier == <<issued, voided>>
vars == <<inventory, doc, overdue, supplier, books, clobbered, pc, call>>

Statuses == {"NONE", "HOLD", "TICKETING_IN_PROGRESS", "PENDING_MANUAL", "TICKETED",
             "FAILED", "EXPIRED", "CANCEL_REQUESTED", "CANCELLED"}
Document == [status : Statuses,
             payment : {"PENDING", "PAID", "FAILED", "REFUNDED"},
             supplierCancel : {None, "DONE", "FAILED"},
             numbered : BOOLEAN]                \* ticketNumbers are stored
Steps == {"idle", "create", "lapsed", "release", "debit", "undo", "route", "ticket",
          "ticketed", "refundTicket", "failed", "issue", "request", "cancelSeats",
          "supplier", "refund", "fee", "cancelled", "edit"}
Call == [booking : Bookings \cup {None},
         seen : Statuses,                   \* status it read or wrote last
         paid : BOOLEAN,                    \* wasPaid of cancelBooking
         fee : {0, Fee},                    \* cancellationFeePaise
         refunded : BOOLEAN,                \* its postCredit succeeded
         supplierCancel : {None, "DONE", "FAILED"},
         total : Nat, seats : Nat]          \* the inventory updateInventory read

TypeOK ==
    /\ inventory \in [total : Nat, seats : Nat]
    /\ doc \in [Bookings -> Document]
    /\ overdue \subseteq Bookings
    /\ issued \in [Bookings -> Nat]
    /\ voided \subseteq Bookings
    /\ money \in [Bookings -> [debit : Nat, refund : Nat, fee : Nat]]
    /\ refused \subseteq Bookings
    /\ clobbered \subseteq Bookings \cup {Inventory}
    /\ pc \in [Calls -> Steps]
    /\ call \in [Calls -> Call]

NoCall == [booking |-> None, seen |-> "NONE", paid |-> FALSE, fee |-> 0,
           refunded |-> FALSE, supplierCancel |-> None, total |-> 0, seats |-> 0]

Init ==
    /\ inventory = [total |-> TotalSeats, seats |-> TotalSeats]
    /\ doc = [b \in Bookings |-> [status |-> "NONE", payment |-> "PENDING",
                                  supplierCancel |-> None, numbered |-> FALSE]]
    /\ overdue = {}
    /\ issued = [b \in Bookings |-> 0]
    /\ voided = {}
    /\ money = [b \in Bookings |-> [debit |-> 0, refund |-> 0, fee |-> 0]]
    /\ refused = {}
    /\ clobbered = {}
    /\ pc = [c \in Calls |-> "idle"]
    /\ call = [c \in Calls |-> NoCall]

-----------------------------------------------------------------------------
(* Reads, saves and remote calls the operations share *)

Of(c) == call[c].booking
Goto(c, step) == pc' = [pc EXCEPT ![c] = step]

\* The call returns or throws.
Leave(c) == Goto(c, "idle") /\ call' = [call EXCEPT ![c] = NoCall]

\* The call has the document of b before it, in that status.
Begin(c, b, status, step) ==
    /\ pc[c] = "idle"
    /\ Goto(c, step)
    /\ call' = [call EXCEPT ![c] = [NoCall EXCEPT !.booking = b, !.seen = status]]

\* booking.save() of new, whatever the status is by now.
Save(c, new) ==
    LET b == Of(c) IN
    /\ doc' = [doc EXCEPT ![b] = new]
    /\ clobbered' = IF doc[b].status = call[c].seen THEN clobbered
                    ELSE clobbered \cup {b}

SaveAndGo(c, new, step) ==
    /\ Save(c, new)
    /\ Goto(c, step)
    /\ call' = [call EXCEPT ![c].seen = new.status]

\* $inc of seatsRemaining.
Release(b) == inventory' = [inventory EXCEPT !.seats = @ + SeatsOf[b]]

Charge(b, field, amount) == money' = [money EXCEPT ![b][field] = @ + amount]

-----------------------------------------------------------------------------
(* holdBooking *)

SeatsLeft(b) == inventory.seats >= SeatsOf[b]

\* What adapter.ticket, or already adapter.hold, issues at the supplier.
Issue(b, now) == issued' = IF now THEN [issued EXCEPT ![b] = @ + 1] ELSE issued

\* adapter.hold.  That of SERIES is one findOneAndUpdate, or EXHAUSTED; that of
\* KAFILA is a CreatePnr with issueTicket set.
HoldSeats(c, b) ==
    /\ doc[b].status = "NONE"
    /\ \A d \in Calls : Of(d) # b      \* each hold creates its own booking
    /\ SeatsLeft(b)
    /\ Begin(c, b, "NONE", "create")
    /\ inventory' = [inventory EXCEPT !.seats = @ - SeatsOf[b]]
    /\ Issue(b, SupplierOf[b] = "KAFILA")
    /\ UNCHANGED <<doc, overdue, voided, books, clobbered>>

CreateBooking(c) ==
    /\ pc[c] = "create"
    /\ doc' = [doc EXCEPT ![Of(c)].status = "HOLD"]
    /\ Leave(c)
    /\ UNCHANGED <<inventory, overdue, supplier, books, clobbered>>

\* Half an hour passes.
HoldLapses(b) ==
    /\ doc[b].status \in {"HOLD", "TICKETING_IN_PROGRESS"}
    /\ overdue' = overdue \cup {b}
    /\ UNCHANGED <<inventory, doc, supplier, books, clobbered, pc, call>>

-----------------------------------------------------------------------------
(* holdExpiryProcessor *)

\* Mutant: the sweep does not repeat the status in the filter of its update.
StillHeldUnchecked(b) == doc[b].status # "NONE"

StillHeld(b) == doc[b].status = "HOLD"

\* Mutant: the stale holds are looked for among the bookings not overdue.
StaleReversed(b) == b \notin overdue

Stale(b) == b \in overdue

ExpireHold(c, b) ==
    /\ Stale(b)
    /\ StillHeld(b)
    /\ doc' = [doc EXCEPT ![b].status = "EXPIRED"]
    /\ Begin(c, b, "EXPIRED", "release")
    /\ UNCHANGED <<inventory, overdue, supplier, books, clobbered>>

ReleaseSeats(c) ==
    /\ pc[c] = "release"
    /\ Release(Of(c))
    /\ Leave(c)
    /\ UNCHANGED <<doc, overdue, supplier, books, clobbered>>

-----------------------------------------------------------------------------
(* confirmBooking, by the agent or after a top-up for the booking *)

\* Mutant: the status is read first and saved later.
ClaimableUnchecked(b) == doc[b].status \in {"HOLD", "TICKETING_IN_PROGRESS"}

Claimable(b) == doc[b].status = "HOLD"

Claim(c, b) ==
    /\ Claimable(b)
    /\ doc' = [doc EXCEPT ![b].status = "TICKETING_IN_PROGRESS"]
    /\ Begin(c, b, "TICKETING_IN_PROGRESS", IF b \in overdue THEN "lapsed" ELSE "debit")
    /\ UNCHANGED <<inventory, overdue, supplier, books, clobbered>>

Lapsed(c) ==
    /\ pc[c] = "lapsed"
    /\ SaveAndGo(c, [doc[Of(c)] EXCEPT !.status = "EXPIRED"], "release")
    /\ UNCHANGED <<inventory, overdue, supplier, books>>

Debit(c) ==
    /\ pc[c] = "debit"
    /\ Charge(Of(c), "debit", Price)
    /\ Goto(c, "route")
    /\ UNCHANGED <<inventory, doc, overdue, supplier, refused, clobbered, call>>

\* The wallet does not cover the booking, or is locked.
DebitFails(c) ==
    /\ pc[c] = "debit"
    /\ Goto(c, "undo")
    /\ UNCHANGED <<inventory, doc, overdue, supplier, books, clobbered, call>>

\* Mutant: any failure before the ticket gives the booking back as a HOLD.
UndoDebited(c) == pc[c] \in {"undo", "route"}

Undo(c) == pc[c] = "undo"

BackToHold(c) ==
    /\ Undo(c)
    /\ Save(c, [doc[Of(c)] EXCEPT !.status = "HOLD"])
    /\ Leave(c)
    /\ UNCHANGED <<inventory, overdue, supplier, books>>

\* A Map Source sends the booking to the ops desk.
RouteToManual(c) ==
    /\ pc[c] = "route"
    /\ Save(c, [doc[Of(c)] EXCEPT !.status = "PENDING_MANUAL", !.payment = "PAID"])
    /\ Leave(c)
    /\ UNCHANGED <<inventory, overdue, supplier, books>>

RouteToSupplier(c) ==
    /\ pc[c] = "route"
    /\ Goto(c, "ticket")
    /\ UNCHANGED <<inventory, doc, overdue, supplier, books, clobbered, call>>

Ticket(c) ==
    /\ pc[c] = "ticket"
    /\ Issue(Of(c), SupplierOf[Of(c)] # "KAFILA")
    /\ Goto(c, "ticketed")
    /\ UNCHANGED <<inventory, doc, overdue, voided, books, clobbered, call>>

\* adapter.ticket throws, or the save after it does.
TicketFails(c) ==
    /\ pc[c] \in {"ticket", "ticketed"}
    /\ Goto(c, "refundTicket")
    /\ UNCHANGED <<inventory, doc, overdue, supplier, books, clobbered, call>>

SaveTicketed(c) ==
    /\ pc[c] = "ticketed"
    /\ Save(c, [doc[Of(c)] EXCEPT !.status = "TICKETED", !.payment = "PAID",
                                    !.numbered = TRUE])
    /\ Leave(c)
    /\ UNCHANGED <<inventory, overdue, supplier, books>>

\* Mutant: the auto-refund is forgotten.
AutoRefundNothing(b) == UNCHANGED money

AutoRefund(b) == Charge(b, "refund", Price)

RefundTicket(c) ==
    /\ pc[c] = "refundTicket"
    /\ \/ AutoRefund(Of(c)) /\ UNCHANGED refused
       \/ refused' = refused \cup {Of(c)} /\ UNCHANGED money
    /\ Goto(c, "failed")
    /\ UNCHANGED <<inventory, doc, overdue, supplier, clobbered, call>>

SaveFailed(c) ==
    /\ pc[c] = "failed"
    /\ Save(c, [doc[Of(c)] EXCEPT !.status = "FAILED", !.payment = "FAILED"])
    /\ Leave(c)
    /\ UNCHANGED <<inventory, overdue, supplier, books>>

-----------------------------------------------------------------------------
(* issueManually: the ticket was bought elsewhere, no money moves *)

ReadManual(c, b) ==
    /\ doc[b].status = "PENDING_MANUAL"
    /\ Begin(c, b, "PENDING_MANUAL", "issue")
    /\ UNCHANGED <<inventory, doc, overdue, supplier, books, clobbered>>

\* The one save that Mongoose compares with what was read: it replaces an
\* array, ticketNumbers, which no booking had while it was PENDING_MANUAL.
IssueManually(c) ==
    /\ pc[c] = "issue"
    /\ ~doc[Of(c)].numbered
    /\ Save(c, [doc[Of(c)] EXCEPT !.status = "TICKETED", !.numbered = TRUE])
    /\ Leave(c)
    /\ UNCHANGED <<inventory, overdue, supplier, books>>

\* VersionError: somebody else has issued the booking.
IssueConflict(c) ==
    /\ pc[c] = "issue"
    /\ doc[Of(c)].numbered
    /\ Leave(c)
    /\ UNCHANGED <<inventory, doc, overdue, supplier, books, clobbered>>

-----------------------------------------------------------------------------
(* cancelBooking *)

WasPaid(b) == doc[b].status # "HOLD" /\ doc[b].payment = "PAID"

\* The fee is 0 in the void window, without an inventory and without a band of
\* its fare rule that fits.  Bound: no call starts once the inventory shows more seats than it has.
ReadForCancel(c, b) ==
    /\ inventory.seats <= inventory.total
    /\ doc[b].status \in {"HOLD", "TICKETED", "PENDING_MANUAL"}
    /\ pc[c] = "idle"
    /\ \E fee \in IF WasPaid(b) /\ SeatsOf[b] > 0 THEN {0, Fee} ELSE {0} :
         call' = [call EXCEPT ![c] =
                    [NoCall EXCEPT !.booking = b, !.seen = doc[b].status,
                                   !.paid = WasPaid(b), !.fee = fee,
                                   !.supplierCancel = doc[b].supplierCancel]]
    /\ Goto(c, "request")
    /\ UNCHANGED <<inventory, doc, overdue, supplier, books, clobbered>>

RequestCancel(c) ==
    /\ pc[c] = "request"
    /\ SaveAndGo(c, [doc[Of(c)] EXCEPT !.status = "CANCEL_REQUESTED"], "cancelSeats")
    /\ UNCHANGED <<inventory, overdue, supplier, books>>

CancelSeats(c) ==
    /\ pc[c] = "cancelSeats"
    /\ Release(Of(c))
    /\ Goto(c, "supplier")
    /\ UNCHANGED <<doc, overdue, supplier, books, clobbered, call>>

\* Mutant: a failed cancellation leaves no trace.
UnflaggedFailure == None

CancelFailure == "FAILED"

\* Best effort: a failure is flagged for the ops desk and does not stop the
\* refund.  Nothing is sent for the synthetic reference of an LCC booking, which
\* ticketing does not replace, when the reference of an earlier cancellation is
\* stored, or when the adapter lacks the CANCEL capability.
CancelAtSupplier(c) ==
    /\ pc[c] = "supplier"
    /\ \/ /\ SupplierOf[Of(c)] \in {"SERIES", "TBO"}
          /\ voided' = voided \cup {Of(c)}
          /\ call' = [call EXCEPT ![c].supplierCancel = "DONE"]
       \/ /\ SupplierOf[Of(c)] \in {"SERIES", "TBO"}
          /\ call' = [call EXCEPT ![c].supplierCancel = CancelFailure]
          /\ UNCHANGED voided
       \/ /\ SupplierOf[Of(c)] = "LCC"
          /\ call' = [call EXCEPT ![c].supplierCancel = "DONE"]
          /\ UNCHANGED voided
       \/ /\ SupplierOf[Of(c)] = "KAFILA" \/ call[c].supplierCancel = "DONE"
          /\ UNCHANGED <<voided, call>>
    /\ Goto(c, IF call[c].paid /\ Price > call[c].fee THEN "refund" ELSE "cancelled")
    /\ UNCHANGED <<inventory, doc, overdue, issued, books, clobbered>>

RefundCancelled(c) ==
    /\ pc[c] = "refund"
    /\ \/ /\ Charge(Of(c), "refund", Price - call[c].fee)
          /\ call' = [call EXCEPT ![c].refunded = TRUE]
          /\ UNCHANGED refused
       \/ /\ refused' = refused \cup {Of(c)}
          /\ UNCHANGED <<money, call>>
    /\ Goto(c, IF call[c].fee > 0 THEN "fee" ELSE "cancelled")
    /\ UNCHANGED <<inventory, doc, overdue, supplier, clobbered>>

ChargeFee(c) ==
    /\ pc[c] = "fee"
    /\ Charge(Of(c), "fee", call[c].fee)
    /\ Goto(c, "cancelled")
    /\ UNCHANGED <<inventory, doc, overdue, supplier, refused, clobbered, call>>

\* postDebit throws out of cancelBooking: the booking stays CANCEL_REQUESTED.
FeeRefused(c) ==
    /\ pc[c] = "fee"
    /\ Leave(c)
    /\ UNCHANGED <<inventory, doc, overdue, supplier, books, clobbered>>

SaveCancelled(c) ==
    /\ pc[c] = "cancelled"
    /\ Save(c, [doc[Of(c)] EXCEPT
                  !.status = "CANCELLED",
                  !.payment = IF call[c].refunded THEN "REFUNDED" ELSE @,
                  !.supplierCancel = call[c].supplierCancel])
    /\ Leave(c)
    /\ UNCHANGED <<inventory, overdue, supplier, books>>

-----------------------------------------------------------------------------
(* updateInventory, with a new totalSeats *)

ReadInventory(c) ==
    /\ pc[c] = "idle"
    /\ call' = [call EXCEPT ![c] = [NoCall EXCEPT !.total = inventory.total,
                                                  !.seats = inventory.seats]]
    /\ Goto(c, "edit")
    /\ UNCHANGED <<inventory, doc, overdue, supplier, books, clobbered>>

\* Only an edit that changes the number of seats writes it.  Seats that were
\* released twice would make consumed negative: such a bound is not followed.
SaveInventory(c, total) ==
    /\ pc[c] = "edit"
    /\ call[c].total >= call[c].seats
    /\ LET consumed == call[c].total - call[c].seats IN
         /\ total >= consumed
         /\ IF total = call[c].total THEN UNCHANGED <<inventory, clobbered>>
            ELSE /\ inventory' = [total |-> total, seats |-> total - consumed]
                 /\ clobbered' = IF inventory = [total |-> call[c].total, seats |-> call[c].seats]
                                 THEN clobbered ELSE clobbered \cup {Inventory}
    /\ Leave(c)
    /\ UNCHANGED <<doc, overdue, supplier, books>>

\* totalSeats may not fall below the seats in use: nothing is saved.
EditRefused(c) ==
    /\ pc[c] = "edit"
    /\ Leave(c)
    /\ UNCHANGED <<inventory, doc, overdue, supplier, books, clobbered>>

-----------------------------------------------------------------------------
\* The process dies, or a call nobody guards throws (adapterForCode after the
\* debit, a save): what was not written yet is lost, nothing resumes it.
Crash(c) ==
    /\ pc[c] # "idle"
    /\ Leave(c)
    /\ UNCHANGED <<inventory, doc, overdue, supplier, books, clobbered>>

Start(c, b) ==
    \/ HoldSeats(c, b) \/ ExpireHold(c, b) \/ Claim(c, b) \/ ReadManual(c, b)
    \/ ReadForCancel(c, b)

Proceed(c) ==
    \/ CreateBooking(c) \/ ReleaseSeats(c)
    \/ Lapsed(c) \/ Debit(c) \/ DebitFails(c) \/ BackToHold(c)
    \/ RouteToManual(c) \/ RouteToSupplier(c)
    \/ Ticket(c) \/ TicketFails(c) \/ SaveTicketed(c) \/ RefundTicket(c) \/ SaveFailed(c)
    \/ IssueManually(c) \/ IssueConflict(c)
    \/ RequestCancel(c) \/ CancelSeats(c) \/ CancelAtSupplier(c)
    \/ RefundCancelled(c) \/ ChargeFee(c) \/ FeeRefused(c) \/ SaveCancelled(c)
    \/ \E total \in NewTotals : SaveInventory(c, total)
    \/ EditRefused(c)

Next ==
    \/ \E b \in Bookings : HoldLapses(b)
    \/ \E c \in Calls :
         \/ Proceed(c) \/ ReadInventory(c) \/ Crash(c)
         \/ \E b \in Bookings : Start(c, b)

Spec == Init /\ [][Next]_vars

\* The repeatable job of BullMQ comes back every minute, and running calls go on.
FairSpec ==
    /\ Spec
    /\ \A b \in Bookings : SF_vars(\E c \in Calls : ExpireHold(c, b))
    /\ \A c \in Calls : WF_vars(Proceed(c))

-----------------------------------------------------------------------------
(* Properties *)

\* The agency is debited for a booking once, however often confirm is called,
\* by whom (agent, webhook, return page) and after how many refused debits.
DebitedOnce == \A b \in Bookings : money[b].debit <= Price

\* No booking is ticketed twice at the supplier, and none before its debit:
\* the claim of confirmBooking is there for both.  (KAFILA tickets at the hold.)
TicketedOnce ==
    \A b \in Bookings : issued[b] <= 1 /\ (issued[b] = 1 => money[b].debit > 0)

\* Money is given back only to who has paid, in every interleaving of confirm,
\* cancel and expiry.
RefundNeedsDebit == \A b \in Bookings : money[b].refund > 0 => money[b].debit > 0

Occupying == {"HOLD", "TICKETING_IN_PROGRESS", "PENDING_MANUAL", "TICKETED", "FAILED"}
SeatsUsed(S) == MapThenSumSet(LAMBDA b : SeatsOf[b], S)

\* While nothing is clobbered the seats of an inventory are not sold twice: the
\* seats left, those of live bookings and those on their way from one to the
\* other stay within totalSeats, whatever crashes lose.
SeatsConserved ==
    clobbered = {} =>
        inventory.seats
          + SeatsUsed({b \in Bookings : doc[b].status \in Occupying})
          + SeatsUsed({Of(c) : c \in {d \in Calls :
                         pc[d] \in {"create", "release", "cancelSeats"}}})
        <= inventory.total

\* While b is not clobbered the ticket an agent sees is paid for: one debit and
\* no refund of it.
TicketIsPaid ==
    \A b \in Bookings \ clobbered :
        doc[b].status \in {"TICKETED", "PENDING_MANUAL"} =>
            money[b].debit = Price /\ money[b].refund = 0

\* While b is not clobbered a booking that was paid and came to nothing was
\* refunded, or the refusal of its refund was logged.
MoneyComesBack ==
    \A b \in Bookings \ clobbered :
        doc[b].status \in {"FAILED", "CANCELLED"} /\ money[b].debit > 0 =>
            money[b].refund > 0 \/ b \in refused \/ Fee = Price

\* The money follows the booking in every order of confirm, cancel and expiry: what
\* stands is paid, what came to nothing is refunded, and who paid nothing gets nothing.
MoneyFollowsBooking == RefundNeedsDebit /\ TicketIsPaid /\ MoneyComesBack

\* While b is not clobbered a cancelled ticket is cancelled at the supplier too,
\* or flagged for the ops desk: nobody flies on a refunded booking unnoticed.
\* The comments say so of LCC and of KAFILA bookings as well.
NoForgottenTicket ==
    \A b \in Bookings \ clobbered :
        doc[b].status = "CANCELLED" /\ issued[b] > 0 =>
            b \in voided \/ doc[b].supplierCancel = "FAILED"

\* A hold that has lapsed does not keep its seats for ever, also when a confirm
\* takes it away from the sweep and gives it back after a refused debit.
HoldsEnd ==
    \A b \in Bookings : doc[b].status = "HOLD" /\ b \in overdue ~> doc[b].status # "HOLD"
=============================================================================
