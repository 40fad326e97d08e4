-------------------------- MODULE FlightAmendment --------------------------
(***************************************************************************)
(* Amendments of flight bookings (services/amendment.service.ts) beside    *)
(* the operations of FlightBooking: an agent asks to cancel, refund or     *)
(* reschedule a booking, an operator approves or rejects that.  Both       *)
(* documents are read, money and seats are moved, and both are saved,      *)
(* the booking first; no save looks at what it overwrites.                 *)
(*                                                                         *)
(* The two reads of an operator are one step.                              *)
(*                                                                         *)
(* History: torn holds the amendments decided while another call worked on *)
(* them (a second operator, or the creator that has not locked the booking *)
(* yet) and those a crash left half done; strayed the bookings of which an *)
(* amendment was asked for in another status than HOLD and TICKETED, or a  *)
(* reschedule was decided in the middle of a cancellation.                 *)
(***************************************************************************)
EXTENDS FlightBooking

CONSTANT Amendments

ASSUME AmendmentAssumption == None \notin Amendments

VARIABLES
    amendment,  \* the Amendment documents, and the refunds posted for each
    desk,       \* the amendment a call works on
    torn, strayed

amendmentVars == <<amendment, desk, torn, strayed>>
amendedVars == <<vars, amendmentVars>>

AmendmentTypes == {"CANCEL", "REFUND", "RESCHEDULE"}
AmendmentStatuses == {"NONE", "PENDING_APPROVAL", "REJECTED", "COMPLETED", "FAILED"}
AmendmentSteps == {"amend", "lock", "approve", "amendFee", "amendSeats", "amendBooking",
                   "settle", "reject", "rollback"}

AmendmentTypeOK ==
    /\ amendment \in [Amendments -> [booking : Bookings \cup {None}, type : AmendmentTypes,
                                     status : AmendmentStatuses, refunds : Nat]]
    /\ desk \in [Calls -> Amendments \cup {None}]
    /\ torn \subseteq Amendments /\ strayed \subseteq Bookings
    /\ pc \in [Calls -> Steps \cup AmendmentSteps]
    /\ doc \in [Bookings -> Document]

AmendmentInit ==
    /\ Init
    /\ amendment = [m \in Amendments |-> [booking |-> None, type |-> "CANCEL",
                                          status |-> "NONE", refunds |-> 0]]
    /\ desk = [c \in Calls |-> None]
    /\ torn = {} /\ strayed = {}

-----------------------------------------------------------------------------
At(c) == desk[c]
Frees(c) == amendment[At(c)].type \in {"CANCEL", "REFUND"}

\* The call is over; what it remembers goes with it.
LeaveDesk(c) == Leave(c) /\ desk' = [desk EXCEPT ![c] = None]

\* amendment.save() of a decision, over whatever was decided meanwhile.
Decide(c, status) == amendment' = [amendment EXCEPT ![At(c)].status = status]

-----------------------------------------------------------------------------
(* createAmendment *)

\* Only a cancellation may be asked for in every status of the booking.
Amendable(type, status) == type = "CANCEL" \/ status = "TICKETED"

ReadToAmend(c, m, b) ==
    /\ amendment[m].status = "NONE"
    /\ \A d \in Calls : At(d) # m       \* each call creates its own document
    /\ doc[b].status # "NONE"
    /\ Begin(c, b, doc[b].status, "amend")
    /\ desk' = [desk EXCEPT ![c] = m]
    /\ UNCHANGED <<inventory, doc, overdue, supplier, books, clobbered,
                   amendment, torn, strayed>>

CreateAmendment(c) ==
    /\ pc[c] = "amend"
    /\ \E type \in AmendmentTypes :
         /\ Amendable(type, call[c].seen)
         /\ amendment' = [amendment EXCEPT ![At(c)] =
                            [booking |-> Of(c), type |-> type,
                             status |-> "PENDING_APPROVAL", refunds |-> 0]]
    /\ strayed' = IF call[c].seen \in {"HOLD", "TICKETED"} THEN strayed
                  ELSE strayed \cup {Of(c)}
    /\ Goto(c, "lock")
    /\ UNCHANGED <<inventory, doc, overdue, supplier, books, clobbered, call, desk, torn>>

\* "Move the booking into a holding state"; Mongoose writes what was changed.
LockBooking(c) ==
    /\ pc[c] = "lock"
    /\ IF Frees(c) /\ call[c].seen # "CANCEL_REQUESTED"
       THEN Save(c, [doc[Of(c)] EXCEPT !.status = "CANCEL_REQUESTED"])
       ELSE UNCHANGED <<doc, clobbered>>
    /\ LeaveDesk(c)
    /\ UNCHANGED <<inventory, overdue, supplier, books, amendment, torn, strayed>>

-----------------------------------------------------------------------------
(* approveAmendment *)

Open(m) == amendment[m].status = "PENDING_APPROVAL"

\* The fee is that of the rule, or what the operator enters.
ReadAmendment(c, m) ==
    LET b == amendment[m].booking IN
    /\ pc[c] = "idle"
    /\ Open(m)
    /\ \E step \in {"approve", "reject"}, fee \in {0, Fee} :
         /\ Goto(c, step)
         /\ call' = [call EXCEPT ![c] = [NoCall EXCEPT !.booking = b, !.seen = doc[b].status,
                                           !.fee = IF step = "approve" THEN fee ELSE 0]]
    /\ desk' = [desk EXCEPT ![c] = m]
    /\ torn' = IF \E d \in Calls : At(d) = m THEN torn \cup {m} ELSE torn
    /\ strayed' = IF amendment[m].type = "RESCHEDULE" /\ doc[b].status = "CANCEL_REQUESTED"
                  THEN strayed \cup {b} ELSE strayed
    /\ UNCHANGED <<inventory, doc, overdue, supplier, books, clobbered, amendment>>

\* Of every type, and whether the booking was paid or not.
RefundAmended(c) ==
    /\ pc[c] = "approve"
    /\ Price > call[c].fee
    /\ Charge(Of(c), "refund", Price - call[c].fee)
    /\ amendment' = [amendment EXCEPT ![At(c)].refunds = @ + 1]
    /\ Goto(c, "amendFee")
    /\ UNCHANGED <<inventory, doc, overdue, supplier, refused, clobbered, call,
                   desk, torn, strayed>>

\* The credit throws: the amendment is FAILED, the booking is left as it is.
RefundRefused(c) ==
    /\ pc[c] = "approve"
    /\ Price > call[c].fee
    /\ Decide(c, "FAILED")
    /\ LeaveDesk(c)
    /\ UNCHANGED <<inventory, doc, overdue, supplier, books, clobbered, torn, strayed>>

\* A refused debit is logged and goes unnoticed.
FeeAmended(c) ==
    /\ \/ pc[c] = "amendFee"
       \/ pc[c] = "approve" /\ Price <= call[c].fee
    /\ \/ Charge(Of(c), "fee", call[c].fee)
       \/ call[c].fee > 0 /\ UNCHANGED money
    /\ Goto(c, IF Frees(c) THEN "amendSeats" ELSE "settle")
    /\ UNCHANGED <<inventory, doc, overdue, supplier, refused, clobbered, call,
                   amendmentVars>>

\* $inc of seatsRemaining, before the booking is saved.
ReleaseAmended(c) ==
    /\ pc[c] = "amendSeats"
    /\ Release(Of(c))
    /\ clobbered' = IF doc[Of(c)].status = call[c].seen THEN clobbered
                    ELSE clobbered \cup {Of(c)}
    /\ Goto(c, "amendBooking")
    /\ UNCHANGED <<doc, overdue, supplier, books, call, amendmentVars>>

CancelAmended(c) ==
    /\ pc[c] = "amendBooking"
    /\ SaveAndGo(c, [doc[Of(c)] EXCEPT !.status = "CANCELLED", !.payment = "REFUNDED"], "settle")
    /\ UNCHANGED <<inventory, overdue, supplier, books, amendmentVars>>

SettleAmendment(c) ==
    /\ pc[c] = "settle"
    /\ Decide(c, "COMPLETED")
    /\ LeaveDesk(c)
    /\ UNCHANGED <<inventory, doc, overdue, supplier, books, clobbered, torn, strayed>>

-----------------------------------------------------------------------------
(* rejectAmendment *)

RejectAmendment(c) ==
    /\ pc[c] = "reject"
    /\ Decide(c, "REJECTED")
    /\ IF call[c].seen = "CANCEL_REQUESTED" THEN Goto(c, "rollback") /\ UNCHANGED <<call, desk>>
       ELSE LeaveDesk(c)
    /\ UNCHANGED <<inventory, doc, overdue, supplier, books, clobbered, torn, strayed>>

\* Mutant: the booking goes back to HOLD, ticketed or not.
PriorHold(b) == "HOLD"

\* "Roll the booking back to its prior state": what ticketedAt tells of it.
Prior(b) == IF doc[b].numbered THEN "TICKETED" ELSE "HOLD"

RollBack(c) ==
    /\ pc[c] = "rollback"
    /\ Save(c, [doc[Of(c)] EXCEPT !.status = Prior(Of(c))])
    /\ LeaveDesk(c)
    /\ UNCHANGED <<inventory, overdue, supplier, books, amendment, torn, strayed>>

-----------------------------------------------------------------------------
\* A crash of FlightBooking, in the middle of an amendment.
CrashAtDesk(c) ==
    /\ pc[c] \in AmendmentSteps
    /\ torn' = IF At(c) = None \/ pc[c] = "amend" THEN torn ELSE torn \cup {At(c)}
    /\ LeaveDesk(c)
    /\ UNCHANGED <<inventory, doc, overdue, supplier, books, clobbered, amendment, strayed>>

AmendmentStep(c) ==
    \/ \E m \in Amendments : (\E b \in Bookings : ReadToAmend(c, m, b)) \/ ReadAmendment(c, m)
    \/ CreateAmendment(c) \/ LockBooking(c)
    \/ RefundAmended(c) \/ RefundRefused(c) \/ FeeAmended(c) \/ ReleaseAmended(c)
    \/ CancelAmended(c) \/ SettleAmendment(c)
    \/ RejectAmendment(c) \/ RollBack(c) \/ CrashAtDesk(c)

AmendmentNext ==
    \/ \E b \in Bookings : HoldLapses(b) /\ UNCHANGED amendmentVars
    \/ \E c \in Calls :
         \/ pc[c] \notin AmendmentSteps /\ UNCHANGED amendmentVars
              /\ (\/ Proceed(c) \/ ReadInventory(c) \/ Crash(c)
                  \/ \E b \in Bookings : Start(c, b))
         \/ AmendmentStep(c)

AmendmentSpec == AmendmentInit /\ [][AmendmentNext]_amendedVars

-----------------------------------------------------------------------------
(* Properties *)

\* Beside amendments that are neither torn nor stray no seat is sold twice either:
\* what approveAmendment releases is released by no cancel or sweep, and what
\* rejectAmendment gives back was not released.
AmendedSeatsConserved == strayed = {} /\ torn = {} => SeatsConserved

\* Nothing was overwritten on the booking, and no amendment of it went astray.
Orderly(b) ==
    /\ b \notin clobbered \cup strayed
    /\ \A m \in Amendments : amendment[m].booking = b => m \notin torn

\* A rejected amendment does not let the agency pay again: a booking that was
\* ticketed, and so debited, does not come back as a HOLD that can be confirmed.
AmendedDebitedOnce == \A b \in Bookings : Orderly(b) => money[b].debit <= Price

\* The Amendment document tells the money: a completed one was refunded once, one
\* that is open, FAILED or REJECTED not at all.
AmendmentTellsRefund ==
    \A m \in Amendments \ torn :
        (\A c \in Calls : At(c) # m) =>
            amendment[m].refunds \in
                IF amendment[m].status # "COMPLETED" THEN {0} ELSE IF Fee < Price THEN {1} ELSE {0, 1}

\* The money of an amended booking is told by its documents: one debit, and one
\* refund for a completed amendment.
AmendmentTellsMoney == AmendedDebitedOnce /\ AmendmentTellsRefund

\* The holding state "locks operations until ops resolve the request": while a
\* cancellation is open and the booking orderly, no confirm, cancel or sweep moves
\* it.  (Not so beside a torn amendment of the same booking, whose operator
\* decides over the lock of another.)
LockedUntilDecided ==
    \A m \in Amendments :
        LET b == amendment[m].booking IN
        /\ amendment[m].status = "PENDING_APPROVAL"
        /\ amendment[m].type \in {"CANCEL", "REFUND"}
        /\ Orderly(b)
        /\ \A c \in Calls : At(c) # m
        => doc[b].status = "CANCEL_REQUESTED"
=============================================================================
