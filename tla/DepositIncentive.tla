------------------------- MODULE DepositIncentive --------------------------
(***************************************************************************)
(* The incentive on a gateway deposit of a DI agency                       *)
(* (services/wallet/waterfall.service.ts, di-incentive.service.ts,         *)
(* queues/di-incentive.worker.ts): a job credits it and debits the tax on  *)
(* it, up to MaxAttempts times.                                            *)
(***************************************************************************)
EXTENDS WalletDesk

CONSTANTS
    Incentive, Tds,   \* incentivePaise and tdsPaise that computeIncentive answers
    MaxAttempts       \* attempts of a BullMQ job

ASSUME IncentiveAssumption ==
    /\ Incentive \in Nat /\ Tds \in Nat
    /\ MaxAttempts \in Nat

VARIABLES
    job,                \* the incentive job of a deposit
    credited,           \* its INCENTIVE_CREDIT postings
    taxed,              \* sum of its TDS_DEDUCT postings
    overlapped,         \* deposits whose job was taken for stalled while it ran
    untaxed             \* deposits with a credit whose tax posting failed

incentiveVars == <<job, credited, taxed, overlapped, untaxed>>

JobStates == {"none", "lost", "queued", "active", "done", "failed"}

IncentiveTypeOK ==
    /\ job \in [Deposits -> [state : JobStates, attempts : Nat, stalled : BOOLEAN]]
    /\ credited \in [Deposits -> Nat] /\ taxed \in [Deposits -> Nat]
    /\ overlapped \subseteq Deposits /\ untaxed \subseteq Deposits

IncentiveInit ==
    /\ job = [d \in Deposits |-> [state |-> "none", attempts |-> 0, stalled |-> FALSE]]
    /\ credited = [d \in Deposits |-> 0] /\ taxed = [d \in Deposits |-> 0]
    /\ overlapped = {} /\ untaxed = {}

-----------------------------------------------------------------------------
(* applyPayment, maybeEnqueueDiIncentive *)

\* The deposit stands also when its job cannot be added to the queue.
ApplyDeposit(d) ==
    /\ job[d].state = "none"
    /\ PostExternal("agency", 1)
    /\ \E state \in {"queued", "lost"} : job' = [job EXCEPT ![d].state = state]
    /\ UNCHANGED <<stranded, torn, pc, call, credited, taxed, overlapped, untaxed>>

-----------------------------------------------------------------------------
(* diIncentiveProcessor, applyIncentive *)

PickUp(c, d) ==
    /\ pc[c] = "idle"
    /\ job[d].state = "queued"
    /\ job' = [job EXCEPT ![d].state = "active", ![d].attempts = @ + 1]
    /\ Take(c, d, "check")
    /\ UNCHANGED <<money, torn, credited, taxed, overlapped, untaxed>>

\* A worker whose job was taken for stalled has lost the job's lock.
Settle(c, state) ==
    /\ job' = IF call[c].stale THEN job ELSE [job EXCEPT ![Doc(c)].state = state]
    /\ Leave(c)

Finish(c) == Settle(c, "done")

\* The processor throws: BullMQ tries again, or gives up.
Retry(c) == Settle(c, IF job[Doc(c)].attempts < MaxAttempts THEN "queued" ELSE "failed")

\* The lock of an active job lapses: its worker died, or is late.  Once it runs
\* again, the second time it fails.
StallJob(d) ==
    /\ job[d].state = "active"
    /\ job' = [job EXCEPT ![d].state = IF job[d].stalled THEN "failed" ELSE "queued",
                          ![d].stalled = TRUE]
    /\ overlapped' = IF Quiet(d) THEN overlapped ELSE overlapped \cup {d}
    /\ call' = [c \in Clerks |-> [call[c] EXCEPT !.stale = @ \/ Doc(c) = d]]
    /\ UNCHANGED <<money, torn, pc, credited, taxed, untaxed>>

\* Mutant: the retry does not look for the credit of an earlier attempt.
ExistingNever(d) == FALSE

Existing(d) == credited[d] > 0

\* An existing credit, another module, no config or a skip ends the job.
CheckExisting(c) ==
    /\ pc[c] = "check"
    /\ \/ Finish(c)
       \/ ~Existing(Doc(c)) /\ Goto(c, "incentive") /\ UNCHANGED <<job, call>>
       \/ Retry(c)
    /\ UNCHANGED <<money, torn, credited, taxed, overlapped, untaxed>>

CreditIncentive(c) ==
    /\ pc[c] = "incentive"
    /\ \/ /\ PostExternal("agency", Incentive)
          /\ credited' = [credited EXCEPT ![Doc(c)] = @ + 1]
          /\ Goto(c, "tds")
          /\ UNCHANGED <<job, call>>
       \/ Retry(c) /\ UNCHANGED <<balance, external, credited>>
    /\ UNCHANGED <<stranded, torn, taxed, overlapped, untaxed>>

\* The debit of the tax may go below zero.  A retry finds the credit and does not
\* come here again.
DeductTds(c) ==
    LET d == Doc(c) IN
    /\ pc[c] = "tds"
    /\ \/ /\ PostExternal("agency", -Tds)
          /\ taxed' = [taxed EXCEPT ![d] = @ + Tds]
          /\ Finish(c)
          /\ UNCHANGED untaxed
       \/ /\ Retry(c)
          /\ untaxed' = untaxed \cup {d}
          /\ UNCHANGED <<balance, external, taxed>>
    /\ UNCHANGED <<stranded, torn, credited, overlapped>>

-----------------------------------------------------------------------------
IncentiveNext ==
    \/ \E d \in Deposits : ApplyDeposit(d) \/ StallJob(d)
    \/ \E c \in Clerks :
         \/ \E d \in Deposits : PickUp(c, d)
         \/ CheckExisting(c) \/ CreditIncentive(c) \/ DeductTds(c)

-----------------------------------------------------------------------------
(* Properties *)

\* "A second call (e.g. BullMQ retry) finds the pre-existing INCENTIVE_CREDIT row":
\* through retries and crashes a deposit has one incentive, unless two runs of its
\* job overlap.
IncentiveOnce == \A d \in Deposits \ overlapped : credited[d] <= 1

\* "The platform always honors a posted incentive net of TDS": once no run is under
\* way, tax was withheld from each credit, unless its posting failed or never came.
IncentiveIsTaxed ==
    \A d \in Deposits \ (untaxed \cup torn) :
        Quiet(d) => taxed[d] = Tds * credited[d]

\* Whatever becomes of its job, a deposit earns one incentive, net of tax.
IncentiveOnceNetOfTax == IncentiveOnce /\ IncentiveIsTaxed
=============================================================================
