---------------------------- MODULE WalletDesk -----------------------------
(***************************************************************************)
(* What the back-office services of services/wallet share: the wallet of   *)
(* an agency and that of its distributor, and the requests and worker runs *)
(* (clerks) that read a document, post to a wallet and save the document.  *)
(* A posting is one atomic step, or throws (ledger.ts; WalletWriters has   *)
(* its detail).  One document is about one unit of money.                  *)
(*                                                                         *)
(* History: torn holds the documents that do not tell what was posted (a   *)
(* clerk ended, or failed to save, between the two, or decided about what  *)
(* another had decided); stranded is money that left one wallet and never  *)
(* reached another (logged as MANUAL RECONCILIATION REQUIRED, or a crash); *)
(* external is what came from outside the two wallets, less what went.     *)
(***************************************************************************)
EXTENDS Integers, FiniteSets

CONSTANTS
    Requests,    \* top-up requests and manual adjustments
    Transfers,   \* DistributorTransfer documents of type TRANSFER
    Deposits,    \* gateway deposits of the agency
    Products,    \* holidays, visas and hotels booked in one request
    Keyed,       \* transfers of WalletService, by idempotency key
    Clerks,      \* requests and jobs that may be under way together
    Opening,     \* balance of each wallet at the start
    None

Documents == Requests \cup Transfers \cup Deposits \cup Products \cup Keyed
Wallets == {"agency", "distributor"}

ASSUME DeskAssumption ==
    /\ IsFiniteSet(Clerks)
    /\ Opening \in Nat
    /\ Requests \cap Transfers = {} /\ (Requests \cup Transfers) \cap Deposits = {}
    /\ (Requests \cup Transfers \cup Deposits) \cap (Products \cup Keyed) = {}
    /\ Products \cap Keyed = {}
    /\ None \notin Documents \cup Clerks

VARIABLES balance, external, stranded, torn, pc, call

money == <<balance, external, stranded>>
deskVars == <<money, torn, pc, call>>

Steps == {"idle", "post", "saveRequest", "dismiss",
          "approve", "reject", "recall", "out", "in", "back", "complete", "reverse", "fail",
          "check", "incentive", "tds",
          "pay", "bookFailed", "voucher", "refundProduct", "cancelProduct",
          "keyedOut", "keyedIn", "link", "keyedBack"}

Call == [doc : Documents \cup {None},
         recall : BOOLEAN,    \* its legs run from the agency to the distributor
         stale : BOOLEAN]     \* another clerk has decided since it read the document

NoCall == [doc |-> None, recall |-> FALSE, stale |-> FALSE]

DeskTypeOK ==
    /\ balance \in [Wallets -> Int] /\ external \in Int /\ stranded \in Nat
    /\ torn \subseteq Documents
    /\ pc \in [Clerks -> Steps]
    /\ call \in [Clerks -> Call]

DeskInit ==
    /\ balance = [w \in Wallets |-> Opening]
    /\ external = 0 /\ stranded = 0
    /\ torn = {}
    /\ pc = [c \in Clerks |-> "idle"]
    /\ call = [c \in Clerks |-> NoCall]

-----------------------------------------------------------------------------
Doc(c) == call[c].doc

Goto(c, step) == pc' = [pc EXCEPT ![c] = step]

Take(c, doc, step) ==
    /\ call' = [call EXCEPT ![c] = [NoCall EXCEPT !.doc = doc]]
    /\ Goto(c, step)

Leave(c) ==
    /\ Goto(c, "idle")
    /\ call' = [call EXCEPT ![c] = NoCall]

\* Clerk c decides about its document: what others have read of it is stale.
Decided(c, memory) ==
    [d \in Clerks |-> IF d = c THEN memory
                      ELSE IF Doc(d) = Doc(c) THEN [call[d] EXCEPT !.stale = TRUE] ELSE call[d]]

TornIfStale(c) == torn' = IF call[c].stale THEN torn \cup {Doc(c)} ELSE torn

\* postCredit, and postDebit with requireSufficientBalance: false.
Post(w, amount) == balance' = [balance EXCEPT ![w] = @ + amount]

PostExternal(w, amount) == Post(w, amount) /\ external' = external + amount

Quiet(doc) == \A c \in Clerks : Doc(c) # doc
=============================================================================
