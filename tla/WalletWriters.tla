--------------------------- MODULE WalletWriters ---------------------------
(***************************************************************************)
(* The wallet document and the three pieces of code that write it:         *)
(*                                                                         *)
(*   LEDGER     applyLedgerEntry  (services/wallet/ledger.ts)              *)
(*   WATERFALL  applyPayment      (services/wallet/waterfall.service.ts)   *)
(*   SERVICE    applyMutation     (services/payment/wallet.service.ts)     *)
(*                                                                         *)
(* LEDGER and WATERFALL run under the Redis lease of withWalletLock; all   *)
(* three run inside a Mongo transaction and compare-and-set the version of *)
(* the document.  A caller reads a snapshot, decides, stages its writes    *)
(* and commits; a lease may expire and a process may die between any two   *)
(* of these steps.  Amounts are paise, unbounded integers as in the code.  *)
(***************************************************************************)
EXTENDS Integers, Sequences, FiniteSetsExt

CONSTANTS
    Wallets,        \* agencies with a Wallet document
    Callers,        \* concurrent calls, one per caller
    Amounts,        \* positive amounts a call may carry
    Refs,           \* idempotency keys and gateway references
    Writers,        \* which of the three writers are deployed
    CreditModule,   \* wallets of agencies whose module is CREDIT
    Opening,        \* balance of each wallet document at the start
    OpeningCredit,  \* credit outstanding at the start
    None            \* no lease holder, no staged writer, no reference

ASSUME WalletsAssumption ==
    /\ Amounts \subseteq Nat \ {0}
    /\ Writers \subseteq {"LEDGER", "WATERFALL", "SERVICE"}
    /\ CreditModule \subseteq Wallets
    /\ Opening \in [Wallets -> Int]
    /\ OpeningCredit \in [Wallets -> Nat]
    /\ None \notin Callers
    /\ None \notin Refs

VARIABLES
    doc,         \* the committed Wallet documents
    cache,       \* Agency.walletBalance, the legacy copy of the balance
    walletRows,  \* committed WalletTransaction rows of the WALLET bucket
    creditRows,  \* committed WalletTransaction rows of the CREDIT bucket
    settled,     \* committed CreditSettlement rows
    lease,       \* holder of the Redis key wallet:lock:<owner>
    staged,      \* caller whose open transaction wrote the document
    pc, op, snap \* per caller: control point, request, document read

docVars  == <<doc, cache, walletRows, creditRows, settled>>
callVars == <<pc, op, snap>>
vars     == <<docVars, lease, staged, callVars>>

Document == [balance : Int, creditUsed : Nat, version : Nat]
Request  == [via : {"LEDGER", "WATERFALL", "SERVICE"}, wallet : Wallets,
             dir : {"CREDIT", "DEBIT"}, amount : Amounts,
             strict : BOOLEAN, ref : Refs \cup {None}]
WalletRow == [via : {"LEDGER", "WATERFALL", "SERVICE"}, delta : Int,
              after : Int, strict : BOOLEAN, ref : Refs \cup {None}]
CreditRow == [delta : Int, after : Int, ref : Refs \cup {None}]
Settlement == [wallet : Wallets, ref : Refs \cup {None}, amount : Amounts,
               toCredit : Int, toWallet : Int]

Steps == {"idle", "acquire", "begin", "write", "commit", "release", "done"}

TypeOK ==
    /\ doc \in [Wallets -> Document]
    /\ cache \in [Wallets -> Int]
    /\ walletRows \in [Wallets -> Seq(WalletRow)]
    /\ creditRows \in [Wallets -> Seq(CreditRow)]
    /\ settled \subseteq Settlement
    /\ lease \in [Wallets -> Callers \cup {None}]
    /\ staged \in [Wallets -> Callers \cup {None}]
    /\ pc \in [Callers -> Steps]
    /\ op \in [Callers -> Request \cup {None}]
    /\ snap \in [Callers -> Document \cup {None}]
    /\ \A c \in Callers : pc[c] # "idle" => op[c] \in Request
    /\ \A c \in Callers : pc[c] \in {"write", "commit"} => snap[c] \in Document

Init ==
    /\ doc = [w \in Wallets |-> [balance |-> Opening[w],
                                 creditUsed |-> OpeningCredit[w],
                                 version |-> 0]]
    /\ cache = Opening
    /\ walletRows = [w \in Wallets |-> <<>>]
    /\ creditRows = [w \in Wallets |-> <<>>]
    /\ settled = {}
    /\ lease = [w \in Wallets |-> None]
    /\ staged = [w \in Wallets |-> None]
    /\ pc = [c \in Callers |-> "idle"]
    /\ op = [c \in Callers |-> None]
    /\ snap = [c \in Callers |-> None]

-----------------------------------------------------------------------------
(* What a request does to the document it read *)

Least(a, b) == IF a <= b THEN a ELSE b

\* Mutant: the settlement is not capped at what is outstanding.
ToCreditUncapped(o, d) ==
    IF o.via = "WATERFALL" /\ o.wallet \in CreditModule THEN o.amount ELSE 0

\* The waterfall settles outstanding credit first, for CREDIT agencies only.
ToCredit(o, d) ==
    IF o.via = "WATERFALL" /\ o.wallet \in CreditModule
    THEN Least(o.amount, d.creditUsed)
    ELSE 0

\* Mutant: the wallet is topped up with the whole deposit.
ToWalletWhole(o, d) == IF o.dir = "CREDIT" THEN o.amount ELSE -o.amount

\* The change of the balance: what the waterfall leaves for the wallet, or the
\* signed amount of a ledger entry.
ToWallet(o, d) ==
    IF o.via = "WATERFALL" THEN o.amount - ToCredit(o, d)
    ELSE IF o.dir = "CREDIT" THEN o.amount
    ELSE -o.amount

\* Mutant: the legacy copy gets the deposit before the split.
CacheChangeUnsplit(o, d) ==
    IF o.via = "SERVICE" THEN 0
    ELSE IF o.dir = "CREDIT" THEN o.amount ELSE -o.amount

\* Only LEDGER and WATERFALL carry the change over to Agency.walletBalance.
CacheChange(o, d) == IF o.via = "SERVICE" THEN 0 ELSE ToWallet(o, d)

\* Mutant: the check still reads the legacy copy of the balance.
SufficientByCache(o, d) ==
    (o.dir = "DEBIT" /\ o.strict) => cache[o.wallet] >= o.amount

\* A strict debit needs the balance it takes (requireSufficientBalance, or
\* allowNegative unset).
Sufficient(o, d) == (o.dir = "DEBIT" /\ o.strict) => d.balance >= o.amount

\* updateWalletWithVersion runs once per leg.
Legs(o, d) ==
    IF ToCredit(o, d) > 0 /\ ToWallet(o, d) # 0 THEN 2 ELSE 1

\* LEDGER and WATERFALL increment the stored balance; SERVICE overwrites it
\* with the one it computed from its read.
NewDocument(o, d, current) ==
    [balance    |-> IF o.via = "SERVICE" THEN d.balance + ToWallet(o, d)
                    ELSE current.balance + ToWallet(o, d),
     creditUsed |-> current.creditUsed - ToCredit(o, d),
     version    |-> current.version + Legs(o, d)]

\* Mutant: the unique indexes are scoped to the wallet.
RefTakenInWallet(o, d) ==
    /\ o.ref # None
    /\ \/ \E i \in DOMAIN walletRows[o.wallet] :
            LET r == walletRows[o.wallet][i]
            IN ToWallet(o, d) # 0 /\ r.via = o.via /\ r.ref = o.ref
       \/ \E i \in DOMAIN creditRows[o.wallet] :
            ToCredit(o, d) > 0 /\ creditRows[o.wallet][i].ref = o.ref

\* Mutant: txnId is not unique, the idempotency key finds nothing.
RefTakenByPayment(o, d) == o.via = "WATERFALL" /\ RefTakenInWallet(o, d)

\* Unique indexes: txnId (the SERVICE idempotency key), and pgReferenceId with
\* the bucket of the row.
RefTaken(o, d) ==
    /\ o.ref # None
    /\ \E w \in Wallets :
         \/ /\ ToWallet(o, d) # 0
            /\ \E i \in DOMAIN walletRows[w] :
                 walletRows[w][i].via = o.via /\ walletRows[w][i].ref = o.ref
         \/ /\ ToCredit(o, d) > 0
            /\ \E i \in DOMAIN creditRows[w] : creditRows[w][i].ref = o.ref

RefStaged(c) ==
    /\ op[c].ref # None
    /\ \E e \in Callers \ {c} : /\ pc[e] = "commit"
                                /\ op[e].via = op[c].via
                                /\ op[e].ref = op[c].ref

\* A CreditSettlement of this agency for this gateway reference exists.
AlreadySettled(o) == \E s \in settled : s.wallet = o.wallet /\ s.ref = o.ref

-----------------------------------------------------------------------------
(* The calls *)

Goto(c, step) == pc' = [pc EXCEPT ![c] = step]

\* Where a call goes when its transaction is over: SERVICE holds no lease.
Leave(o) == IF o.via = "SERVICE" THEN "done" ELSE "release"

\* Requests the callers of the three services make: ledger entries carry no
\* reference, a gateway deposit always does, and only debits are strict.
WellFormed(o) ==
    /\ o.via \in Writers
    /\ o.via = "LEDGER" => o.ref = None
    /\ o.via = "WATERFALL" => o.ref # None /\ o.dir = "CREDIT"
    /\ o.dir = "CREDIT" => ~o.strict

\* postCredit, postDebit, applyPayment, credit and debit: a settled deposit and
\* a used idempotency key return at once, before any lock or transaction.
Call(c) ==
    /\ pc[c] = "idle"
    /\ \E o \in Request :
         /\ WellFormed(o)
         /\ op' = [op EXCEPT ![c] = o]
         /\ Goto(c, IF \/ o.via = "WATERFALL" /\ AlreadySettled(o)
                       \/ o.via = "SERVICE" /\ RefTaken(o, doc[o.wallet])
                    THEN "done"
                    ELSE IF o.via = "SERVICE" THEN "begin" ELSE "acquire")
    /\ UNCHANGED <<docVars, lease, staged, snap>>

\* SET key token PX ttl NX.
Acquire(c) ==
    /\ pc[c] = "acquire"
    /\ lease[op[c].wallet] = None
    /\ lease' = [lease EXCEPT ![op[c].wallet] = c]
    /\ Goto(c, "begin")
    /\ UNCHANGED <<docVars, staged, op, snap>>

\* The acquire budget ran out while somebody else held the key: LOCK_TIMEOUT.
AcquireTimeout(c) ==
    /\ pc[c] = "acquire"
    /\ lease[op[c].wallet] # None
    /\ Goto(c, "done")
    /\ UNCHANGED <<docVars, lease, staged, op, snap>>

\* The transaction reads its snapshot and the request is checked against it.
Begin(c) ==
    /\ pc[c] = "begin"
    /\ LET d == doc[op[c].wallet] IN
         /\ snap' = [snap EXCEPT ![c] = d]
         /\ Goto(c, IF \/ ~Sufficient(op[c], d)
                       \/ op[c].via = "WATERFALL" /\ AlreadySettled(op[c])
                    THEN Leave(op[c]) ELSE "write")
    /\ UNCHANGED <<docVars, lease, staged, op>>

\* Mutant: the update does not compare the version.
FreshUnchecked(c) == TRUE

\* The version the caller read is still the version of the document.
Fresh(c) == doc[op[c].wallet].version = snap[c].version

\* updateWalletWithVersion and the inserts, invisible until the commit.
Write(c) ==
    /\ pc[c] = "write"
    /\ staged[op[c].wallet] = None
    /\ Fresh(c)
    /\ ~RefTaken(op[c], snap[c])
    /\ ~RefStaged(c)
    /\ staged' = [staged EXCEPT ![op[c].wallet] = c]
    /\ Goto(c, "commit")
    /\ UNCHANGED <<docVars, lease, op, snap>>

\* Another transaction wrote, or is writing, what this one read.
Conflict(c) ==
    \/ staged[op[c].wallet] # None
    \/ ~Fresh(c)
    \/ RefStaged(c)

\* session.withTransaction runs the callback of LEDGER and WATERFALL again.
Retry(c) ==
    /\ pc[c] = "write"
    /\ Conflict(c)
    /\ op[c].via # "SERVICE"
    /\ Goto(c, "begin")
    /\ UNCHANGED <<docVars, lease, staged, op, snap>>

\* Version conflict or E11000: the transaction aborts and the call throws.
Abort(c) ==
    /\ pc[c] = "write"
    /\ Conflict(c) \/ RefTaken(op[c], snap[c])
    /\ Goto(c, Leave(op[c]))
    /\ UNCHANGED <<docVars, lease, staged, op, snap>>

\* One commit publishes the document, the legacy copy, the rows and the
\* settlement snapshot.
Commit(c) ==
    /\ pc[c] = "commit"
    /\ LET o == op[c]
           d == snap[c]
           w == o.wallet
           toWallet == ToWallet(o, d)
           toCredit == ToCredit(o, d)
       IN
         /\ doc' = [doc EXCEPT ![w] = NewDocument(o, d, doc[w])]
         /\ cache' = [cache EXCEPT ![w] = @ + CacheChange(o, d)]
         /\ walletRows' =
              IF toWallet = 0 THEN walletRows
              ELSE [walletRows EXCEPT ![w] =
                      Append(@, [via |-> o.via, delta |-> toWallet,
                                 after |-> d.balance + toWallet,
                                 strict |-> o.strict, ref |-> o.ref])]
         /\ creditRows' =
              IF toCredit = 0 THEN creditRows
              ELSE [creditRows EXCEPT ![w] =
                      Append(@, [delta |-> -toCredit,
                                 after |-> d.creditUsed - toCredit,
                                 ref |-> o.ref])]
         /\ settled' =
              IF o.via # "WATERFALL" THEN settled
              ELSE settled \cup {[wallet |-> w, ref |-> o.ref,
                                  amount |-> o.amount,
                                  toCredit |-> toCredit,
                                  toWallet |-> toWallet]}
         /\ staged' = [staged EXCEPT ![w] = None]
    /\ Goto(c, Leave(op[c]))
    /\ UNCHANGED <<lease, op, snap>>

\* Mutant: DEL whatever token the key holds.
ReleaseBlindly(c) ==
    /\ pc[c] = "release"
    /\ lease' = [lease EXCEPT ![op[c].wallet] = None]
    /\ Goto(c, "done")
    /\ UNCHANGED <<docVars, staged, op, snap>>

\* The Lua compare-and-delete: the key goes only when it holds our token.
Release(c) ==
    /\ pc[c] = "release"
    /\ lease' = [lease EXCEPT ![op[c].wallet] = IF @ = c THEN None ELSE @]
    /\ Goto(c, "done")
    /\ UNCHANGED <<docVars, staged, op, snap>>

\* Redis is unreachable at release time; the error is swallowed.
ReleaseFails(c) ==
    /\ pc[c] = "release"
    /\ Goto(c, "done")
    /\ UNCHANGED <<docVars, lease, staged, op, snap>>

\* The process dies: its transaction is rolled back, its lease stays.
Crash(c) ==
    /\ pc[c] \notin {"idle", "done"}
    /\ staged' = [w \in Wallets |-> IF staged[w] = c THEN None ELSE staged[w]]
    /\ Goto(c, "done")
    /\ UNCHANGED <<docVars, lease, op, snap>>

\* Mutant: the key is set without a time to live.
LeaseNeverExpires(w) == FALSE /\ UNCHANGED vars

\* PX ttl: Redis drops the key, whoever holds it and whatever it still does.
LeaseExpires(w) ==
    /\ lease[w] # None
    /\ lease' = [lease EXCEPT ![w] = None]
    /\ UNCHANGED <<docVars, staged, callVars>>

\* The steps a live process takes by itself.
Proceed(c) ==
    \/ Acquire(c) \/ AcquireTimeout(c)
    \/ Begin(c) \/ Write(c) \/ Retry(c) \/ Abort(c) \/ Commit(c)
    \/ Release(c) \/ ReleaseFails(c)

Next ==
    \/ \E c \in Callers : Call(c) \/ Proceed(c) \/ Crash(c)
    \/ \E w \in Wallets : LeaseExpires(w)

Spec == Init /\ [][Next]_vars

\* Processes are scheduled and Redis expires its keys; nothing makes a call
\* arrive or a process crash.
FairSpec ==
    /\ Spec
    /\ \A c \in Callers : WF_vars(Proceed(c))
    /\ \A w \in Wallets : WF_vars(LeaseExpires(w))

-----------------------------------------------------------------------------
(* Safety *)

\* Every row continues from the row before it, and the last one ends at the
\* stored amount.
Chained(start, rows, stored) ==
    /\ \A i \in DOMAIN rows :
         rows[i].after =
             (IF i = 1 THEN start ELSE rows[i - 1].after) + rows[i].delta
    /\ stored = IF Len(rows) = 0 THEN start ELSE rows[Len(rows)].after

\* The committed rows explain the stored balance: no writer lost the update of
\* another, even when a lease expired under it.  The nightly integrity check
\* looks for the opposite.
LedgerExplainsBalance ==
    \A w \in Wallets : Chained(Opening[w], walletRows[w], doc[w].balance)

\* The same for the CREDIT bucket: settlements take the outstanding credit down
\* step by step, never below zero.
LedgerExplainsCredit ==
    \A w \in Wallets :
        /\ Chained(OpeningCredit[w], creditRows[w], doc[w].creditUsed)
        /\ \A i \in DOMAIN creditRows[w] : creditRows[w][i].after >= 0

\* Both buckets of a document are the sum of the rows that were committed.
LedgerExplainsDocument == LedgerExplainsBalance /\ LedgerExplainsCredit

\* A debit that must be covered never takes the balance below zero, whatever
\* was committed between its read and its commit (INSUFFICIENT_WALLET).
StrictDebitsCovered ==
    \A w \in Wallets : \A i \in DOMAIN walletRows[w] :
        LET r == walletRows[w][i] IN
            r.strict /\ r.delta < 0 => r.after >= 0

\* A gateway reference or idempotency key posts at most one row per bucket,
\* in any wallet, however many deliveries race.
ReferencePostsOnce ==
    \A w1, w2 \in Wallets :
        /\ \A i \in DOMAIN walletRows[w1], j \in DOMAIN walletRows[w2] :
             LET r == walletRows[w1][i]
                 s == walletRows[w2][j]
             IN r.ref # None /\ r.ref = s.ref /\ r.via = s.via
                    => w1 = w2 /\ i = j
        /\ \A i \in DOMAIN creditRows[w1], j \in DOMAIN creditRows[w2] :
             creditRows[w1][i].ref = creditRows[w2][j].ref => w1 = w2 /\ i = j

\* The deposit a settlement snapshot describes is on the ledger, in full, and
\* there is one snapshot per deposit.
SettlementsBacked ==
    \A s \in settled :
        /\ s.toCredit + s.toWallet = s.amount
        /\ s.toCredit > 0 => \E i \in DOMAIN creditRows[s.wallet] :
              /\ creditRows[s.wallet][i].ref = s.ref
              /\ creditRows[s.wallet][i].delta = -s.toCredit
        /\ s.toWallet > 0 => \E i \in DOMAIN walletRows[s.wallet] :
              /\ walletRows[s.wallet][i].via = "WATERFALL"
              /\ walletRows[s.wallet][i].ref = s.ref
              /\ walletRows[s.wallet][i].delta = s.toWallet
        /\ \A t \in settled :
              t.wallet = s.wallet /\ t.ref = s.ref => t = s

\* What the rows say WalletService has posted.
ServiceRows(rows) == {i \in DOMAIN rows : rows[i].via = "SERVICE"}
ServicePosted(rows) == MapThenSumSet(LAMBDA i : rows[i].delta, ServiceRows(rows))

\* The legacy copy follows the wallet document (the dual write of ledger.ts),
\* and stays behind it by exactly what WalletService posted, which never
\* writes it: LEDGER and WATERFALL neither repair that drift nor add to it.
CacheAgrees ==
    \A w \in Wallets : doc[w].balance - cache[w] = ServicePosted(walletRows[w])

\* Only the holder, on its way out, or Redis takes a lease away: a caller that
\* outran its lease does not free the lease of the caller that followed it.
OnlyHolderReleases ==
    [][\A w \in Wallets, c \in Callers :
          lease[w] = c /\ lease'[w] # c
              => \/ pc[c] = "release" /\ pc'[c] = "done"
                 \/ LeaseExpires(w)]_vars

-----------------------------------------------------------------------------
(* Liveness, under FairSpec *)

\* Every call returns to its caller, with a result or an error.
CallsReturn == \A c \in Callers : pc[c] # "idle" ~> pc[c] = "done"

\* A lease is never parked for good, not even by a crashed process.
LeasesAreFreed == \A w \in Wallets : lease[w] # None ~> lease[w] = None

\* Nobody waits for ever: what the lease, its expiry and the bounded retries are for.
CallsAndLeasesEnd == CallsReturn /\ LeasesAreFreed

-----------------------------------------------------------------------------
(* The concurrent writers implement a ledger that posts one entry at a time. *)

Sequential ==
    INSTANCE AtomicWallet
        WITH balance <- [w \in Wallets |-> doc[w].balance],
             credit  <- [w \in Wallets |-> doc[w].creditUsed],
             rows    <- walletRows

\* Every commit is one sequential posting, decided on the balance it changes.
ImplementsAtomicWallet == Sequential!Spec
=============================================================================
