------------------------ MODULE WalletWritersProofs ------------------------
(***************************************************************************)
(* Theorems about WalletWriters, for any number of wallets, callers,       *)
(* amounts and references.  They rest on one inductive invariant: only one *)
(* open transaction has written a wallet document, and it has read the     *)
(* document it is about to replace.  On top of it, RefInv tells about the  *)
(* references: an idempotency key or gateway reference posts once, a       *)
(* settlement tells what was posted, and every commit is one posting of    *)
(* the sequential ledger of AtomicWallet.                                  *)
(***************************************************************************)
EXTENDS WalletWriters, SetSums

-----------------------------------------------------------------------------
(* The inductive invariant *)

\* A document is staged by the caller that is about to commit it.
StagedByCommitter ==
    \A w \in Wallets :
        staged[w] # None => /\ staged[w] \in Callers
                            /\ pc[staged[w]] = "commit"
                            /\ op[staged[w]].wallet = w

\* A caller about to commit staged its document, which is the one it read.
CommitterIsFresh ==
    \A c \in Callers :
        pc[c] = "commit" => /\ staged[op[c].wallet] = c
                            /\ snap[c] = doc[op[c].wallet]

\* Documents only move to higher versions, so equal versions are one document.
VersionsIdentify ==
    \A c \in Callers :
        pc[c] = "write" =>
            /\ snap[c].version <= doc[op[c].wallet].version
            /\ snap[c].version = doc[op[c].wallet].version
                  => snap[c] = doc[op[c].wallet]

\* What a caller checked at its read holds of the document it read.
CheckedAtRead ==
    \A c \in Callers :
        pc[c] \in {"write", "commit"} => Sufficient(op[c], snap[c])

IInv ==
    /\ TypeOK
    /\ StagedByCommitter
    /\ CommitterIsFresh
    /\ VersionsIdentify
    /\ CheckedAtRead

-----------------------------------------------------------------------------
(* Lemmas about the operators *)

\* The credit part of a deposit is covered by the outstanding credit and by
\* the deposit; an entry that is not a deposit moves the balance only.
LEMMA SplitFacts ==
    ASSUME NEW o \in Request, NEW d \in Document
    PROVE  /\ ToCredit(o, d) \in Nat
           /\ ToCredit(o, d) <= d.creditUsed
           /\ ToCredit(o, d) <= o.amount
           /\ ToWallet(o, d) \in Int
           /\ o.via = "WATERFALL" => ToWallet(o, d) = o.amount - ToCredit(o, d)
           /\ o.via # "WATERFALL" => ToCredit(o, d) = 0
           /\ Legs(o, d) \in {1, 2}
           /\ CacheChange(o, d) \in Int
<1> USE WalletsAssumption
<1>1. o.amount \in Nat /\ d.creditUsed \in Nat
  BY DEF Request, Document
<1>2. /\ ToCredit(o, d) \in Nat
      /\ ToCredit(o, d) <= d.creditUsed
      /\ ToCredit(o, d) <= o.amount
  BY <1>1 DEF ToCredit, Least
<1>3. ToWallet(o, d) \in Int
  BY <1>1, <1>2 DEF ToWallet
<1>4. /\ o.via = "WATERFALL" => ToWallet(o, d) = o.amount - ToCredit(o, d)
      /\ o.via # "WATERFALL" => ToCredit(o, d) = 0
  BY DEF ToWallet, ToCredit
<1>5. Legs(o, d) \in {1, 2} /\ CacheChange(o, d) \in Int
  BY <1>3 DEF Legs, CacheChange
<1> QED
  BY <1>2, <1>3, <1>4, <1>5

\* The document a commit publishes over the one it read is a document again,
\* with a higher version and a balance moved by the part meant for the wallet.
LEMMA NewDocumentFacts ==
    ASSUME NEW o \in Request, NEW d \in Document
    PROVE  /\ NewDocument(o, d, d) \in Document
           /\ NewDocument(o, d, d).version > d.version
           /\ NewDocument(o, d, d).balance = d.balance + ToWallet(o, d)
           /\ NewDocument(o, d, d).creditUsed = d.creditUsed - ToCredit(o, d)
<1>1. /\ ToCredit(o, d) \in Nat
      /\ ToCredit(o, d) <= d.creditUsed
      /\ ToWallet(o, d) \in Int
      /\ Legs(o, d) \in {1, 2}
  BY SplitFacts
<1>2. d.balance \in Int /\ d.creditUsed \in Nat /\ d.version \in Nat
  BY DEF Document
<1>3. NewDocument(o, d, d) = [balance |-> d.balance + ToWallet(o, d),
                              creditUsed |-> d.creditUsed - ToCredit(o, d),
                              version |-> d.version + Legs(o, d)]
  BY DEF NewDocument
<1> QED
  BY <1>1, <1>2, <1>3 DEF Document

-----------------------------------------------------------------------------
(* The invariant holds initially *)

LEMMA InitIInv == Init => IInv
<1> SUFFICES ASSUME Init PROVE IInv
  OBVIOUS
<1> USE WalletsAssumption DEF Init
<1>1. TypeOK
  BY DEF TypeOK, Document, Steps
<1>2. StagedByCommitter /\ CommitterIsFresh /\ VersionsIdentify /\ CheckedAtRead
  BY DEF StagedByCommitter, CommitterIsFresh, VersionsIdentify, CheckedAtRead
<1> QED
  BY <1>1, <1>2 DEF IInv

-----------------------------------------------------------------------------
(* The invariant is inductive *)

\* Steps that only move a caller to a point outside its transaction, keep the
\* documents, and take back nothing but what that caller had staged.
LEMMA StepOutside ==
    ASSUME IInv, NEW c \in Callers, pc[c] # "idle",
           NEW step \in {"acquire", "begin", "release", "done"},
           Goto(c, step), UNCHANGED <<docVars, op, snap>>,
           lease' \in [Wallets -> Callers \cup {None}],
           \/ pc[c] # "commit" /\ UNCHANGED staged
           \/ staged' = [w \in Wallets |-> IF staged[w] = c THEN None ELSE staged[w]]
    PROVE  IInv'
<1> USE WalletsAssumption DEF docVars, Goto
<1>1. TypeOK'
  BY DEF IInv, TypeOK, Steps
<1>2. StagedByCommitter'
  BY SMTT(30) DEF IInv, TypeOK, StagedByCommitter
<1>3. CommitterIsFresh'
  BY DEF IInv, TypeOK, StagedByCommitter, CommitterIsFresh, Request
<1>4. VersionsIdentify'
  BY DEF IInv, TypeOK, VersionsIdentify
<1>5. CheckedAtRead'
  BY DEF IInv, TypeOK, CheckedAtRead, Sufficient
<1> QED
  BY <1>1, <1>2, <1>3, <1>4, <1>5 DEF IInv

LEMMA NextIInv == IInv /\ [Next]_vars => IInv'
<1> SUFFICES ASSUME IInv, [Next]_vars PROVE IInv'
  OBVIOUS
<1> USE WalletsAssumption
<1>0. /\ TypeOK /\ StagedByCommitter /\ CommitterIsFresh
      /\ VersionsIdentify /\ CheckedAtRead
  BY DEF IInv
<1>1. ASSUME NEW c \in Callers, Call(c) PROVE IInv'
  <2> USE <1>0, <1>1 DEF Call, docVars
  <2>1. PICK o \in Request, step \in {"done", "begin", "acquire"} :
           op' = [op EXCEPT ![c] = o] /\ Goto(c, step)
    OBVIOUS
  <2>2. TypeOK'
    BY <2>1 DEF TypeOK, Goto, Steps
  <2>3. (StagedByCommitter /\ CommitterIsFresh)'
    BY <2>1 DEF TypeOK, StagedByCommitter, CommitterIsFresh, Goto
  <2>4. (VersionsIdentify /\ CheckedAtRead)'
    BY <2>1 DEF TypeOK, VersionsIdentify, CheckedAtRead, Goto, Sufficient
  <2> QED
    BY <2>2, <2>3, <2>4 DEF IInv
<1>2. ASSUME NEW c \in Callers, Acquire(c) PROVE IInv'
  <2>1. lease' \in [Wallets -> Callers \cup {None}]
    BY <1>0, <1>2 DEF Acquire, TypeOK
  <2> QED
    BY <1>2, <2>1, StepOutside DEF Acquire
<1>3. ASSUME NEW c \in Callers, AcquireTimeout(c) PROVE IInv'
  BY <1>0, <1>3, StepOutside DEF AcquireTimeout, TypeOK
<1>4. ASSUME NEW c \in Callers, Begin(c) PROVE IInv'
  <2> USE <1>0, <1>4 DEF Begin, docVars
  <2>1. PICK step \in {"release", "done", "write"} :
           /\ Goto(c, step)
           /\ step = "write" => Sufficient(op[c], doc[op[c].wallet])
    BY DEF Leave
  <2>2. /\ op[c].wallet \in Wallets
        /\ doc[op[c].wallet] \in Document
        /\ snap' = [snap EXCEPT ![c] = doc[op[c].wallet]]
    BY DEF TypeOK, Request
  <2>3. TypeOK'
    BY <2>1, <2>2 DEF TypeOK, Goto, Steps
  <2>4. (StagedByCommitter /\ CommitterIsFresh)'
    BY <2>1, <2>2 DEF TypeOK, StagedByCommitter, CommitterIsFresh, Goto
  <2>5. VersionsIdentify'
    BY <2>1, <2>2 DEF TypeOK, VersionsIdentify, Goto, Document
  <2>6. CheckedAtRead'
    BY <2>1, <2>2 DEF TypeOK, CheckedAtRead, Goto, Sufficient
  <2> QED
    BY <2>3, <2>4, <2>5, <2>6 DEF IInv
<1>5. ASSUME NEW c \in Callers, Write(c) PROVE IInv'
  <2> USE <1>0, <1>5 DEF Write, docVars, Goto
  <2>1. op[c].wallet \in Wallets /\ snap[c] = doc[op[c].wallet]
    BY DEF TypeOK, Request, VersionsIdentify, Fresh
  <2>2. TypeOK'
    BY <2>1 DEF TypeOK, Steps
  <2>3. StagedByCommitter'
    BY <2>1 DEF TypeOK, StagedByCommitter
  <2>4. CommitterIsFresh'
    BY <2>1 DEF TypeOK, CommitterIsFresh
  <2>5. (VersionsIdentify /\ CheckedAtRead)'
    BY DEF TypeOK, VersionsIdentify, CheckedAtRead, Sufficient
  <2> QED
    BY <2>2, <2>3, <2>4, <2>5 DEF IInv
<1>6. ASSUME NEW c \in Callers, Retry(c) PROVE IInv'
  BY <1>0, <1>6, StepOutside DEF Retry, TypeOK
<1>7. ASSUME NEW c \in Callers, Abort(c) PROVE IInv'
  BY <1>0, <1>7, StepOutside DEF Abort, Leave, TypeOK
<1>8. ASSUME NEW c \in Callers, Commit(c) PROVE IInv'
  <2> DEFINE o == op[c]
             w == op[c].wallet
             d == snap[c]
  <2>1. /\ o \in Request /\ w \in Wallets /\ d \in Document
        /\ d = doc[w] /\ staged[w] = c /\ pc[c] = "commit"
    BY <1>0, <1>8 DEF Commit, TypeOK, Request, CommitterIsFresh
  <2>2. /\ doc' = [doc EXCEPT ![w] = NewDocument(o, d, d)]
        /\ staged' = [staged EXCEPT ![w] = None]
        /\ pc' = [pc EXCEPT ![c] = Leave(o)]
        /\ UNCHANGED <<lease, op, snap>>
    BY <1>8, <2>1 DEF Commit, Goto
  <2>3. /\ NewDocument(o, d, d) \in Document
        /\ NewDocument(o, d, d).version > d.version
    BY <2>1, NewDocumentFacts
  <2>4. Leave(o) \in {"done", "release"}
    BY DEF Leave
  <2>5. TypeOK'
    <3>1. /\ doc' \in [Wallets -> Document]
          /\ lease' \in [Wallets -> Callers \cup {None}]
          /\ staged' \in [Wallets -> Callers \cup {None}]
          /\ pc' \in [Callers -> Steps]
          /\ op' \in [Callers -> Request \cup {None}]
          /\ snap' \in [Callers -> Document \cup {None}]
          /\ \A e \in Callers : pc'[e] # "idle" => op'[e] \in Request
          /\ \A e \in Callers : pc'[e] \in {"write", "commit"} => snap'[e] \in Document
      BY <1>0, <2>1, <2>2, <2>3, <2>4 DEF TypeOK, Steps
    <3>2. /\ ToCredit(o, d) \in Nat /\ ToCredit(o, d) <= d.creditUsed
          /\ ToWallet(o, d) \in Int /\ CacheChange(o, d) \in Int
          /\ d.balance \in Int /\ d.creditUsed \in Nat
      BY <2>1, SplitFacts DEF Document
    <3>3. cache' \in [Wallets -> Int]
      <4>1. cache' = [cache EXCEPT ![w] = @ + CacheChange(o, d)]
        BY <1>8 DEF Commit
      <4>2. cache \in [Wallets -> Int] /\ w \in Wallets
        BY <1>0, <2>1 DEF TypeOK
      <4>3. cache[w] + CacheChange(o, d) \in Int
        BY <4>2, <3>2
      <4> QED
        BY <4>1, <4>2, <4>3
    <3>4. walletRows' \in [Wallets -> Seq(WalletRow)]
      <4> DEFINE row == [via |-> o.via, delta |-> ToWallet(o, d),
                         after |-> d.balance + ToWallet(o, d),
                         strict |-> o.strict, ref |-> o.ref]
      <4>1. row \in WalletRow
        BY <2>1, <3>2 DEF WalletRow, Request
      <4>2. Append(walletRows[w], row) \in Seq(WalletRow)
        BY <1>0, <2>1, <4>1 DEF TypeOK
      <4>3. \/ walletRows' = walletRows
            \/ walletRows' = [walletRows EXCEPT ![w] = Append(walletRows[w], row)]
        BY <1>8 DEF Commit
      <4> QED
        BY ZenonT(40), <1>0, <2>1, <4>2, <4>3 DEF TypeOK
    <3>5. creditRows' \in [Wallets -> Seq(CreditRow)]
      <4> DEFINE row == [delta |-> -ToCredit(o, d),
                         after |-> d.creditUsed - ToCredit(o, d), ref |-> o.ref]
      <4>1. row \in CreditRow
        BY <2>1, <3>2 DEF CreditRow, Request
      <4>2. Append(creditRows[w], row) \in Seq(CreditRow)
        BY <1>0, <2>1, <4>1 DEF TypeOK
      <4>3. \/ creditRows' = creditRows
            \/ creditRows' = [creditRows EXCEPT ![w] = Append(creditRows[w], row)]
        BY <1>8 DEF Commit
      <4> QED
        BY <1>0, <2>1, <4>2, <4>3 DEF TypeOK
    <3>6. settled' \subseteq Settlement
      <4> DEFINE row == [wallet |-> w, ref |-> o.ref, amount |-> o.amount,
                         toCredit |-> ToCredit(o, d), toWallet |-> ToWallet(o, d)]
      <4>1. row \in Settlement
        BY <2>1, <3>2 DEF Settlement, Request
      <4>2. settled' = settled \/ settled' = settled \cup {row}
        BY <1>8 DEF Commit
      <4> QED
        BY <1>0, <4>1, <4>2 DEF TypeOK
    <3> QED
      BY <3>1, <3>3, <3>4, <3>5, <3>6 DEF TypeOK
  <2>6. StagedByCommitter'
    BY <1>0, <2>1, <2>2 DEF StagedByCommitter, TypeOK
  <2>7. CommitterIsFresh'
    BY <1>0, <2>1, <2>2, <2>4 DEF CommitterIsFresh, TypeOK
  <2>8. VersionsIdentify'
    <3> SUFFICES ASSUME NEW e \in Callers, pc'[e] = "write"
                 PROVE  /\ snap[e].version <= doc'[op[e].wallet].version
                        /\ snap[e].version = doc'[op[e].wallet].version
                              => snap[e] = doc'[op[e].wallet]
      BY <2>2 DEF VersionsIdentify
    <3>1. pc[e] = "write" /\ op[e].wallet \in Wallets /\ snap[e] \in Document
      BY <1>0, <2>1, <2>2, <2>4 DEF TypeOK, Request
    <3>2. /\ snap[e].version <= doc[op[e].wallet].version
          /\ snap[e].version = doc[op[e].wallet].version
                => snap[e] = doc[op[e].wallet]
      BY <1>0, <3>1 DEF VersionsIdentify
    <3>3. CASE op[e].wallet = w
      <4>1. doc'[w] = NewDocument(o, d, d) /\ doc[w] = d
        BY <1>0, <2>1, <2>2 DEF TypeOK
      <4>2. /\ snap[e].version \in Nat /\ d.version \in Nat
            /\ NewDocument(o, d, d).version \in Nat
        BY <2>1, <2>3, <3>1 DEF Document
      <4> QED
        BY <2>3, <3>2, <3>3, <4>1, <4>2
    <3>4. CASE op[e].wallet # w
      BY <1>0, <2>2, <3>1, <3>2, <3>4 DEF TypeOK
    <3> QED
      BY <3>3, <3>4
  <2>9. CheckedAtRead'
    BY <1>0, <2>1, <2>2, <2>4 DEF CheckedAtRead, Sufficient, TypeOK
  <2> QED
    BY <2>5, <2>6, <2>7, <2>8, <2>9 DEF IInv
<1>9. ASSUME NEW c \in Callers, Release(c) PROVE IInv'
  <2>1. lease' \in [Wallets -> Callers \cup {None}]
    BY <1>0, <1>9 DEF Release, TypeOK
  <2> QED
    BY <1>9, <2>1, StepOutside DEF Release
<1>10. ASSUME NEW c \in Callers, ReleaseFails(c) PROVE IInv'
  BY <1>0, <1>10, StepOutside DEF ReleaseFails, TypeOK
<1>11. ASSUME NEW c \in Callers, Crash(c) PROVE IInv'
  BY <1>0, <1>11, StepOutside DEF Crash, TypeOK
<1>12. ASSUME NEW w \in Wallets, LeaseExpires(w) PROVE IInv'
  <2> USE <1>0, <1>12 DEF LeaseExpires, docVars, callVars
  <2>1. TypeOK'
    BY DEF TypeOK
  <2>2. (StagedByCommitter /\ CommitterIsFresh)'
    BY DEF StagedByCommitter, CommitterIsFresh
  <2>3. (VersionsIdentify /\ CheckedAtRead)'
    BY DEF VersionsIdentify, CheckedAtRead, Sufficient
  <2> QED
    BY <2>1, <2>2, <2>3 DEF IInv
<1>13. ASSUME UNCHANGED vars PROVE IInv'
  BY <1>0, <1>13 DEF IInv, TypeOK, StagedByCommitter, CommitterIsFresh,
     VersionsIdentify, CheckedAtRead, Sufficient, vars, docVars, callVars
<1> QED
  BY <1>1, <1>2, <1>3, <1>4, <1>5, <1>6, <1>7, <1>8, <1>9, <1>10, <1>11,
     <1>12, <1>13 DEF Next, Proceed

-----------------------------------------------------------------------------
(* What a step does to the books *)

\* Only a commit touches the documents, the legacy copy and the rows.
LEMMA BooksChangeAtCommit ==
    ASSUME [Next]_vars
    PROVE  UNCHANGED docVars \/ \E c \in Callers : Commit(c)
BY DEF Next, Proceed, vars, docVars, callVars, Call, Acquire, AcquireTimeout,
   Begin, Write, Retry, Abort, Release, ReleaseFails, Crash, LeaseExpires

\* A commit of an inductive state replaces the document its caller read and
\* appends at most one row per bucket.
LEMMA CommitFacts ==
    ASSUME IInv, NEW c \in Callers, Commit(c)
    PROVE  LET o == op[c]
               w == op[c].wallet
               d == doc[op[c].wallet]
           IN /\ o \in Request /\ w \in Wallets /\ d \in Document
              /\ doc' = [doc EXCEPT ![w] = NewDocument(o, d, d)]
              /\ cache' = [cache EXCEPT ![w] = @ + CacheChange(o, d)]
              /\ \/ ToWallet(o, d) = 0 /\ walletRows' = walletRows
                 \/ /\ ToWallet(o, d) # 0
                    /\ walletRows' =
                         [walletRows EXCEPT ![w] =
                            Append(@, [via |-> o.via, delta |-> ToWallet(o, d),
                                       after |-> d.balance + ToWallet(o, d),
                                       strict |-> o.strict, ref |-> o.ref])]
              /\ \/ ToCredit(o, d) = 0 /\ creditRows' = creditRows
                 \/ creditRows' =
                      [creditRows EXCEPT ![w] =
                         Append(@, [delta |-> -ToCredit(o, d),
                                    after |-> d.creditUsed - ToCredit(o, d),
                                    ref |-> o.ref])]
              /\ Sufficient(o, d)
<1>1. /\ op[c] \in Request /\ op[c].wallet \in Wallets
      /\ snap[c] = doc[op[c].wallet] /\ snap[c] \in Document
      /\ Sufficient(op[c], snap[c])
  BY DEF IInv, TypeOK, Commit, CommitterIsFresh, CheckedAtRead, Request
<1> QED
  BY <1>1 DEF Commit

-----------------------------------------------------------------------------
(* The theorems *)

THEOREM Invariance == Spec => []IInv
<1>1. Init => IInv
  BY InitIInv
<1>2. IInv /\ [Next]_vars => IInv'
  BY NextIInv
<1> QED
  BY <1>1, <1>2, PTL DEF Spec

\* Type correctness.  That creditUsed never turns negative is part of it: the
\* split of a deposit is computed on the document it is applied to.
THEOREM TypeCorrect == Spec => []TypeOK
BY Invariance, PTL DEF IInv

\* No row, and the stored amount is the one the chain starts from.
LEMMA ChainedEmpty ==
    ASSUME NEW start
    PROVE  Chained(start, <<>>, start)
<1>1. Len(<<>>) = 0 /\ DOMAIN <<>> = {}
  OBVIOUS
<1> QED
  BY <1>1 DEF Chained

\* A row that moves the stored amount extends the chain.
LEMMA ChainedAppend ==
    ASSUME NEW R, NEW rows \in Seq(R), NEW start, NEW stored, NEW row,
           Chained(start, rows, stored), row.after = stored + row.delta
    PROVE  Chained(start, Append(rows, row), row.after)
<1> DEFINE n == Len(rows)
           longer == Append(rows, row)
<1>1. /\ n \in Nat /\ DOMAIN rows = 1 .. n
      /\ Len(longer) = n + 1 /\ DOMAIN longer = 1 .. n + 1
      /\ longer[n + 1] = row
      /\ \A i \in 1 .. n : longer[i] = rows[i]
  OBVIOUS
<1> HIDE DEF longer, n
<1>2. stored = IF n = 0 THEN start ELSE rows[n].after
  BY DEF Chained, n
<1>3. ASSUME NEW i \in DOMAIN longer
      PROVE  longer[i].after =
               (IF i = 1 THEN start ELSE longer[i - 1].after) + longer[i].delta
  <2>1. CASE i = n + 1
    <3>1. n # 0 => longer[i - 1] = rows[n]
      BY <1>1, <2>1
    <3>2. stored = IF i = 1 THEN start ELSE longer[i - 1].after
      BY <1>1, <1>2, <2>1, <3>1
    <3> QED
      BY <1>1, <2>1, <3>2
  <2>2. CASE i # n + 1
    <3>1. i \in 1 .. n /\ longer[i] = rows[i]
      BY <1>1, <2>2
    <3>2. i # 1 => longer[i - 1] = rows[i - 1]
      BY <1>1, <3>1
    <3>3. rows[i].after =
            (IF i = 1 THEN start ELSE rows[i - 1].after) + rows[i].delta
      BY <1>1, <3>1 DEF Chained
    <3> QED
      BY <3>1, <3>2, <3>3
  <2> QED
    BY <2>1, <2>2
<1>4. row.after = IF Len(longer) = 0 THEN start ELSE longer[Len(longer)].after
  BY <1>1
<1> QED
  BY <1>3, <1>4 DEF Chained, longer

\* No update is lost: every WALLET row continues from the row before it and the
\* stored balance is the end of the chain, also when a lease expires under a
\* writer or another service writes without one.
THEOREM NoLostUpdate == Spec => []LedgerExplainsBalance
<1>1. Init => LedgerExplainsBalance
  <2> SUFFICES ASSUME Init, NEW w \in Wallets
               PROVE  Chained(Opening[w], walletRows[w], doc[w].balance)
    BY DEF LedgerExplainsBalance
  <2>1. walletRows[w] = <<>> /\ doc[w].balance = Opening[w]
    BY DEF Init
  <2> QED
    BY <2>1, ChainedEmpty
<1>2. IInv /\ LedgerExplainsBalance /\ [Next]_vars => LedgerExplainsBalance'
  <2> SUFFICES ASSUME IInv, LedgerExplainsBalance, [Next]_vars
               PROVE  LedgerExplainsBalance'
    OBVIOUS
  <2>1. CASE UNCHANGED docVars
    BY <2>1 DEF docVars, LedgerExplainsBalance
  <2>2. ASSUME NEW c \in Callers, Commit(c) PROVE LedgerExplainsBalance'
    <3> DEFINE o == op[c]
               w == op[c].wallet
               d == doc[op[c].wallet]
               delta == ToWallet(o, d)
               row == [via |-> o.via, delta |-> delta,
                       after |-> d.balance + delta,
                       strict |-> o.strict, ref |-> o.ref]
    <3>1. /\ o \in Request /\ w \in Wallets /\ d \in Document
          /\ doc' = [doc EXCEPT ![w] = NewDocument(o, d, d)]
      BY <2>2, CommitFacts
    <3>2. \/ delta = 0 /\ walletRows' = walletRows
          \/ walletRows' = [walletRows EXCEPT ![w] = Append(@, row)]
      BY <2>2, CommitFacts
    <3>3. /\ doc \in [Wallets -> Document]
          /\ walletRows \in [Wallets -> Seq(WalletRow)]
      BY DEF IInv, TypeOK
    <3>4. /\ NewDocument(o, d, d).balance = d.balance + delta
          /\ delta \in Int /\ d.balance \in Int
      BY <3>1, NewDocumentFacts, SplitFacts DEF Document
    <3>5. Chained(Opening[w], walletRows[w], d.balance)
      BY <3>1 DEF LedgerExplainsBalance
    <3> HIDE DEF delta
    <3>6. doc'[w].balance = d.balance + delta
      BY <3>1, <3>3, <3>4
    <3>7. Chained(Opening[w], walletRows'[w], doc'[w].balance)
      <4>1. CASE delta = 0 /\ walletRows' = walletRows
        BY <3>4, <3>5, <3>6, <4>1
      <4>2. CASE walletRows' = [walletRows EXCEPT ![w] = Append(@, row)]
        <5>1. walletRows[w] \in Seq(WalletRow)
          BY <3>1, <3>3
        <5>2. row.after = d.balance + row.delta /\ row.after = doc'[w].balance
          BY <3>6
        <5>3. walletRows'[w] = Append(walletRows[w], row)
          BY <3>1, <3>3, <4>2
        <5> HIDE DEF row
        <5>4. Chained(Opening[w], Append(walletRows[w], row), row.after)
          BY <3>5, <5>1, <5>2, ChainedAppend
        <5> QED
          BY <5>2, <5>3, <5>4
      <4> QED
        BY <3>2, <4>1, <4>2
    <3>8. ASSUME NEW v \in Wallets, v # w
          PROVE  Chained(Opening[v], walletRows'[v], doc'[v].balance)
      <4>1. walletRows'[v] = walletRows[v] /\ doc'[v] = doc[v]
        BY <3>1, <3>2, <3>3, <3>8
      <4> QED
        BY <4>1 DEF LedgerExplainsBalance
    <3> QED
      BY <3>7, <3>8 DEF LedgerExplainsBalance
  <2> QED
    BY <2>1, <2>2, BooksChangeAtCommit
<1> QED
  BY <1>1, <1>2, Invariance, PTL DEF Spec

\* Settlements take the outstanding credit of an agency down step by step,
\* never below zero, however many deposits race.
THEOREM CreditExplained == Spec => []LedgerExplainsCredit
<1>1. Init => LedgerExplainsCredit
  <2> SUFFICES ASSUME Init, NEW w \in Wallets
               PROVE  /\ Chained(OpeningCredit[w], creditRows[w], doc[w].creditUsed)
                      /\ \A i \in DOMAIN creditRows[w] : creditRows[w][i].after >= 0
    BY DEF LedgerExplainsCredit
  <2>1. creditRows[w] = <<>> /\ doc[w].creditUsed = OpeningCredit[w]
    BY DEF Init
  <2>2. DOMAIN <<>> = {}
    OBVIOUS
  <2> QED
    BY <2>1, <2>2, ChainedEmpty
<1>2. IInv /\ LedgerExplainsCredit /\ [Next]_vars => LedgerExplainsCredit'
  <2> SUFFICES ASSUME IInv, LedgerExplainsCredit, [Next]_vars
               PROVE  LedgerExplainsCredit'
    OBVIOUS
  <2>1. CASE UNCHANGED docVars
    BY <2>1 DEF docVars, LedgerExplainsCredit
  <2>2. ASSUME NEW c \in Callers, Commit(c) PROVE LedgerExplainsCredit'
    <3> DEFINE o == op[c]
               w == op[c].wallet
               d == doc[op[c].wallet]
               toCredit == ToCredit(o, d)
               row == [delta |-> -toCredit, after |-> d.creditUsed - toCredit,
                       ref |-> o.ref]
    <3>1. /\ o \in Request /\ w \in Wallets /\ d \in Document
          /\ doc' = [doc EXCEPT ![w] = NewDocument(o, d, d)]
      BY <2>2, CommitFacts
    <3>2. \/ toCredit = 0 /\ creditRows' = creditRows
          \/ creditRows' = [creditRows EXCEPT ![w] = Append(@, row)]
      BY <2>2, CommitFacts
    <3>3. /\ doc \in [Wallets -> Document]
          /\ creditRows \in [Wallets -> Seq(CreditRow)]
      BY DEF IInv, TypeOK
    <3>4. /\ NewDocument(o, d, d).creditUsed = d.creditUsed - toCredit
          /\ toCredit \in Nat /\ d.creditUsed \in Nat /\ toCredit <= d.creditUsed
      BY <3>1, NewDocumentFacts, SplitFacts DEF Document
    <3>5. /\ Chained(OpeningCredit[w], creditRows[w], d.creditUsed)
          /\ \A i \in DOMAIN creditRows[w] : creditRows[w][i].after >= 0
      BY <3>1 DEF LedgerExplainsCredit
    <3> HIDE DEF toCredit
    <3>6. doc'[w].creditUsed = d.creditUsed - toCredit
      BY <3>1, <3>3, <3>4
    <3>7. /\ Chained(OpeningCredit[w], creditRows'[w], doc'[w].creditUsed)
          /\ \A i \in DOMAIN creditRows'[w] : creditRows'[w][i].after >= 0
      <4>1. CASE toCredit = 0 /\ creditRows' = creditRows
        BY <3>4, <3>5, <3>6, <4>1
      <4>2. CASE creditRows' = [creditRows EXCEPT ![w] = Append(@, row)]
        <5>1. creditRows[w] \in Seq(CreditRow)
          BY <3>1, <3>3
        <5>2. /\ row.after = d.creditUsed + row.delta
              /\ row.after = doc'[w].creditUsed
              /\ row.after >= 0
          BY <3>4, <3>6
        <5>3. creditRows'[w] = Append(creditRows[w], row)
          BY <3>1, <3>3, <4>2
        <5> HIDE DEF row
        <5>4. Chained(OpeningCredit[w], Append(creditRows[w], row), row.after)
          BY <3>5, <5>1, <5>2, ChainedAppend
        <5>5. ASSUME NEW i \in DOMAIN creditRows'[w]
              PROVE  creditRows'[w][i].after >= 0
          BY <3>5, <5>1, <5>2, <5>3, <5>5
        <5> QED
          BY <5>2, <5>3, <5>4, <5>5
      <4> QED
        BY <3>2, <4>1, <4>2
    <3>8. ASSUME NEW v \in Wallets, v # w
          PROVE  /\ Chained(OpeningCredit[v], creditRows'[v], doc'[v].creditUsed)
                 /\ \A i \in DOMAIN creditRows'[v] : creditRows'[v][i].after >= 0
      <4>1. creditRows'[v] = creditRows[v] /\ doc'[v] = doc[v]
        BY <3>1, <3>2, <3>3, <3>8
      <4> QED
        BY <4>1 DEF LedgerExplainsCredit
    <3> QED
      BY <3>7, <3>8 DEF LedgerExplainsCredit
  <2> QED
    BY <2>1, <2>2, BooksChangeAtCommit
<1> QED
  BY <1>1, <1>2, Invariance, PTL DEF Spec

\* The rows of both buckets explain the stored document.
THEOREM DocumentExplained == Spec => []LedgerExplainsDocument
BY NoLostUpdate, CreditExplained, PTL DEF LedgerExplainsDocument

\* A debit that must be covered is covered at its commit, not only when it was
\* checked (INSUFFICIENT_WALLET).
THEOREM DebitsCovered == Spec => []StrictDebitsCovered
<1>1. Init => StrictDebitsCovered
  BY DEF Init, StrictDebitsCovered
<1>2. IInv /\ StrictDebitsCovered /\ [Next]_vars => StrictDebitsCovered'
  <2> SUFFICES ASSUME IInv, StrictDebitsCovered, [Next]_vars
               PROVE  StrictDebitsCovered'
    OBVIOUS
  <2>1. CASE UNCHANGED docVars
    BY <2>1 DEF docVars, StrictDebitsCovered
  <2>2. ASSUME NEW c \in Callers, Commit(c) PROVE StrictDebitsCovered'
    <3> DEFINE o == op[c]
               w == op[c].wallet
               d == doc[op[c].wallet]
               delta == ToWallet(o, d)
               row == [via |-> o.via, delta |-> delta,
                       after |-> d.balance + delta,
                       strict |-> o.strict, ref |-> o.ref]
    <3>1. /\ o \in Request /\ w \in Wallets /\ d \in Document
          /\ Sufficient(o, d)
      BY <2>2, CommitFacts
    <3>2. \/ walletRows' = walletRows
          \/ walletRows' = [walletRows EXCEPT ![w] = Append(@, row)]
      BY <2>2, CommitFacts
    <3>3. walletRows \in [Wallets -> Seq(WalletRow)]
      BY DEF IInv, TypeOK
    <3>4. row.strict /\ row.delta < 0 => row.after >= 0
      <4>1. o.amount \in Nat /\ d.balance \in Int
        BY <3>1, WalletsAssumption DEF Request, Document
      <4>2. CASE o.via = "WATERFALL"
        BY <3>1, <4>1, <4>2, SplitFacts
      <4>3. CASE o.via # "WATERFALL"
        BY <3>1, <4>1, <4>3 DEF ToWallet, Sufficient, Request
      <4> QED
        BY <4>2, <4>3
    <3> HIDE DEF row
    <3>5. ASSUME NEW v \in Wallets, NEW i \in DOMAIN walletRows'[v]
          PROVE  \/ walletRows'[v][i] = row
                 \/ /\ i \in DOMAIN walletRows[v]
                    /\ walletRows'[v][i] = walletRows[v][i]
      <4>1. CASE walletRows'[v] = walletRows[v]
        BY <4>1
      <4>2. CASE walletRows'[v] = Append(walletRows[v], row)
        <5>1. walletRows[v] \in Seq(WalletRow)
          BY <3>3
        <5> QED
          BY <4>2, <5>1
      <4> QED
        BY <3>1, <3>2, <3>3, <4>1, <4>2
    <3> QED
      BY <3>4, <3>5 DEF StrictDebitsCovered
  <2> QED
    BY <2>1, <2>2, BooksChangeAtCommit
<1> QED
  BY <1>1, <1>2, Invariance, PTL DEF Spec

-----------------------------------------------------------------------------
(* The legacy copy *)

\* What each row moved, as a function of its place: the form of SetSums.
Delta(rows) == [i \in DOMAIN rows |-> rows[i].delta]

LEMMA RowsTyped ==
    ASSUME NEW rows \in Seq(WalletRow)
    PROVE  /\ IsFiniteSet(ServiceRows(rows)) /\ ServiceRows(rows) \subseteq 1 .. Len(rows)
           /\ \A i \in 1 .. Len(rows) : Delta(rows)[i] = rows[i].delta /\ Delta(rows)[i] \in Int
<1>1. /\ Len(rows) \in Nat /\ DOMAIN rows = 1 .. Len(rows)
      /\ \A i \in DOMAIN rows : rows[i] \in WalletRow
  OBVIOUS
<1>2. IsFiniteSet(1 .. Len(rows))
  BY <1>1, FS_Interval
<1>3. ServiceRows(rows) \subseteq 1 .. Len(rows)
  BY <1>1 DEF ServiceRows
<1> QED
  BY <1>1, <1>2, <1>3, FS_Subset DEF Delta, WalletRow

LEMMA PostedIs ==
    ASSUME NEW rows \in Seq(WalletRow)
    PROVE  ServicePosted(rows) = SumOf(Delta(rows), ServiceRows(rows))
<1>1. PICK B : B = ServiceRows(rows)
  OBVIOUS
<1>2. /\ IsFiniteSet(B) /\ \A i \in B : Delta(rows)[i] \in Int
      /\ \A i \in B : Delta(rows)[i] = rows[i].delta
  BY <1>1, RowsTyped
<1>3. PICK g : Adds(Delta(rows), B, g) /\ SumOf(Delta(rows), B) = g[B]
  BY ZenonT(40), <1>2, SumIs
<1>4. PICK h : h = CHOOSE f : f = [s \in SUBSET B |->
                      IF s = {} THEN 0 ELSE rows[First(s)].delta + f[s \ {First(s)}]]
  OBVIOUS
<1>5. \A f : Adds(Delta(rows), B, f) <=>
             f = [s \in SUBSET B |->
                    IF s = {} THEN 0 ELSE rows[First(s)].delta + f[s \ {First(s)}]]
  <2>1. \A s \in SUBSET B : s # {} => Delta(rows)[First(s)] = rows[First(s)].delta
    BY <1>2, FirstOf
  <2> QED
    BY <2>1 DEF Adds
<1>6. Adds(Delta(rows), B, h)
  BY <1>3, <1>4, <1>5
<1>7. MapThenSumSet(LAMBDA i : rows[i].delta, B) = h[B]
  BY <1>4 DEF MapThenSumSet, MapThenFoldSet, First
<1>8. h[B] = SumOf(Delta(rows), B)
  BY <1>2, <1>3, <1>6, AddsDetermined
<1> QED
  BY <1>1, <1>7, <1>8 DEF ServicePosted

\* A row that is appended adds to the sum what it moved, if it is WalletService's.
LEMMA PostedAfterAppend ==
    ASSUME NEW rows \in Seq(WalletRow), NEW row \in WalletRow
    PROVE  /\ ServicePosted(rows) \in Int
           /\ ServicePosted(Append(rows, row)) =
                ServicePosted(rows) + (IF row.via = "SERVICE" THEN row.delta ELSE 0)
<1>0. Append(rows, row) \in Seq(WalletRow) /\ Len(rows) \in Nat
  OBVIOUS
<1>1. PICK longer \in Seq(WalletRow), n \in Nat : longer = Append(rows, row) /\ n = Len(rows)
  BY <1>0
<1>2. /\ DOMAIN rows = 1 .. n /\ DOMAIN longer = 1 .. n + 1 /\ Len(longer) = n + 1
      /\ longer[n + 1] = row /\ \A i \in 1 .. n : longer[i] = rows[i]
  BY <1>1
<1>3. PICK S, T, v, u : /\ S = ServiceRows(rows) /\ T = ServiceRows(longer)
                       /\ v = Delta(rows) /\ u = Delta(longer)
  OBVIOUS
<1>4. ServicePosted(rows) = SumOf(v, S) /\ ServicePosted(longer) = SumOf(u, T)
  BY <1>3, PostedIs
<1>5. IsFiniteSet(S) /\ S \subseteq 1 .. n /\ \A i \in S : v[i] \in Int
  BY <1>1, <1>3, RowsTyped
<1>6. T = IF row.via = "SERVICE" THEN S \cup {n + 1} ELSE S
  <2>1. \A i \in 1 .. n : longer[i].via = rows[i].via
    BY <1>2
  <2> QED
    BY <1>2, <1>3, <2>1 DEF ServiceRows
<1>7. u[n + 1] = row.delta /\ row.delta \in Int /\ \A i \in S : u[i] = v[i]
  <2>1. \A i \in 1 .. n : v[i] = rows[i].delta
    BY <1>1, <1>3, RowsTyped
  <2>2. \A i \in 1 .. n + 1 : u[i] = longer[i].delta /\ u[i] \in Int
    BY <1>1, <1>2, <1>3, RowsTyped
  <2> QED
    BY <1>2, <1>5, <2>1, <2>2
<1>8. SumOf(u, S) = SumOf(v, S) /\ SumOf(v, S) \in Int
  BY <1>5, <1>7, SumSame, SumType
<1>9. CASE row.via = "SERVICE"
  <2>1. n + 1 \notin S /\ \A i \in S \cup {n + 1} : u[i] \in Int
    BY <1>5, <1>7
  <2>2. SumOf(u, S \cup {n + 1}) = u[n + 1] + SumOf(u, S)
    BY <1>5, <2>1, SumAdd
  <2> QED
    BY <1>1, <1>4, <1>6, <1>7, <1>8, <1>9, <2>2
<1>10. CASE row.via # "SERVICE"
  BY <1>1, <1>4, <1>6, <1>8, <1>10
<1> QED
  BY <1>9, <1>10

\* The dual write keeps the legacy copy of every balance behind the wallet
\* document by exactly what WalletService posted: where it posts nothing, the
\* two are equal.
THEOREM DualWriteAgrees == Spec => []CacheAgrees
<1>1. Init => CacheAgrees
  <2> SUFFICES ASSUME Init, NEW w \in Wallets
               PROVE  doc[w].balance - cache[w] = ServicePosted(walletRows[w])
    BY DEF CacheAgrees
  <2>1. /\ walletRows[w] = <<>> /\ doc[w].balance = cache[w] /\ cache[w] \in Int
    BY WalletsAssumption DEF Init
  <2>2. <<>> \in Seq(WalletRow) /\ ServiceRows(<<>>) = {}
    BY DEF ServiceRows
  <2>3. ServicePosted(<<>>) = 0
    BY <2>2, PostedIs, SumEmpty
  <2> QED
    BY <2>1, <2>3
<1>2. IInv /\ CacheAgrees /\ [Next]_vars => CacheAgrees'
  <2> SUFFICES ASSUME IInv, CacheAgrees, [Next]_vars PROVE CacheAgrees'
    OBVIOUS
  <2>1. CASE UNCHANGED docVars
    BY <2>1 DEF docVars, CacheAgrees
  <2>2. ASSUME NEW c \in Callers, Commit(c) PROVE CacheAgrees'
    <3> DEFINE o == op[c]
               w == op[c].wallet
               d == doc[op[c].wallet]
               row == [via |-> o.via, delta |-> ToWallet(o, d),
                       after |-> d.balance + ToWallet(o, d),
                       strict |-> o.strict, ref |-> o.ref]
    <3>1. /\ o \in Request /\ w \in Wallets /\ d \in Document
          /\ doc' = [doc EXCEPT ![w] = NewDocument(o, d, d)]
          /\ cache' = [cache EXCEPT ![w] = @ + CacheChange(o, d)]
          /\ \/ ToWallet(o, d) = 0 /\ walletRows' = walletRows
             \/ walletRows' = [walletRows EXCEPT ![w] = Append(@, row)]
      BY <2>2, CommitFacts
    <3>2. /\ doc \in [Wallets -> Document] /\ cache \in [Wallets -> Int]
          /\ walletRows \in [Wallets -> Seq(WalletRow)]
      BY DEF IInv, TypeOK
    <3>3. PICK t \in Int, b \in Int, k \in Int :
             /\ t = ToWallet(o, d) /\ b = d.balance /\ k = cache[w]
      BY <3>1, <3>2, SplitFacts DEF Document
    <3>4. row \in WalletRow /\ row.via = o.via /\ row.delta = t
      BY <3>1, <3>3 DEF WalletRow, Request
    <3>5. PICK p \in Int : p = ServicePosted(walletRows[w]) /\ b - k = p
      BY <3>1, <3>2, <3>3 DEF CacheAgrees
    <3>6. doc'[w].balance = b + t
      BY <3>1, <3>2, <3>3, NewDocumentFacts
    <3>7. cache'[w] = k + (IF o.via = "SERVICE" THEN 0 ELSE t)
      BY <3>1, <3>2, <3>3 DEF CacheChange
    <3>8. ServicePosted(walletRows'[w]) = p + (IF o.via = "SERVICE" THEN t ELSE 0)
      <4> HIDE DEF row
      <4>1. CASE walletRows' = walletRows /\ t = 0
        BY <3>5, <4>1
      <4>2. CASE walletRows' = [walletRows EXCEPT ![w] = Append(@, row)]
        <5>1. walletRows'[w] = Append(walletRows[w], row) /\ walletRows[w] \in Seq(WalletRow)
          BY <3>1, <3>2, <4>2
        <5> QED
          BY <3>4, <3>5, <5>1, PostedAfterAppend
      <4> QED
        BY <3>1, <3>3, <4>1, <4>2
    <3>9. doc'[w].balance - cache'[w] = ServicePosted(walletRows'[w])
      BY <3>5, <3>6, <3>7, <3>8
    <3>10. ASSUME NEW v \in Wallets, v # w
           PROVE  doc'[v] = doc[v] /\ cache'[v] = cache[v] /\ walletRows'[v] = walletRows[v]
      BY <3>1, <3>2, <3>10
    <3> HIDE DEF o, w, d, row
    <3> QED
      BY <3>9, <3>10 DEF CacheAgrees
  <2> QED
    BY <2>1, <2>2, BooksChangeAtCommit
<1> QED
  BY <1>1, <1>2, Invariance, PTL DEF Spec

\* A caller that outran its lease does not free the lease of the next holder.
THEOREM LeaseKept == Spec => OnlyHolderReleases
<1> DEFINE Kept ==
      \A w \in Wallets, c \in Callers :
          lease[w] = c /\ lease'[w] # c
              => \/ pc[c] = "release" /\ pc'[c] = "done"
                 \/ LeaseExpires(w)
<1>1. IInv /\ [Next]_vars => [Kept]_vars
  <2> SUFFICES ASSUME IInv, Next, NEW w \in Wallets, NEW c \in Callers,
                      lease[w] = c, lease'[w] # c
               PROVE  \/ pc[c] = "release" /\ pc'[c] = "done"
                      \/ LeaseExpires(w)
    BY DEF Kept
  <2>0. /\ lease \in [Wallets -> Callers \cup {None}]
        /\ pc \in [Callers -> Steps]
        /\ None \notin Callers
    BY WalletsAssumption DEF IInv, TypeOK
  <2>1. ASSUME NEW e \in Callers, Release(e)
        PROVE  pc[c] = "release" /\ pc'[c] = "done"
    BY <2>0, <2>1 DEF Release, Goto
  <2>2. ASSUME NEW e \in Callers, Acquire(e) PROVE FALSE
    BY <2>0, <2>2 DEF Acquire
  <2>3. ASSUME NEW v \in Wallets, LeaseExpires(v) PROVE LeaseExpires(w)
    BY <2>0, <2>3 DEF LeaseExpires
  <2>4. ASSUME NEW e \in Callers,
               \/ Call(e) \/ AcquireTimeout(e) \/ Begin(e) \/ Write(e)
               \/ Retry(e) \/ Abort(e) \/ Commit(e) \/ ReleaseFails(e) \/ Crash(e)
        PROVE  FALSE
    BY <2>4 DEF Call, AcquireTimeout, Begin, Write, Retry, Abort, Commit,
       ReleaseFails, Crash
  <2> QED
    BY <2>1, <2>2, <2>3, <2>4 DEF Next, Proceed
<1> QED
  BY <1>1, Invariance, PTL DEF Spec, OnlyHolderReleases, Kept

-----------------------------------------------------------------------------
(* References: the inductive invariant, on top of IInv *)

\* Calls carry what the callers of the three services put into a request.
CallsWellFormed ==
    \A c \in Callers : pc[c] # "idle" => WellFormed(op[c])

\* Two open transactions never hold the same key of a unique index.
KeysDistinct ==
    \A c, e \in Callers :
        pc[c] = "commit" /\ pc[e] = "commit" /\ op[c].via = op[e].via
            /\ op[c].ref = op[e].ref /\ op[c].ref # None => c = e

\* The key an open transaction holds is in no committed row it would add to.
KeyOfCommitterFree ==
    \A c \in Callers : pc[c] = "commit" => ~RefTaken(op[c], snap[c])

\* A deposit whose read is current has no settlement yet: a settlement of the
\* same wallet would have moved the version.
NotSettledYet ==
    \A c \in Callers :
        /\ pc[c] \in {"write", "commit"}
        /\ op[c].via = "WATERFALL"
        /\ Fresh(c)
        => ~AlreadySettled(op[c])

\* Only deposits, which carry a reference, post to the CREDIT bucket.
CreditRowsNamed ==
    \A w \in Wallets : \A i \in DOMAIN creditRows[w] : creditRows[w][i].ref # None

RefInv ==
    /\ CallsWellFormed
    /\ KeysDistinct
    /\ KeyOfCommitterFree
    /\ NotSettledYet
    /\ CreditRowsNamed
    /\ ReferencePostsOnce
    /\ SettlementsBacked

-----------------------------------------------------------------------------
(* What a commit adds to the rows *)

\* A sequence after an append: the old entries and the new one, at the end.
LEMMA AppendFacts ==
    ASSUME NEW S, NEW rows \in Seq(S), NEW row
    PROVE  /\ DOMAIN rows \subseteq DOMAIN Append(rows, row)
           /\ \A i \in DOMAIN rows : Append(rows, row)[i] = rows[i]
           /\ \A i \in DOMAIN Append(rows, row) \ DOMAIN rows :
                 i = Len(rows) + 1 /\ Append(rows, row)[i] = row
           /\ \E i \in DOMAIN Append(rows, row) : Append(rows, row)[i] = row
<1>1. /\ DOMAIN rows = 1 .. Len(rows)
      /\ Len(rows) \in Nat
      /\ DOMAIN Append(rows, row) = 1 .. Len(rows) + 1
      /\ Append(rows, row)[Len(rows) + 1] = row
      /\ \A i \in 1 .. Len(rows) : Append(rows, row)[i] = rows[i]
  OBVIOUS
<1>2. Len(rows) + 1 \in DOMAIN Append(rows, row)
  BY <1>1
<1> QED
  BY <1>1, <1>2

\* A commit keeps every row and adds at most one per bucket, with the reference
\* of the request it commits.
LEMMA CommitRows ==
    ASSUME IInv, NEW c \in Callers, Commit(c)
    PROVE  LET o == op[c]
               d == snap[c]
           IN /\ \A v \in Wallets :
                    /\ DOMAIN walletRows[v] \subseteq DOMAIN walletRows'[v]
                    /\ \A i \in DOMAIN walletRows[v] :
                          walletRows'[v][i] = walletRows[v][i]
                    /\ \A i \in DOMAIN walletRows'[v] \ DOMAIN walletRows[v] :
                          /\ v = o.wallet /\ i = Len(walletRows[v]) + 1
                          /\ ToWallet(o, d) # 0
                          /\ walletRows'[v][i].via = o.via
                          /\ walletRows'[v][i].ref = o.ref
              /\ ToWallet(o, d) # 0 =>
                    \E i \in DOMAIN walletRows'[o.wallet] :
                       /\ walletRows'[o.wallet][i].via = o.via
                       /\ walletRows'[o.wallet][i].ref = o.ref
                       /\ walletRows'[o.wallet][i].delta = ToWallet(o, d)
              /\ \A v \in Wallets :
                    /\ DOMAIN creditRows[v] \subseteq DOMAIN creditRows'[v]
                    /\ \A i \in DOMAIN creditRows[v] :
                          creditRows'[v][i] = creditRows[v][i]
                    /\ \A i \in DOMAIN creditRows'[v] \ DOMAIN creditRows[v] :
                          /\ v = o.wallet /\ i = Len(creditRows[v]) + 1
                          /\ ToCredit(o, d) > 0
                          /\ creditRows'[v][i].ref = o.ref
              /\ ToCredit(o, d) > 0 =>
                    \E i \in DOMAIN creditRows'[o.wallet] :
                       /\ creditRows'[o.wallet][i].ref = o.ref
                       /\ creditRows'[o.wallet][i].delta = -ToCredit(o, d)
<1> DEFINE o == op[c]
           d == snap[c]
           w == op[c].wallet
           wrow == [via |-> o.via, delta |-> ToWallet(o, d),
                    after |-> d.balance + ToWallet(o, d),
                    strict |-> o.strict, ref |-> o.ref]
           crow == [delta |-> -ToCredit(o, d),
                    after |-> d.creditUsed - ToCredit(o, d), ref |-> o.ref]
<1>1. /\ o \in Request /\ d \in Document /\ w \in Wallets
      /\ walletRows \in [Wallets -> Seq(WalletRow)]
      /\ creditRows \in [Wallets -> Seq(CreditRow)]
  BY DEF IInv, TypeOK, Commit, Request
<1>2. /\ walletRows' = IF ToWallet(o, d) = 0 THEN walletRows
                       ELSE [walletRows EXCEPT ![w] = Append(@, wrow)]
      /\ creditRows' = IF ToCredit(o, d) = 0 THEN creditRows
                       ELSE [creditRows EXCEPT ![w] = Append(@, crow)]
  BY DEF Commit
<1>3. ToCredit(o, d) \in Nat
  BY <1>1, SplitFacts
<1>4. /\ wrow.via = o.via /\ wrow.ref = o.ref /\ wrow.delta = ToWallet(o, d)
      /\ crow.ref = o.ref /\ crow.delta = -ToCredit(o, d)
  OBVIOUS
<1> HIDE DEF wrow, crow
<1>5. ASSUME ToWallet(o, d) # 0
      PROVE  /\ \A v \in Wallets : DOMAIN walletRows[v] \subseteq DOMAIN walletRows'[v]
             /\ \A v \in Wallets : \A i \in DOMAIN walletRows[v] :
                   walletRows'[v][i] = walletRows[v][i]
             /\ \A v \in Wallets : \A i \in DOMAIN walletRows'[v] \ DOMAIN walletRows[v] :
                   v = w /\ i = Len(walletRows[w]) + 1 /\ walletRows'[v][i] = wrow
             /\ \E i \in DOMAIN walletRows'[w] : walletRows'[w][i] = wrow
  <2>1. walletRows' = [walletRows EXCEPT ![w] = Append(@, wrow)]
    BY <1>2, <1>5
  <2>2. walletRows[w] \in Seq(WalletRow)
    BY <1>1
  <2>3. /\ walletRows'[w] = Append(walletRows[w], wrow)
        /\ \A v \in Wallets : v # w => walletRows'[v] = walletRows[v]
    BY <1>1, <2>1
  <2> HIDE DEF w
  <2> QED
    BY SMTT(30), <2>2, <2>3, AppendFacts
<1>6. ASSUME ToCredit(o, d) # 0
      PROVE  /\ \A v \in Wallets : DOMAIN creditRows[v] \subseteq DOMAIN creditRows'[v]
             /\ \A v \in Wallets : \A i \in DOMAIN creditRows[v] :
                   creditRows'[v][i] = creditRows[v][i]
             /\ \A v \in Wallets : \A i \in DOMAIN creditRows'[v] \ DOMAIN creditRows[v] :
                   v = w /\ i = Len(creditRows[w]) + 1 /\ creditRows'[v][i] = crow
             /\ \E i \in DOMAIN creditRows'[w] : creditRows'[w][i] = crow
  <2>1. creditRows' = [creditRows EXCEPT ![w] = Append(@, crow)]
    BY <1>2, <1>6
  <2>2. creditRows[w] \in Seq(CreditRow)
    BY <1>1
  <2>3. /\ creditRows'[w] = Append(creditRows[w], crow)
        /\ \A v \in Wallets : v # w => creditRows'[v] = creditRows[v]
    BY <1>1, <2>1
  <2> HIDE DEF w
  <2> QED
    BY <2>2, <2>3, AppendFacts
<1>7. /\ ToWallet(o, d) = 0 => walletRows' = walletRows
      /\ ToCredit(o, d) = 0 => creditRows' = creditRows
      /\ ToCredit(o, d) # 0 => ToCredit(o, d) > 0
  BY <1>2, <1>3
<1>8. /\ \A v \in Wallets :
           /\ DOMAIN walletRows[v] \subseteq DOMAIN walletRows'[v]
           /\ \A i \in DOMAIN walletRows[v] : walletRows'[v][i] = walletRows[v][i]
           /\ \A i \in DOMAIN walletRows'[v] \ DOMAIN walletRows[v] :
                 /\ v = o.wallet /\ i = Len(walletRows[v]) + 1
                 /\ ToWallet(o, d) # 0
                 /\ walletRows'[v][i].via = o.via
                 /\ walletRows'[v][i].ref = o.ref
      /\ ToWallet(o, d) # 0 =>
           \E i \in DOMAIN walletRows'[o.wallet] :
              /\ walletRows'[o.wallet][i].via = o.via
              /\ walletRows'[o.wallet][i].ref = o.ref
              /\ walletRows'[o.wallet][i].delta = ToWallet(o, d)
  BY <1>4, <1>5, <1>7
<1>9. /\ \A v \in Wallets :
           /\ DOMAIN creditRows[v] \subseteq DOMAIN creditRows'[v]
           /\ \A i \in DOMAIN creditRows[v] : creditRows'[v][i] = creditRows[v][i]
           /\ \A i \in DOMAIN creditRows'[v] \ DOMAIN creditRows[v] :
                 /\ v = o.wallet /\ i = Len(creditRows[v]) + 1
                 /\ ToCredit(o, d) > 0
                 /\ creditRows'[v][i].ref = o.ref
      /\ ToCredit(o, d) > 0 =>
           \E i \in DOMAIN creditRows'[o.wallet] :
              /\ creditRows'[o.wallet][i].ref = o.ref
              /\ creditRows'[o.wallet][i].delta = -ToCredit(o, d)
  BY <1>4, <1>6, <1>7, <1>3
<1> QED
  BY <1>8, <1>9

-----------------------------------------------------------------------------
(* The invariant is inductive *)

LEMMA InitRefInv == Init => RefInv
BY WalletsAssumption
   DEF Init, RefInv, CallsWellFormed, KeysDistinct, KeyOfCommitterFree,
       NotSettledYet, CreditRowsNamed, ReferencePostsOnce, SettlementsBacked

\* A step that keeps the books and lets nobody into a transaction disturbs
\* nothing: who is in "write" or "commit" was there, with the same read.
LEMMA QuietStep ==
    ASSUME IInv, RefInv, CallsWellFormed', UNCHANGED docVars,
           \A e \in Callers : pc'[e] \in {"write", "commit"} =>
               pc'[e] = pc[e] /\ op'[e] = op[e] /\ snap'[e] = snap[e]
    PROVE  RefInv'
<1> USE DEF docVars
<1>1. KeysDistinct'
  BY DEF RefInv, KeysDistinct
<1>2. KeyOfCommitterFree'
  BY DEF RefInv, KeyOfCommitterFree, RefTaken
<1>3. NotSettledYet'
  BY DEF RefInv, NotSettledYet, AlreadySettled, Fresh
<1>4. CreditRowsNamed' /\ ReferencePostsOnce' /\ SettlementsBacked'
  BY DEF RefInv, CreditRowsNamed, ReferencePostsOnce, SettlementsBacked
<1> QED
  BY <1>1, <1>2, <1>3, <1>4 DEF RefInv

\* Requests are well formed when they are made and never change afterwards.
LEMMA RequestsStayWellFormed ==
    ASSUME IInv, CallsWellFormed, [Next]_vars
    PROVE  CallsWellFormed'
<1>0. pc \in [Callers -> Steps] /\ op \in [Callers -> Request \cup {None}]
  BY DEF IInv, TypeOK
<1>1. ASSUME NEW c \in Callers, Call(c) PROVE CallsWellFormed'
  BY <1>0, <1>1 DEF Call, Goto, CallsWellFormed, WellFormed
<1>2. ASSUME NEW c \in Callers, Proceed(c) \/ Crash(c) PROVE CallsWellFormed'
  <2>1. /\ op' = op
        /\ \A e \in Callers : pc'[e] # "idle" => pc[e] # "idle"
    BY <1>0, <1>2 DEF Proceed, Acquire, AcquireTimeout, Begin, Write, Retry,
       Abort, Commit, Release, ReleaseFails, Crash, Goto
  <2> QED
    BY <2>1 DEF CallsWellFormed, WellFormed
<1>3. CASE UNCHANGED callVars
  BY <1>3 DEF callVars, CallsWellFormed, WellFormed
<1> QED
  BY <1>1, <1>2, <1>3 DEF Next, LeaseExpires, vars

\* The read of a transaction tells whether the deposit is settled already.
LEMMA BeginKeepsRefInv ==
    ASSUME IInv, RefInv, CallsWellFormed', NEW c \in Callers, Begin(c)
    PROVE  RefInv'
<1> USE DEF Begin, docVars
<1>1. /\ pc \in [Callers -> Steps] /\ snap \in [Callers -> Document \cup {None}]
      /\ pc[c] = "begin" /\ op' = op
  BY DEF IInv, TypeOK
<1>2. /\ \A e \in Callers : e # c => pc'[e] = pc[e] /\ snap'[e] = snap[e]
      /\ pc'[c] \in {"release", "done", "write"}
      /\ pc'[c] = "write" /\ op[c].via = "WATERFALL" => ~AlreadySettled(op[c])
  BY <1>1 DEF Goto, Leave
<1>3. KeysDistinct'
  BY <1>1, <1>2 DEF RefInv, KeysDistinct
<1>4. KeyOfCommitterFree'
  BY <1>1, <1>2 DEF RefInv, KeyOfCommitterFree, RefTaken
<1>5. NotSettledYet'
  BY <1>1, <1>2 DEF RefInv, NotSettledYet, AlreadySettled, Fresh
<1>6. CreditRowsNamed' /\ ReferencePostsOnce' /\ SettlementsBacked'
  BY DEF RefInv, CreditRowsNamed, ReferencePostsOnce, SettlementsBacked
<1> QED
  BY <1>3, <1>4, <1>5, <1>6 DEF RefInv

\* A transaction stages its rows only when their keys are free.
LEMMA WriteKeepsRefInv ==
    ASSUME IInv, RefInv, CallsWellFormed', NEW c \in Callers, Write(c)
    PROVE  RefInv'
<1> USE DEF Write, docVars
<1>1. /\ pc \in [Callers -> Steps]
      /\ pc[c] = "write" /\ op' = op /\ snap' = snap
  BY DEF IInv, TypeOK
<1>2. /\ \A e \in Callers : e # c => pc'[e] = pc[e]
      /\ pc'[c] = "commit"
  BY <1>1 DEF Goto
<1>3. KeysDistinct'
  BY <1>1, <1>2 DEF RefInv, KeysDistinct, RefStaged
<1>4. KeyOfCommitterFree'
  BY <1>1, <1>2 DEF RefInv, KeyOfCommitterFree, RefTaken
<1>5. NotSettledYet'
  BY <1>1, <1>2 DEF RefInv, NotSettledYet, AlreadySettled, Fresh
<1>6. CreditRowsNamed' /\ ReferencePostsOnce' /\ SettlementsBacked'
  BY DEF RefInv, CreditRowsNamed, ReferencePostsOnce, SettlementsBacked
<1> QED
  BY <1>3, <1>4, <1>5, <1>6 DEF RefInv

\* A commit publishes rows under keys nobody else holds, committed or open.
LEMMA CommitKeepsRefInv ==
    ASSUME IInv, RefInv, CallsWellFormed', NEW c \in Callers, Commit(c)
    PROVE  RefInv'
<1> DEFINE o == op[c]
           d == snap[c]
           w == op[c].wallet
           snapshot == [wallet |-> w, ref |-> o.ref, amount |-> o.amount,
                        toCredit |-> ToCredit(o, d), toWallet |-> ToWallet(o, d)]
<1>1. /\ pc \in [Callers -> Steps]
      /\ o \in Request /\ w \in Wallets /\ d \in Document
      /\ pc[c] = "commit" /\ d = doc[w] /\ staged[w] = c
      /\ op' = op /\ snap' = snap
  BY DEF IInv, TypeOK, Commit, CommitterIsFresh, Request
<1>2. /\ \A e \in Callers : e # c => pc'[e] = pc[e]
      /\ pc'[c] \in {"release", "done"}
  BY <1>1 DEF Commit, Goto, Leave
<1>3. /\ WellFormed(o) /\ ~RefTaken(o, d)
      /\ o.via = "WATERFALL" => ~AlreadySettled(o)
  BY <1>1 DEF RefInv, CallsWellFormed, KeyOfCommitterFree, NotSettledYet, Fresh
<1>4. /\ ToCredit(o, d) \in Nat /\ ToCredit(o, d) <= o.amount
      /\ ToWallet(o, d) \in Int
      /\ o.via = "WATERFALL" => ToWallet(o, d) = o.amount - ToCredit(o, d)
      /\ ToCredit(o, d) > 0 => o.via = "WATERFALL" /\ o.ref # None
  BY <1>1, <1>3, SplitFacts DEF WellFormed
<1>5. \A v \in Wallets :
        /\ DOMAIN walletRows[v] \subseteq DOMAIN walletRows'[v]
        /\ \A i \in DOMAIN walletRows[v] : walletRows'[v][i] = walletRows[v][i]
        /\ \A i \in DOMAIN walletRows'[v] \ DOMAIN walletRows[v] :
              /\ v = w /\ i = Len(walletRows[v]) + 1
              /\ ToWallet(o, d) # 0
              /\ walletRows'[v][i].via = o.via
              /\ walletRows'[v][i].ref = o.ref
  BY CommitRows
<1>6. \A v \in Wallets :
        /\ DOMAIN creditRows[v] \subseteq DOMAIN creditRows'[v]
        /\ \A i \in DOMAIN creditRows[v] : creditRows'[v][i] = creditRows[v][i]
        /\ \A i \in DOMAIN creditRows'[v] \ DOMAIN creditRows[v] :
              /\ v = w /\ i = Len(creditRows[v]) + 1
              /\ ToCredit(o, d) > 0
              /\ creditRows'[v][i].ref = o.ref
  BY CommitRows
<1>7. /\ ToWallet(o, d) # 0 =>
           \E i \in DOMAIN walletRows'[w] :
              /\ walletRows'[w][i].via = o.via
              /\ walletRows'[w][i].ref = o.ref
              /\ walletRows'[w][i].delta = ToWallet(o, d)
      /\ ToCredit(o, d) > 0 =>
           \E i \in DOMAIN creditRows'[w] :
              /\ creditRows'[w][i].ref = o.ref
              /\ creditRows'[w][i].delta = -ToCredit(o, d)
  BY CommitRows
<1>8. \/ o.via # "WATERFALL" /\ settled' = settled
      \/ o.via = "WATERFALL" /\ settled' = settled \cup {snapshot}
  BY DEF Commit
<1> HIDE DEF o, d, w
<1>9. KeysDistinct'
  BY <1>1, <1>2 DEF RefInv, KeysDistinct
<1>10. KeyOfCommitterFree'
  <2> SUFFICES ASSUME NEW e \in Callers, pc'[e] = "commit", RefTaken(op[e], snap[e])'
               PROVE  FALSE
    BY <1>1 DEF KeyOfCommitterFree
  <2>1. e # c /\ pc[e] = "commit"
    BY <1>2
  <2>2. ~RefTaken(op[e], snap[e]) /\ op[e].ref # None
    BY <1>1, <2>1 DEF RefInv, KeyOfCommitterFree, RefTaken
  <2>3. ~(op[e].via = o.via /\ op[e].ref = o.ref)
    BY <1>1, <2>1, <2>2 DEF RefInv, KeysDistinct, o
  <2>4. ToCredit(op[e], snap[e]) > 0 => op[e].via = "WATERFALL"
    BY DEF ToCredit
  <2>5. PICK v \in Wallets :
          \/ /\ ToWallet(op[e], snap[e]) # 0
             /\ \E i \in DOMAIN walletRows'[v] :
                  walletRows'[v][i].via = op[e].via /\ walletRows'[v][i].ref = op[e].ref
          \/ /\ ToCredit(op[e], snap[e]) > 0
             /\ \E i \in DOMAIN creditRows'[v] : creditRows'[v][i].ref = op[e].ref
    BY <1>1 DEF RefTaken
  <2>6. ASSUME ToWallet(op[e], snap[e]) # 0, NEW i \in DOMAIN walletRows'[v],
               walletRows'[v][i].via = op[e].via, walletRows'[v][i].ref = op[e].ref
        PROVE  FALSE
    BY <1>5, <2>2, <2>3, <2>6 DEF RefTaken
  <2>7. ASSUME ToCredit(op[e], snap[e]) > 0, NEW i \in DOMAIN creditRows'[v],
               creditRows'[v][i].ref = op[e].ref
        PROVE  FALSE
    BY <1>4, <1>6, <2>2, <2>3, <2>4, <2>7 DEF RefTaken
  <2> QED
    BY <2>5, <2>6, <2>7
<1>11. NotSettledYet'
  <2> SUFFICES ASSUME NEW e \in Callers, pc'[e] \in {"write", "commit"},
                      op[e].via = "WATERFALL", Fresh(e)', AlreadySettled(op[e])'
               PROVE  FALSE
    BY <1>1 DEF NotSettledYet
  <2>1. e # c /\ pc[e] \in {"write", "commit"}
    BY <1>2
  <2>2. /\ op[e].wallet \in Wallets /\ snap[e] \in Document
        /\ doc \in [Wallets -> Document]
    BY <2>1 DEF IInv, TypeOK, Request
  <2>3. CASE op[e].wallet = w
    <3>1. pc[e] = "write"
      BY <1>1, <2>1, <2>3 DEF IInv, CommitterIsFresh
    <3>2. snap[e].version <= d.version
      BY <1>1, <2>3, <3>1 DEF IInv, VersionsIdentify
    <3>3. doc'[w] = NewDocument(o, d, d)
      BY ZenonT(40), <1>1, <2>2, CommitFacts DEF o, w, d
    <3>4. NewDocument(o, d, d).version > d.version /\ NewDocument(o, d, d) \in Document
      BY <1>1, NewDocumentFacts
    <3>5. NewDocument(o, d, d).version = snap[e].version
      BY <1>1, <2>3, <3>3 DEF Fresh
    <3> QED
      BY <1>1, <2>2, <3>2, <3>4, <3>5 DEF Document
  <2>4. CASE op[e].wallet # w
    <3>1. doc'[op[e].wallet] = doc[op[e].wallet]
      BY <1>1, <2>2, <2>4, CommitFacts DEF o, w, d
    <3>2. Fresh(e)
      BY <1>1, <3>1 DEF Fresh
    <3>3. ~AlreadySettled(op[e])
      BY <2>1, <3>2 DEF RefInv, NotSettledYet
    <3> QED
      BY <1>1, <1>8, <2>4, <3>3 DEF AlreadySettled
  <2> QED
    BY <2>3, <2>4
<1>12. CreditRowsNamed'
  BY <1>4, <1>6 DEF RefInv, CreditRowsNamed
<1>13. ReferencePostsOnce'
  <2> SUFFICES ASSUME NEW w1 \in Wallets, NEW w2 \in Wallets
               PROVE  /\ \A i \in DOMAIN walletRows'[w1], j \in DOMAIN walletRows'[w2] :
                           LET r == walletRows'[w1][i]
                               s == walletRows'[w2][j]
                           IN r.ref # None /\ r.ref = s.ref /\ r.via = s.via
                                  => w1 = w2 /\ i = j
                      /\ \A i \in DOMAIN creditRows'[w1], j \in DOMAIN creditRows'[w2] :
                           creditRows'[w1][i].ref = creditRows'[w2][j].ref
                               => w1 = w2 /\ i = j
    BY DEF ReferencePostsOnce
  <2>1. \A v \in Wallets : \A i \in DOMAIN walletRows[v] :
          o.ref # None /\ ToWallet(o, d) # 0 =>
              ~(walletRows[v][i].via = o.via /\ walletRows[v][i].ref = o.ref)
    BY <1>3 DEF RefTaken
  <2>2. \A v \in Wallets : \A i \in DOMAIN creditRows[v] :
          ToCredit(o, d) > 0 => creditRows[v][i].ref # o.ref
    BY <1>3, <1>4 DEF RefTaken
  <2>3. ASSUME NEW i \in DOMAIN walletRows'[w1], NEW j \in DOMAIN walletRows'[w2],
               walletRows'[w1][i].ref # None,
               walletRows'[w1][i].ref = walletRows'[w2][j].ref,
               walletRows'[w1][i].via = walletRows'[w2][j].via
        PROVE  w1 = w2 /\ i = j
    <3>1. CASE i \in DOMAIN walletRows[w1] /\ j \in DOMAIN walletRows[w2]
      BY <1>5, <2>3, <3>1 DEF RefInv, ReferencePostsOnce
    <3>2. CASE i \in DOMAIN walletRows[w1] /\ j \notin DOMAIN walletRows[w2]
      BY <1>5, <2>1, <2>3, <3>2
    <3>3. CASE i \notin DOMAIN walletRows[w1] /\ j \in DOMAIN walletRows[w2]
      BY <1>5, <2>1, <2>3, <3>3
    <3>4. CASE i \notin DOMAIN walletRows[w1] /\ j \notin DOMAIN walletRows[w2]
      BY <1>5, <2>3, <3>4
    <3> QED
      BY <3>1, <3>2, <3>3, <3>4
  <2>4. ASSUME NEW i \in DOMAIN creditRows'[w1], NEW j \in DOMAIN creditRows'[w2],
               creditRows'[w1][i].ref = creditRows'[w2][j].ref
        PROVE  w1 = w2 /\ i = j
    <3>1. CASE i \in DOMAIN creditRows[w1] /\ j \in DOMAIN creditRows[w2]
      BY <1>6, <2>4, <3>1 DEF RefInv, ReferencePostsOnce
    <3>2. CASE i \in DOMAIN creditRows[w1] /\ j \notin DOMAIN creditRows[w2]
      BY <1>6, <2>2, <2>4, <3>2
    <3>3. CASE i \notin DOMAIN creditRows[w1] /\ j \in DOMAIN creditRows[w2]
      BY <1>6, <2>2, <2>4, <3>3
    <3>4. CASE i \notin DOMAIN creditRows[w1] /\ j \notin DOMAIN creditRows[w2]
      BY <1>6, <2>4, <3>4
    <3> QED
      BY <3>1, <3>2, <3>3, <3>4
  <2> QED
    BY <2>3, <2>4
<1>14. SettlementsBacked'
  <2>1. ASSUME NEW s \in settled
        PROVE  /\ s.toCredit + s.toWallet = s.amount
               /\ s.toCredit > 0 => \E i \in DOMAIN creditRows'[s.wallet] :
                     /\ creditRows'[s.wallet][i].ref = s.ref
                     /\ creditRows'[s.wallet][i].delta = -s.toCredit
               /\ s.toWallet > 0 => \E i \in DOMAIN walletRows'[s.wallet] :
                     /\ walletRows'[s.wallet][i].via = "WATERFALL"
                     /\ walletRows'[s.wallet][i].ref = s.ref
                     /\ walletRows'[s.wallet][i].delta = s.toWallet
    <3>1. s.wallet \in Wallets
      BY DEF IInv, TypeOK, Settlement
    <3>2. /\ s.toCredit + s.toWallet = s.amount
          /\ s.toCredit > 0 => \E i \in DOMAIN creditRows[s.wallet] :
                /\ creditRows[s.wallet][i].ref = s.ref
                /\ creditRows[s.wallet][i].delta = -s.toCredit
          /\ s.toWallet > 0 => \E i \in DOMAIN walletRows[s.wallet] :
                /\ walletRows[s.wallet][i].via = "WATERFALL"
                /\ walletRows[s.wallet][i].ref = s.ref
                /\ walletRows[s.wallet][i].delta = s.toWallet
      BY DEF RefInv, SettlementsBacked
    <3> QED
      BY <1>5, <1>6, <3>1, <3>2
  <2>2. CASE settled' = settled
    BY <2>1, <2>2 DEF RefInv, SettlementsBacked
  <2>3. CASE o.via = "WATERFALL" /\ settled' = settled \cup {snapshot}
    <3>1. /\ snapshot.wallet = w /\ snapshot.ref = o.ref
          /\ snapshot.amount = o.amount
          /\ snapshot.toCredit = ToCredit(o, d) /\ snapshot.toWallet = ToWallet(o, d)
      OBVIOUS
    <3>2. \A s \in settled : ~(s.wallet = w /\ s.ref = o.ref)
      BY <1>3, <2>3 DEF AlreadySettled, w, o
    <3>3. o.amount \in Nat
      BY <1>1, WalletsAssumption DEF Request
    <3> HIDE DEF snapshot
    <3>4. /\ snapshot.toCredit + snapshot.toWallet = snapshot.amount
          /\ snapshot.toCredit > 0 => \E i \in DOMAIN creditRows'[snapshot.wallet] :
                /\ creditRows'[snapshot.wallet][i].ref = snapshot.ref
                /\ creditRows'[snapshot.wallet][i].delta = -snapshot.toCredit
          /\ snapshot.toWallet > 0 => \E i \in DOMAIN walletRows'[snapshot.wallet] :
                /\ walletRows'[snapshot.wallet][i].via = "WATERFALL"
                /\ walletRows'[snapshot.wallet][i].ref = snapshot.ref
                /\ walletRows'[snapshot.wallet][i].delta = snapshot.toWallet
      BY <1>4, <1>7, <2>3, <3>1, <3>3
    <3>5. ASSUME NEW s \in settled', NEW t \in settled',
                 t.wallet = s.wallet, t.ref = s.ref
          PROVE  t = s
      BY <2>3, <3>1, <3>2, <3>5 DEF RefInv, SettlementsBacked
    <3>6. ASSUME NEW s \in settled'
          PROVE  /\ s.toCredit + s.toWallet = s.amount
                 /\ s.toCredit > 0 => \E i \in DOMAIN creditRows'[s.wallet] :
                       /\ creditRows'[s.wallet][i].ref = s.ref
                       /\ creditRows'[s.wallet][i].delta = -s.toCredit
                 /\ s.toWallet > 0 => \E i \in DOMAIN walletRows'[s.wallet] :
                       /\ walletRows'[s.wallet][i].via = "WATERFALL"
                       /\ walletRows'[s.wallet][i].ref = s.ref
                       /\ walletRows'[s.wallet][i].delta = s.toWallet
      <4>1. CASE s \in settled
        BY <2>1, <4>1
      <4>2. CASE s = snapshot
        BY <3>4, <4>2
      <4> QED
        BY <2>3, <4>1, <4>2
    <3> QED
      BY <3>5, <3>6 DEF SettlementsBacked
  <2> QED
    BY <1>8, <2>2, <2>3
<1> QED
  BY <1>9, <1>10, <1>11, <1>12, <1>13, <1>14 DEF RefInv

LEMMA NextRefInv == IInv /\ RefInv /\ [Next]_vars => RefInv'
<1> SUFFICES ASSUME IInv, RefInv, [Next]_vars PROVE RefInv'
  OBVIOUS
<1>1. CallsWellFormed'
  BY RequestsStayWellFormed DEF RefInv
<1>2. pc \in [Callers -> Steps]
  BY DEF IInv, TypeOK
<1>3. ASSUME NEW c \in Callers,
             \/ Call(c) \/ Acquire(c) \/ AcquireTimeout(c) \/ Retry(c) \/ Abort(c)
             \/ Release(c) \/ ReleaseFails(c) \/ Crash(c)
      PROVE  RefInv'
  <2>1. /\ UNCHANGED docVars /\ UNCHANGED snap
        /\ \A e \in Callers : pc'[e] \in {"write", "commit"} =>
               pc'[e] = pc[e] /\ op'[e] = op[e]
    <3> USE <1>2 DEF Goto, Leave
    <3>1. CASE Call(c)
      <4>1. PICK o \in Request, step \in {"done", "begin", "acquire"} :
              op' = [op EXCEPT ![c] = o] /\ pc' = [pc EXCEPT ![c] = step]
        BY <3>1 DEF Call
      <4> QED
        BY <3>1, <4>1 DEF Call, IInv, TypeOK
    <3>2. CASE \/ Acquire(c) \/ AcquireTimeout(c) \/ Retry(c) \/ Abort(c)
      BY <3>2 DEF Acquire, AcquireTimeout, Retry, Abort
    <3>3. CASE Release(c) \/ ReleaseFails(c) \/ Crash(c)
      BY <3>3 DEF Release, ReleaseFails, Crash
    <3> QED
      BY <1>3, <3>1, <3>2, <3>3
  <2> QED
    BY <1>1, <2>1, QuietStep
<1>4. ASSUME NEW c \in Callers, Begin(c) PROVE RefInv'
  BY <1>1, <1>4, BeginKeepsRefInv
<1>5. ASSUME NEW c \in Callers, Write(c) PROVE RefInv'
  BY <1>1, <1>5, WriteKeepsRefInv
<1>6. ASSUME NEW c \in Callers, Commit(c) PROVE RefInv'
  BY <1>1, <1>6, CommitKeepsRefInv
<1>7. CASE UNCHANGED <<docVars, callVars>>
  BY <1>1, <1>7, QuietStep DEF callVars
<1> QED
  BY <1>3, <1>4, <1>5, <1>6, <1>7 DEF Next, Proceed, LeaseExpires, vars

-----------------------------------------------------------------------------
(* The theorems *)

\* The inductive invariant of the references holds in every reachable state: a
\* reference's rows, its claim and the attempts that carry it agree, whatever
\* the callers, the crashes and the expired leases do.
THEOREM ReferenceInvariance == Spec => [](IInv /\ RefInv)
<1>1. Init => RefInv
  BY InitRefInv
<1>2. IInv /\ RefInv /\ [Next]_vars => RefInv'
  BY NextRefInv
<1> QED
  BY <1>1, <1>2, Invariance, PTL DEF Spec

\* A gateway reference or idempotency key posts at most one row per bucket, in
\* any wallet, however many deliveries of it race, retry, crash or outrun
\* their lease.
THEOREM PostsOnce == Spec => []ReferencePostsOnce
BY ReferenceInvariance, PTL DEF RefInv

\* A settlement snapshot describes rows that are on the ledger, in full, and
\* there is one snapshot per deposit.
THEOREM SettlementsTold == Spec => []SettlementsBacked
BY ReferenceInvariance, PTL DEF RefInv

-----------------------------------------------------------------------------
(* The concurrent writers implement the sequential ledger *)

\* The initial books are the initial books of the sequential ledger.
LEMMA InitImplements == Init => Sequential!Init
BY WalletsAssumption DEF Init, Sequential!Init

\* A commit is one posting or deposit, decided on the balance it changes.
LEMMA CommitImplements ==
    ASSUME IInv, RefInv, NEW c \in Callers, Commit(c)
    PROVE  Sequential!Next
<1> DEFINE o == op[c]
           w == op[c].wallet
           d == doc[op[c].wallet]
           toWallet == ToWallet(o, d)
           toCredit == ToCredit(o, d)
           balance == [v \in Wallets |-> doc[v].balance]
           credit == [v \in Wallets |-> doc[v].creditUsed]
<1>1. /\ o \in Request /\ w \in Wallets /\ d \in Document
      /\ doc' = [doc EXCEPT ![w] = NewDocument(o, d, d)]
      /\ \/ toWallet = 0 /\ walletRows' = walletRows
         \/ /\ toWallet # 0
            /\ walletRows' =
                 [walletRows EXCEPT ![w] =
                    Append(@, [via |-> o.via, delta |-> toWallet,
                               after |-> d.balance + toWallet,
                               strict |-> o.strict, ref |-> o.ref])]
      /\ Sufficient(o, d)
  BY CommitFacts
<1>2. /\ WellFormed(o) /\ ~RefTaken(o, d)
  BY DEF IInv, CommitterIsFresh, RefInv, CallsWellFormed, KeyOfCommitterFree, Commit
<1>3. /\ toCredit \in Nat /\ toCredit <= d.creditUsed /\ toCredit <= o.amount
      /\ toWallet \in Int
      /\ o.via = "WATERFALL" => toWallet = o.amount - toCredit
      /\ o.via # "WATERFALL" => toCredit = 0
  BY <1>1, SplitFacts
<1>4. /\ doc \in [Wallets -> Document] /\ walletRows \in [Wallets -> Seq(WalletRow)]
      /\ NewDocument(o, d, d).balance = d.balance + toWallet
      /\ NewDocument(o, d, d).creditUsed = d.creditUsed - toCredit
      /\ d.balance \in Int /\ d.creditUsed \in Nat
      /\ o.amount \in Amounts /\ o.amount \in Nat \ {0} /\ o.ref \in Refs \cup {None}
      /\ o.strict \in BOOLEAN /\ o.dir \in {"CREDIT", "DEBIT"}
      /\ o.via \in {"LEDGER", "WATERFALL", "SERVICE"}
  BY <1>1, NewDocumentFacts, WalletsAssumption DEF IInv, TypeOK, Document, Request
<1>5. /\ balance' = [balance EXCEPT ![w] = balance[w] + toWallet]
      /\ credit' = [credit EXCEPT ![w] = credit[w] - toCredit]
      /\ balance[w] = d.balance /\ credit[w] = d.creditUsed
  <2>1. \A v \in Wallets :
          doc'[v] = IF v = w THEN NewDocument(o, d, d) ELSE doc[v]
    BY <1>1, <1>4
  <2> HIDE DEF toWallet, toCredit
  <2> QED
    BY <1>1, <1>4, <2>1
<1> HIDE DEF o, d, w, toWallet, toCredit
<1>6. toWallet # 0 =>
        /\ Sequential!Unused(o.via, o.ref)
        /\ walletRows' =
             [walletRows EXCEPT ![w] =
                Append(walletRows[w], Sequential!Row(o.via, w, toWallet, o.strict, o.ref))]
  BY <1>1, <1>2, <1>5
     DEF Sequential!Unused, Sequential!Row, RefTaken, toWallet, balance, d, w, o
<1>7. balance \in [Wallets -> Int] /\ credit \in [Wallets -> Int]
  BY <1>4 DEF Document
<1> HIDE DEF balance, credit
<1>8. CASE o.via = "WATERFALL"
  <2>1. /\ toCredit \in 0 .. o.amount /\ toCredit <= credit[w]
        /\ toWallet = o.amount - toCredit /\ toWallet >= 0
    BY <1>3, <1>4, <1>5, <1>8
  <2>2. o.strict = FALSE
    BY <1>2, <1>4, <1>8 DEF WellFormed
  <2>3. Sequential!Deposit(w, toCredit, toWallet, o.ref)
    <3>1. \/ toWallet = 0 /\ walletRows' = walletRows
          \/ /\ toWallet > 0
             /\ Sequential!Unused("WATERFALL", o.ref)
             /\ walletRows' =
                  [walletRows EXCEPT ![w] =
                     Append(walletRows[w],
                            Sequential!Row("WATERFALL", w, toWallet, FALSE, o.ref))]
      <4>1. Sequential!Row(o.via, w, toWallet, o.strict, o.ref)
              = Sequential!Row("WATERFALL", w, toWallet, FALSE, o.ref)
        BY <1>8, <2>2, Zenon DEF Sequential!Row
      <4>2. toWallet # 0 => toWallet > 0 /\ Sequential!Unused("WATERFALL", o.ref)
        BY <1>3, <1>6, <1>8, <2>1 DEF Sequential!Unused
      <4> QED
        BY <1>1, <1>6, <4>1, <4>2
    <3> QED
      BY <1>5, <2>1, <3>1 DEF Sequential!Deposit, balance, credit
  <2>4. PICK v \in Wallets, a \in Amounts, ref \in Refs \cup {None}, part \in Nat :
          /\ v = w /\ a = o.amount /\ ref = o.ref /\ part = toCredit
          /\ part \in 0 .. a
    BY <1>1, <1>3, <1>4, <2>1
  <2>5. Sequential!Deposit(v, part, a - part, ref)
    BY <2>1, <2>3, <2>4 DEF Sequential!Deposit, Sequential!Unused, Sequential!Row
  <2> QED
    BY <2>4, <2>5 DEF Sequential!Next
<1>9. CASE o.via # "WATERFALL"
  <2>1. /\ toCredit = 0 /\ toWallet # 0
        /\ o.dir = "CREDIT" => toWallet = o.amount /\ o.strict = FALSE
        /\ o.dir = "DEBIT" => toWallet = -o.amount
        /\ o.strict => balance[w] + toWallet >= 0
    BY <1>1, <1>2, <1>3, <1>4, <1>5, <1>9 DEF ToWallet, toWallet, WellFormed, Sufficient
  <2>2. credit' = credit
    BY <1>1, <1>5, <1>7, <2>1
  <2>3. PICK v \in Wallets, via \in {"LEDGER", "SERVICE"}, a \in Amounts,
             ref \in Refs \cup {None} :
          v = w /\ via = o.via /\ a = o.amount /\ ref = o.ref
    BY <1>1, <1>4, <1>9
  <2>4. CASE o.dir = "CREDIT"
    <3>1. Sequential!Post(w, o.via, o.amount, FALSE, o.ref)
      BY <1>5, <1>6, <2>1, <2>2, <2>4 DEF Sequential!Post, balance, credit
    <3>2. Sequential!Post(v, via, a, FALSE, ref)
      BY <2>3, <3>1 DEF Sequential!Post, Sequential!Unused, Sequential!Row
    <3> QED
      BY <3>2 DEF Sequential!Next
  <2>5. CASE o.dir = "DEBIT"
    <3>1. Sequential!Post(w, o.via, -o.amount, o.strict, o.ref)
      BY <1>5, <1>6, <2>1, <2>2, <2>5 DEF Sequential!Post, balance, credit
    <3>2. PICK strict \in BOOLEAN : strict = o.strict
      BY <1>4
    <3>3. Sequential!Post(v, via, -a, strict, ref)
      BY <2>3, <3>1, <3>2 DEF Sequential!Post, Sequential!Unused, Sequential!Row
    <3> QED
      BY <3>3 DEF Sequential!Next
  <2> QED
    BY <1>4, <2>4, <2>5
<1> QED
  BY <1>8, <1>9

\* Every commit is one sequential posting and every other step, of locks,
\* snapshots, retries, crashes and expiring leases, changes nothing the
\* services that move money can see.
THEOREM Implementation == Spec => ImplementsAtomicWallet
<1>1. Init => Sequential!Init
  BY InitImplements
<1>2. IInv /\ RefInv /\ [Next]_vars => [Sequential!Next]_(Sequential!vars)
  <2> SUFFICES ASSUME IInv, RefInv, [Next]_vars
               PROVE  Sequential!Next \/ UNCHANGED Sequential!vars
    OBVIOUS
  <2>1. CASE UNCHANGED docVars
    BY <2>1 DEF docVars, Sequential!vars
  <2>2. ASSUME NEW c \in Callers, Commit(c) PROVE Sequential!Next
    BY <2>2, CommitImplements
  <2> QED
    BY <2>1, <2>2, BooksChangeAtCommit
<1> QED
  BY <1>1, <1>2, ReferenceInvariance, PTL DEF Spec, ImplementsAtomicWallet, Sequential!Spec
=============================================================================
