------------------------- MODULE BackOfficeProofs --------------------------
(***************************************************************************)
(* Theorems about BackOffice, for any number of documents and clerks and   *)
(* any opening balance, incentive and tax: no interleaving of the five     *)
(* services makes or loses money, keyed transfers settle, and each         *)
(* document tells what was posted about it.                                *)
(*                                                                         *)
(* Two ideas carry the proofs.  A clerk works on a document of the service *)
(* its step belongs to, so a step of one service leaves the documents and  *)
(* clerks of the others alone.  And what the documents do not tell yet is  *)
(* counted: a document is out by the number of clerks between its posting  *)
(* and its save.                                                           *)
(***************************************************************************)
EXTENDS BackOffice, FiniteSetTheorems, TLAPS

-----------------------------------------------------------------------------
(* Clerks and their documents *)

RequestSteps  == {"post", "saveRequest", "dismiss"}
DecideSteps   == {"approve", "reject"}
LegSteps      == {"out", "in", "back"}
AfterLegSteps == {"complete", "fail"}
Working       == LegSteps \cup AfterLegSteps
JobSteps      == {"check", "incentive", "tds"}
ProductSteps  == {"pay", "bookFailed", "voucher", "refundProduct", "cancelProduct"}
KeyedSteps    == {"keyedOut", "keyedIn", "link", "keyedBack"}

\* A clerk works on a document of the service that its step belongs to; only
\* recalls know that they are one.
Matches(step, k) ==
    /\ step = "idle" => k = NoCall
    /\ step \in RequestSteps => k.doc \in Requests /\ ~k.recall
    /\ step \in DecideSteps => k.doc \in Transfers /\ ~k.recall
    /\ step \in {"recall", "reverse"} => k.doc \in Transfers /\ k.recall
    /\ step \in AfterLegSteps => k.doc \in Transfers
    /\ step \in LegSteps => k.doc \in Transfers \/ k = NoCall
    /\ step \in JobSteps => k.doc \in Deposits /\ ~k.recall
    /\ step \in ProductSteps => k.doc \in Products /\ ~k.recall
    /\ step \in KeyedSteps => k.doc \in Keyed /\ ~k.recall

StepMatchesDocument == \A c \in Clerks : Matches(pc[c], call[c])

\* The types, with integers where only a count can show that a difference is
\* not negative.
TransferTypes ==
    /\ transfer \in [Transfers -> TransferStatuses]
    /\ recalls \in [Transfers -> Int]
    /\ net \in [Transfers -> [Wallets -> Int]]
    /\ contested \subseteq Transfers

DeskInv ==
    /\ DeskTypeOK /\ RequestTypeOK /\ TransferTypes /\ IncentiveTypeOK
    /\ ProductTypeOK /\ KeyedTypeOK
    /\ StepMatchesDocument

-----------------------------------------------------------------------------
(* Keyed transfers and money *)

Holding == {"keyedIn", "link", "keyedBack"}

\* The key of the debit lets one clerk through.
KeyHeldOnce ==
    \A c, d \in Clerks :
        pc[c] \in Holding /\ pc[d] \in Holding /\ Doc(c) = Doc(d) => c = d

RowsAtMostOnce ==
    \A k \in Keyed :
        /\ row[k].out \in {0, 1} /\ row[k].in \in {0, 1}
        /\ row[k].in <= row[k].out /\ row[k].reversed <= row[k].out

\* The rows tell where it is.
HolderKnowsRows ==
    \A c \in Clerks :
        /\ pc[c] \in Holding => row[Doc(c)].out = 1 /\ row[Doc(c)].reversed = 0
        /\ pc[c] = "keyedIn" => row[Doc(c)].in = 0
        /\ pc[c] = "link" => row[Doc(c)].in = 1
        /\ pc[c] = "keyedBack" /\ Doc(c) \notin torn => row[Doc(c)].in = 0

KeyedAccounted ==
    \A k \in Keyed \ torn :
        \/ row[k].out = row[k].in + row[k].reversed
        \/ \E c \in Clerks : pc[c] \in {"keyedIn", "keyedBack"} /\ Doc(c) = k

KeyedInv == KeyHeldOnce /\ RowsAtMostOnce /\ HolderKnowsRows /\ KeyedAccounted

-----------------------------------------------------------------------------
(* What a step of a service leaves alone *)

\* Only clerks of one service, or idle ones, move, and torn grows.
MovesOnly(docs) ==
    /\ torn \subseteq torn'
    /\ \A d \in Clerks :
          \/ pc'[d] = pc[d] /\ call'[d] = call[d]
          \/ /\ call[d].doc \in docs \/ pc[d] = "idle"
             /\ call'[d].doc \in docs \/ pc'[d] = "idle"

\* Clerk c moves; of the others only what they know of their document changes.
OnlyClerk(c) ==
    \A d \in Clerks \ {c} :
        /\ pc'[d] = pc[d]
        /\ call'[d].doc = call[d].doc /\ call'[d].recall = call[d].recall
        /\ \/ call'[d] = call[d]
           \/ call[d].doc = call[c].doc /\ call[c].doc \in Documents /\ call'[d].stale

\* What the step of a clerk does to the clerks.
ClerksMove(c, docs) ==
    /\ pc' \in [Clerks -> Steps] /\ call' \in [Clerks -> Call]
    /\ OnlyClerk(c) /\ MovesOnly(docs) /\ StepMatchesDocument'

\* The facts about pc and call that every proof of a step needs.
LEMMA DeskFacts ==
    ASSUME DeskInv
    PROVE  /\ pc \in [Clerks -> Steps]
           /\ call \in [Clerks -> Call]
           /\ None \notin Documents
           /\ NoCall \in Call /\ NoCall.doc = None
           /\ \A c \in Clerks : Matches(pc[c], call[c])
BY DeskAssumption DEF DeskInv, DeskTypeOK, NoCall, Call, StepMatchesDocument

\* Whoever moves to a step that matches its document leaves every clerk at one.
LEMMA StepMatches ==
    ASSUME DeskInv, NEW c \in Clerks, OnlyClerk(c), Matches(pc'[c], call'[c])
    PROVE  StepMatchesDocument'
<1> SUFFICES ASSUME NEW d \in Clerks, d # c PROVE Matches(pc'[d], call'[d])
  BY DEF StepMatchesDocument, Matches
<1>1. /\ pc'[d] = pc[d]
      /\ call'[d].doc = call[d].doc /\ call'[d].recall = call[d].recall
      /\ call'[d] = call[d] \/ call[d].doc # None
      /\ NoCall.doc = None
      /\ Matches(pc[d], call[d])
  BY DeskFacts DEF OnlyClerk
<1> QED
  BY <1>1 DEF Matches

\* A clerk takes a document.
LEMMA TakeMoves ==
    ASSUME DeskInv, NEW c \in Clerks, NEW docs, NEW doc \in docs, NEW step \in Steps,
           doc \in Documents, pc[c] = "idle", torn \subseteq torn',
           Matches(step, [NoCall EXCEPT !.doc = doc]), Take(c, doc, step)
    PROVE  ClerksMove(c, docs)
<1>1. /\ pc' \in [Clerks -> Steps] /\ call' \in [Clerks -> Call]
      /\ pc'[c] = step /\ call'[c] = [NoCall EXCEPT !.doc = doc]
      /\ call[c] = NoCall
      /\ \A d \in Clerks \ {c} : pc'[d] = pc[d] /\ call'[d] = call[d]
  BY DeskFacts DEF Take, Goto, Call, NoCall, Matches
<1>2. OnlyClerk(c) /\ MovesOnly(docs)
  BY <1>1 DEF OnlyClerk, MovesOnly, NoCall
<1> QED
  BY <1>1, <1>2, StepMatches DEF ClerksMove

\* A clerk is done with its document.
LEMMA LeaveMoves ==
    ASSUME DeskInv, NEW c \in Clerks, NEW docs, call[c].doc \in docs,
           torn \subseteq torn', Leave(c)
    PROVE  ClerksMove(c, docs)
<1>1. /\ pc' \in [Clerks -> Steps] /\ call' \in [Clerks -> Call]
      /\ pc'[c] = "idle" /\ call'[c] = NoCall
      /\ \A d \in Clerks \ {c} : pc'[d] = pc[d] /\ call'[d] = call[d]
  BY DeskFacts DEF Leave, Goto, Steps
<1>2. OnlyClerk(c) /\ MovesOnly(docs)
  BY <1>1, DeskFacts DEF OnlyClerk, MovesOnly
<1>3. Matches("idle", NoCall)
  BY DEF Matches, RequestSteps, DecideSteps, AfterLegSteps, LegSteps, JobSteps,
     ProductSteps, KeyedSteps
<1> QED
  BY <1>1, <1>2, <1>3, StepMatches DEF ClerksMove

\* A clerk goes on with its document.
LEMMA GotoMoves ==
    ASSUME DeskInv, NEW c \in Clerks, NEW docs, NEW step \in Steps,
           call[c].doc \in docs \/ (pc[c] = "idle" /\ None \in docs), torn \subseteq torn',
           Matches(step, call[c]), Goto(c, step), UNCHANGED call
    PROVE  ClerksMove(c, docs)
<1>1. /\ pc' \in [Clerks -> Steps] /\ call' \in [Clerks -> Call]
      /\ pc'[c] = step /\ call'[c] = call[c]
      /\ \A d \in Clerks \ {c} : pc'[d] = pc[d] /\ call'[d] = call[d]
  BY DeskFacts DEF Goto
<1>2. pc[c] = "idle" => call[c].doc = None
  BY DeskFacts DEF Matches
<1>3. OnlyClerk(c) /\ MovesOnly(docs)
  BY <1>1, <1>2 DEF OnlyClerk, MovesOnly
<1> QED
  BY <1>1, <1>3, StepMatches DEF ClerksMove

\* A clerk decides about its document, and what others read of it is stale.
LEMMA DecideMoves ==
    ASSUME DeskInv, NEW c \in Clerks, NEW docs, NEW step \in Steps, NEW memory \in Call,
           call[c].doc \in docs, call[c].doc \in Documents, memory.doc \in docs \/ step = "idle",
           torn \subseteq torn',
           Matches(step, memory), Goto(c, step), call' = Decided(c, memory)
    PROVE  ClerksMove(c, docs) /\ call'[c] = memory
<1>1. /\ pc' \in [Clerks -> Steps] /\ call' \in [Clerks -> Call]
      /\ pc'[c] = step /\ call'[c] = memory
      /\ \A d \in Clerks \ {c} :
            /\ pc'[d] = pc[d]
            /\ call'[d].doc = call[d].doc /\ call'[d].recall = call[d].recall
            /\ \/ call'[d] = call[d]
               \/ call[d].doc = call[c].doc /\ call'[d].stale
  BY DeskFacts DEF Goto, Decided, Doc, Call
<1>2. OnlyClerk(c) /\ MovesOnly(docs)
  BY <1>1 DEF OnlyClerk, MovesOnly
<1> QED
  BY <1>1, <1>2, StepMatches DEF ClerksMove
-----------------------------------------------------------------------------
(* Every step keeps DeskInv, and moves clerks of its service only *)

\* What a posting does to the types.
LEMMA PostTypes ==
    ASSUME DeskInv, NEW w \in Wallets, NEW amount \in Int
    PROVE  /\ Post(w, amount) => balance' \in [Wallets -> Int]
           /\ PostExternal(w, amount) => balance' \in [Wallets -> Int] /\ external' \in Int
BY DEF DeskInv, DeskTypeOK, Post, PostExternal

\* The types after a step of one service, from those of what it changes.
LEMMA DeskKept ==
    ASSUME DeskInv, NEW docs,
           balance' \in [Wallets -> Int], external' \in Int, stranded' \in Nat,
           torn' \subseteq Documents,
           RequestTypeOK', TransferTypes', IncentiveTypeOK', ProductTypeOK', KeyedTypeOK',
           UNCHANGED <<torn, pc, call>> \/ \E c \in Clerks : ClerksMove(c, docs)
    PROVE  DeskInv' /\ MovesOnly(docs)
<1>1. CASE UNCHANGED <<torn, pc, call>>
  BY <1>1 DEF DeskInv, DeskTypeOK, StepMatchesDocument, MovesOnly
<1>2. CASE \E c \in Clerks : ClerksMove(c, docs)
  BY <1>2 DEF DeskInv, DeskTypeOK, ClerksMove
<1> QED
  BY <1>1, <1>2

\* What a service does not touch keeps its types.
LEMMA TypesKept ==
    ASSUME DeskInv
    PROVE  /\ UNCHANGED requestVars => RequestTypeOK'
           /\ UNCHANGED transferVars => TransferTypes'
           /\ UNCHANGED incentiveVars => IncentiveTypeOK'
           /\ UNCHANGED productVars => ProductTypeOK'
           /\ UNCHANGED keyedVars => KeyedTypeOK'
BY DEF DeskInv, requestVars, transferVars, incentiveVars, productVars, keyedVars,
   RequestTypeOK, TransferTypes, IncentiveTypeOK, ProductTypeOK, KeyedTypeOK

LEMMA RequestStepMoves ==
    ASSUME DeskInv, RequestNext,
           UNCHANGED <<transferVars, incentiveVars, productVars, keyedVars>>
    PROVE  DeskInv' /\ MovesOnly(Requests)
<1> USE DeskFacts
<1>t. /\ balance \in [Wallets -> Int] /\ external \in Int /\ stranded \in Nat
      /\ torn \subseteq Documents /\ RequestTypeOK
  BY DEF DeskInv, DeskTypeOK
<1>2. ASSUME NEW r \in Requests, InitiateTopup(r) \/ ProposeAdjustment(r)
      PROVE  /\ balance' \in [Wallets -> Int] /\ external' \in Int /\ stranded' \in Nat
             /\ torn' \subseteq Documents /\ RequestTypeOK' /\ UNCHANGED <<torn, pc, call>>
  BY <1>2, <1>t, PostTypes DEF InitiateTopup, ProposeAdjustment, Ask, deskVars, money,
     RequestTypeOK, RequestStatuses, Pending
<1>3. ASSUME NEW c \in Clerks, NEW r \in Requests, ReadRequest(c, r)
      PROVE  ClerksMove(c, Requests) /\ UNCHANGED <<money, torn, requestVars>>
  <2>1. PICK step \in AfterGuard : Take(c, r, step)
    BY <1>3 DEF ReadRequest
  <2>2. /\ step \in Steps
        /\ Matches(step, [NoCall EXCEPT !.doc = r])
    BY DEF AfterGuard, Steps, Matches, RequestSteps, DecideSteps, AfterLegSteps, LegSteps,
       JobSteps, ProductSteps, KeyedSteps, NoCall
  <2> QED
    BY <1>3, <2>1, <2>2, TakeMoves DEF ReadRequest, Documents
<1>4. ASSUME NEW c \in Clerks, pc[c] \in RequestSteps
      PROVE  /\ Doc(c) \in Requests /\ call[c].doc \in Requests
             /\ call[c] \in Call
             /\ Matches("saveRequest", call[c]) /\ Matches("idle", NoCall)
             /\ {"idle", "saveRequest"} \subseteq Steps
  BY <1>4 DEF Matches, RequestSteps, DecideSteps, AfterLegSteps, LegSteps,
     JobSteps, ProductSteps, KeyedSteps, Doc, Steps
<1>5. ASSUME NEW c \in Clerks, PostRequest(c)
      PROVE  /\ ClerksMove(c, Requests) /\ UNCHANGED <<stranded, torn>>
             /\ balance' \in [Wallets -> Int] /\ external' \in Int /\ RequestTypeOK'
  <2>1. Doc(c) \in Requests /\ pc[c] \in RequestSteps
    BY <1>4, <1>5 DEF PostRequest, RequestSteps
  <2>2. ClerksMove(c, Requests)
    BY <1>4, <1>5, <2>1, GotoMoves, LeaveMoves DEF PostRequest
  <2>3. balance' \in [Wallets -> Int] /\ external' \in Int
    BY <1>t, <1>5, <2>1, PostTypes DEF PostRequest, RequestTypeOK
  <2> QED
    BY <1>t, <1>5, <2>1, <2>2, <2>3 DEF PostRequest, RequestTypeOK
<1>6. ASSUME NEW c \in Clerks, SaveApproved(c) \/ Dismiss(c)
      PROVE  /\ ClerksMove(c, Requests) /\ UNCHANGED money
             /\ torn' \subseteq Documents /\ RequestTypeOK'
  <2>1. PICK status \in {"APPROVED", "REJECTED", "CANCELLED"} : Decide(c, status)
    BY <1>6 DEF SaveApproved, Dismiss, Dismissals
  <2>2. Doc(c) \in Requests /\ pc[c] \in RequestSteps /\ Doc(c) = call[c].doc
    BY <1>4, <1>6 DEF SaveApproved, Dismiss, RequestSteps, Doc
  <2>3. torn' \subseteq Documents /\ torn \subseteq torn'
    BY <1>t, <2>1, <2>2 DEF Decide, TornIfStale, Documents
  <2>4. ClerksMove(c, Requests)
    BY <1>4, <2>1, <2>2, <2>3, DecideMoves DEF Decide, Documents
  <2> QED
    BY <1>t, <2>1, <2>2, <2>3, <2>4 DEF Decide, RequestTypeOK, RequestStatuses
<1> QED
  <2>1. /\ balance' \in [Wallets -> Int] /\ external' \in Int /\ stranded' \in Nat
        /\ torn' \subseteq Documents
        /\ RequestTypeOK'
        /\ UNCHANGED <<torn, pc, call>> \/ \E c \in Clerks : ClerksMove(c, Requests)
    BY <1>t, <1>2, <1>3, <1>5, <1>6 DEF RequestNext, money, requestVars, RequestTypeOK
  <2> QED
    BY <2>1, TypesKept, DeskKept
\* What the step that a clerk is at says about its document.
LEMMA ClerkAt ==
    ASSUME DeskInv, NEW c \in Clerks
    PROVE  /\ call[c] \in Call /\ Doc(c) = call[c].doc
           /\ Matches("idle", NoCall)
           /\ pc[c] = "idle" => call[c] = NoCall
           /\ pc[c] \in RequestSteps => Doc(c) \in Requests /\ ~call[c].recall
           /\ pc[c] \in DecideSteps => Doc(c) \in Transfers /\ ~call[c].recall
           /\ pc[c] \in {"recall", "reverse"} => Doc(c) \in Transfers /\ call[c].recall
           /\ pc[c] \in AfterLegSteps => Doc(c) \in Transfers
           /\ pc[c] \in LegSteps => Doc(c) \in Transfers \/ (call[c] = NoCall /\ Doc(c) = None)
           /\ pc[c] \in JobSteps => Doc(c) \in Deposits /\ ~call[c].recall
           /\ pc[c] \in ProductSteps => Doc(c) \in Products /\ ~call[c].recall
           /\ pc[c] \in KeyedSteps => Doc(c) \in Keyed /\ ~call[c].recall
<1>1. Matches("idle", NoCall)
  BY DEF Matches, RequestSteps, DecideSteps, AfterLegSteps, LegSteps, JobSteps,
     ProductSteps, KeyedSteps
<1> QED
  BY <1>1, DeskFacts DEF Matches, Doc

LEMMA KeyedStepMoves ==
    ASSUME DeskInv, KeyedNext,
           UNCHANGED <<requestVars, transferVars, incentiveVars, productVars>>
    PROVE  DeskInv' /\ MovesOnly(Keyed)
<1> USE DeskFacts
<1>t. /\ balance \in [Wallets -> Int] /\ external \in Int /\ stranded \in Nat
      /\ torn \subseteq Documents /\ KeyedTypeOK
  BY DEF DeskInv, DeskTypeOK
<1> DEFINE Kept(c) == /\ balance' \in [Wallets -> Int] /\ external' \in Int /\ stranded' \in Nat
                      /\ torn' \subseteq Documents /\ KeyedTypeOK' /\ ClerksMove(c, Keyed)
<1>1. SUFFICES ASSUME NEW c \in Clerks,
                      \/ \E k \in Keyed : StartTransfer(c, k)
                      \/ KeyedOut(c) \/ KeyedOutThrows(c) \/ KeyedIn(c) \/ KeyedInThrows(c)
                      \/ Link(c) \/ KeyedBack(c) \/ KeyedLost(c)
               PROVE  Kept(c)
  BY DeskKept, TypesKept DEF KeyedNext
<1>2. ASSUME NEW k \in Keyed, StartTransfer(c, k) PROVE Kept(c)
  <2>1. "keyedOut" \in Steps /\ Matches("keyedOut", [NoCall EXCEPT !.doc = k])
    BY DEF Steps, Matches, RequestSteps, DecideSteps, AfterLegSteps, LegSteps,
       JobSteps, ProductSteps, KeyedSteps, NoCall
  <2>2. ClerksMove(c, Keyed)
    BY <1>2, <2>1, TakeMoves DEF StartTransfer, Documents
  <2> QED
    BY <1>t, <1>2, <2>2 DEF StartTransfer, money, keyedVars, KeyedTypeOK
<1>3. ASSUME pc[c] \in KeyedSteps
      PROVE  /\ Doc(c) \in Keyed /\ call[c].doc \in Keyed /\ Doc(c) \in Documents
             /\ Matches("idle", NoCall)
             /\ \A step \in {"keyedIn", "link", "keyedBack"} :
                   step \in Steps /\ Matches(step, call[c])
  BY <1>3, ClerkAt DEF Steps, Matches, RequestSteps, DecideSteps, AfterLegSteps, LegSteps,
     JobSteps, ProductSteps, KeyedSteps, Documents
<1>4. CASE KeyedOut(c) \/ KeyedIn(c)
  <2>1. pc[c] \in KeyedSteps
    BY <1>4 DEF KeyedOut, KeyedIn, KeyedSteps
  <2>2. ClerksMove(c, Keyed)
    BY <1>3, <1>4, <2>1, GotoMoves DEF KeyedOut, KeyedIn
  <2>3. balance' \in [Wallets -> Int]
    BY <1>4, PostTypes DEF KeyedOut, KeyedIn, Wallets
  <2>4. KeyedTypeOK'
    BY <1>t, <1>3, <1>4, <2>1 DEF KeyedOut, KeyedIn, KeyedTypeOK
  <2> QED
    BY <1>t, <1>4, <2>2, <2>3, <2>4 DEF KeyedOut, KeyedIn
<1>5. CASE KeyedOutThrows(c) \/ KeyedInThrows(c) \/ Link(c) \/ KeyedLost(c)
  <2>1. pc[c] \in KeyedSteps
    BY <1>5 DEF KeyedOutThrows, KeyedInThrows, Link, KeyedLost, KeyedSteps
  <2>2. ClerksMove(c, Keyed)
    BY <1>3, <1>5, <2>1, GotoMoves, LeaveMoves DEF KeyedOutThrows, KeyedInThrows, Link, KeyedLost
  <2>3. UNCHANGED keyedVars /\ UNCHANGED <<balance, external>>
        /\ stranded' \in Nat /\ torn' \subseteq Documents
    BY <1>t, <1>3, <1>5, <2>1 DEF KeyedOutThrows, KeyedInThrows, Link, KeyedLost, money
  <2> QED
    BY <1>t, <2>2, <2>3, TypesKept
<1>6. CASE KeyedBack(c)
  <2>1. pc[c] \in KeyedSteps
    BY <1>6 DEF KeyedBack, KeyedSteps
  <2>2. ClerksMove(c, Keyed)
    BY <1>3, <1>6, <2>1, LeaveMoves DEF KeyedBack
  <2>3. balance' \in [Wallets -> Int]
    BY <1>6, PostTypes DEF KeyedBack, Wallets
  <2>4. KeyedTypeOK'
    BY <1>t, <1>3, <1>6, <2>1 DEF KeyedBack, KeyedTypeOK
  <2> QED
    BY <1>t, <1>6, <2>2, <2>3, <2>4 DEF KeyedBack
<1> QED
  BY <1>1, <1>2, <1>4, <1>5, <1>6
LEMMA ProductStepMoves ==
    ASSUME DeskInv, ProductNext,
           UNCHANGED <<requestVars, transferVars, incentiveVars, keyedVars>>
    PROVE  DeskInv' /\ MovesOnly(Products)
<1> USE DeskFacts
<1>t. /\ balance \in [Wallets -> Int] /\ external \in Int /\ stranded \in Nat
      /\ torn \subseteq Documents /\ ProductTypeOK
  BY DEF DeskInv, DeskTypeOK
<1> DEFINE Kept(c) == /\ balance' \in [Wallets -> Int] /\ external' \in Int /\ stranded' \in Nat
                      /\ torn' \subseteq Documents /\ ProductTypeOK' /\ ClerksMove(c, Products)
<1>1. SUFFICES ASSUME NEW c \in Clerks,
                      \/ \E p \in Products :
                            \/ ReadToCancel(c, p)
                            \/ \E kind \in {"holiday", "hotel"} : QuickBook(c, p, kind)
                      \/ PayProduct(c) \/ PaymentRefused(c) \/ SaveBookFailed(c)
                      \/ SaveVouchered(c) \/ RefundProduct(c) \/ RefundThrows(c)
                      \/ SaveProductCancelled(c)
               PROVE  Kept(c)
  BY DeskKept, TypesKept DEF ProductNext
<1>2. ASSUME NEW p \in Products,
             ReadToCancel(c, p) \/ \E kind \in {"holiday", "hotel"} : QuickBook(c, p, kind)
      PROVE  Kept(c)
  <2>1. \A step \in {"refundProduct", "pay"} :
           step \in Steps /\ Matches(step, [NoCall EXCEPT !.doc = p])
    BY DEF Steps, Matches, RequestSteps, DecideSteps, AfterLegSteps, LegSteps,
       JobSteps, ProductSteps, KeyedSteps, NoCall
  <2>2. torn \subseteq torn' /\ torn' \subseteq Documents /\ pc[c] = "idle"
    BY <1>t, <1>2 DEF ReadToCancel, QuickBook, Documents
  <2>3. ClerksMove(c, Products)
    BY <1>2, <2>1, <2>2, TakeMoves DEF ReadToCancel, QuickBook, Documents
  <2> QED
    BY <1>t, <1>2, <2>2, <2>3 DEF ReadToCancel, QuickBook, money, productVars, ProductTypeOK,
       ProductStatuses
<1>3. ASSUME pc[c] \in ProductSteps
      PROVE  /\ Doc(c) \in Products /\ call[c].doc \in Products
             /\ Matches("idle", NoCall)
             /\ \A step \in {"voucher", "bookFailed", "cancelProduct"} :
                   step \in Steps /\ Matches(step, call[c])
  BY <1>3, ClerkAt DEF Steps, Matches, RequestSteps, DecideSteps, AfterLegSteps, LegSteps,
     JobSteps, ProductSteps, KeyedSteps
<1>4. CASE PayProduct(c) \/ RefundProduct(c)
  <2>1. pc[c] \in ProductSteps
    BY <1>4 DEF PayProduct, RefundProduct, ProductSteps
  <2>2. ClerksMove(c, Products)
    BY <1>3, <1>4, <2>1, GotoMoves, LeaveMoves DEF PayProduct, RefundProduct
  <2>3. balance' \in [Wallets -> Int] /\ external' \in Int
    BY <1>t, <1>4, PostTypes DEF PayProduct, RefundProduct, Wallets
  <2>4. ProductTypeOK'
    BY <1>t, <1>3, <1>4, <2>1 DEF PayProduct, RefundProduct, ProductTypeOK
  <2> QED
    BY <1>t, <1>4, <2>2, <2>3, <2>4 DEF PayProduct, RefundProduct
<1>5. CASE PaymentRefused(c) \/ RefundThrows(c)
  BY <1>t, <1>3, <1>5, GotoMoves, LeaveMoves, TypesKept
     DEF PaymentRefused, RefundThrows, ProductSteps, money
<1>6. CASE SaveBookFailed(c) \/ SaveVouchered(c) \/ SaveProductCancelled(c)
  <2>1. /\ pc[c] \in ProductSteps
        /\ \E status \in ProductStatuses : SaveProduct(c, status)
    BY <1>6 DEF SaveBookFailed, SaveVouchered, SaveProductCancelled, ProductSteps,
       ProductStatuses
  <2>2. ProductTypeOK'
    BY <1>t, <1>3, <2>1 DEF SaveProduct, ProductTypeOK
  <2> QED
    BY <1>t, <1>3, <2>1, <2>2, LeaveMoves DEF SaveProduct, money
<1> QED
  BY <1>1, <1>2, <1>4, <1>5, <1>6

LEMMA IncentiveStepMoves ==
    ASSUME DeskInv, IncentiveNext,
           UNCHANGED <<requestVars, transferVars, productVars, keyedVars>>
    PROVE  DeskInv' /\ MovesOnly(Deposits)
<1> USE DeskFacts
<1>t. /\ balance \in [Wallets -> Int] /\ external \in Int /\ stranded \in Nat
      /\ torn \subseteq Documents /\ IncentiveTypeOK
      /\ Incentive \in Nat /\ Tds \in Nat /\ "agency" \in Wallets
  BY IncentiveAssumption DEF DeskInv, DeskTypeOK, Wallets
<1> DEFINE Kept == /\ balance' \in [Wallets -> Int] /\ external' \in Int /\ stranded' \in Nat
                   /\ torn' \subseteq Documents /\ IncentiveTypeOK'
<1>1. ASSUME NEW d \in Deposits, ApplyDeposit(d)
      PROVE  Kept /\ UNCHANGED <<torn, pc, call>>
  BY <1>t, <1>1, PostTypes DEF ApplyDeposit, IncentiveTypeOK, JobStates
<1>2. ASSUME NEW d \in Deposits, StallJob(d)
      PROVE  DeskInv' /\ MovesOnly(Deposits)
  <2>1. Kept
    <3>1. PICK state \in JobStates :
             job' = [job EXCEPT ![d].state = state, ![d].stalled = TRUE]
      <4>1. CASE job[d].stalled
        <5> "failed" \in JobStates  BY DEF JobStates
        <5> WITNESS "failed" \in JobStates
        <5> QED  BY <1>2, <4>1 DEF StallJob
      <4>2. CASE ~job[d].stalled
        <5> "queued" \in JobStates  BY DEF JobStates
        <5> WITNESS "queued" \in JobStates
        <5> QED  BY <1>2, <4>2 DEF StallJob
      <4> QED
        BY <4>1, <4>2
    <3>2. job' \in [Deposits -> [state : JobStates, attempts : Nat, stalled : BOOLEAN]]
      BY <1>t, <3>1 DEF IncentiveTypeOK
    <3> QED
      BY <1>t, <1>2, <3>2 DEF StallJob, IncentiveTypeOK, money
  <2>2. call' \in [Clerks -> Call]
    BY <1>2 DEF StallJob, Call
  <2>3. \A c \in Clerks :
           /\ call'[c].doc = call[c].doc /\ call'[c].recall = call[c].recall
           /\ call[c].doc # d => call'[c] = call[c]
    BY <1>2 DEF StallJob, Call, Doc
  <2>4. StepMatchesDocument'
    <3> SUFFICES ASSUME NEW c \in Clerks PROVE Matches(pc[c], call'[c])
      BY <1>2 DEF StallJob, StepMatchesDocument
    <3>1. Matches(pc[c], call[c]) /\ (call[c] = NoCall => call'[c] = NoCall)
      BY <2>3, DeskFacts DEF Documents
    <3> QED
      BY <2>3, <3>1 DEF Matches
  <2>5. MovesOnly(Deposits)
    BY <1>2, <2>3 DEF StallJob, MovesOnly
  <2> QED
    BY <1>2, <2>1, <2>2, <2>4, <2>5, TypesKept DEF StallJob, DeskInv, DeskTypeOK
<1>3. ASSUME NEW c \in Clerks, NEW d \in Deposits, PickUp(c, d)
      PROVE  Kept /\ ClerksMove(c, Deposits)
  <2>1. "check" \in Steps /\ Matches("check", [NoCall EXCEPT !.doc = d])
    BY DEF Steps, Matches, RequestSteps, DecideSteps, AfterLegSteps, LegSteps,
       JobSteps, ProductSteps, KeyedSteps, NoCall
  <2>2. ClerksMove(c, Deposits)
    BY <1>3, <2>1, TakeMoves DEF PickUp, Documents
  <2> QED
    BY <1>t, <1>3, <2>2 DEF PickUp, money, IncentiveTypeOK, JobStates
<1>4. ASSUME NEW c \in Clerks, pc[c] \in JobSteps
      PROVE  /\ Doc(c) \in Deposits /\ call[c].doc \in Deposits
             /\ Matches("idle", NoCall)
             /\ \A step \in {"incentive", "tds"} : step \in Steps /\ Matches(step, call[c])
  BY <1>4, ClerkAt DEF Steps, Matches, RequestSteps, DecideSteps, AfterLegSteps, LegSteps,
     JobSteps, ProductSteps, KeyedSteps
<1>5. ASSUME NEW c \in Clerks, CheckExisting(c) \/ CreditIncentive(c) \/ DeductTds(c)
      PROVE  Kept /\ ClerksMove(c, Deposits)
  <2>1. pc[c] \in JobSteps /\ torn' = torn /\ stranded' = stranded
    BY <1>5 DEF CheckExisting, CreditIncentive, DeductTds, JobSteps, money
  <2>2. ClerksMove(c, Deposits)
    BY <1>4, <1>5, <2>1, GotoMoves, LeaveMoves
       DEF CheckExisting, CreditIncentive, DeductTds, Finish, Retry, Settle
  <2>3. balance' \in [Wallets -> Int] /\ external' \in Int
    <3>1. CASE UNCHANGED <<balance, external>>
      BY <1>t, <3>1
    <3>2. CASE PostExternal("agency", Incentive) \/ PostExternal("agency", -Tds)
      BY <1>t, <3>2, PostTypes
    <3> QED
      BY <1>5, <3>1, <3>2 DEF CheckExisting, CreditIncentive, DeductTds, money
  <2>a. Doc(c) \in Deposits
    BY <1>4, <2>1
  <2>4. job' \in [Deposits -> [state : JobStates, attempts : Nat, stalled : BOOLEAN]]
    <3>1. ASSUME NEW state \in JobStates, Settle(c, state)
          PROVE  job' \in [Deposits -> [state : JobStates, attempts : Nat, stalled : BOOLEAN]]
      <4>1. job' = job \/ job' = [job EXCEPT ![Doc(c)].state = state]
        BY <3>1 DEF Settle
      <4> QED
        BY <1>t, <2>a, <4>1 DEF IncentiveTypeOK
    <3>2. "done" \in JobStates /\ "queued" \in JobStates /\ "failed" \in JobStates
      BY DEF JobStates
    <3>3. ASSUME Finish(c) \/ Retry(c)
          PROVE  \E state \in JobStates : Settle(c, state)
      BY <3>2, <3>3 DEF Finish, Retry
    <3>4. CASE Finish(c) \/ Retry(c)
      BY <3>1, <3>3, <3>4
    <3>5. CASE UNCHANGED job
      BY <1>t, <3>5 DEF IncentiveTypeOK
    <3> QED
      BY <1>5, <3>4, <3>5 DEF CheckExisting, CreditIncentive, DeductTds
  <2>5. IncentiveTypeOK'
    <3>1. credited' \in [Deposits -> Nat]
      <4>1. credited' = credited \/ credited' = [credited EXCEPT ![Doc(c)] = @ + 1]
        BY <1>5 DEF CheckExisting, CreditIncentive, DeductTds
      <4> QED
        BY <1>t, <2>a, <4>1 DEF IncentiveTypeOK
    <3>2. taxed' \in [Deposits -> Nat]
      <4>1. taxed' = taxed \/ taxed' = [taxed EXCEPT ![Doc(c)] = @ + Tds]
        BY <1>5 DEF CheckExisting, CreditIncentive, DeductTds
      <4> QED
        BY <1>t, <2>a, <4>1 DEF IncentiveTypeOK
    <3>3. overlapped' = overlapped /\ untaxed' \subseteq untaxed \cup {Doc(c)}
      BY <1>5 DEF CheckExisting, CreditIncentive, DeductTds
    <3> QED
      BY <1>t, <2>a, <2>4, <3>1, <3>2, <3>3 DEF IncentiveTypeOK
  <2> QED
    BY <1>t, <2>1, <2>2, <2>3, <2>5
<1>6. CASE \/ \E d \in Deposits : ApplyDeposit(d)
           \/ \E c \in Clerks : \/ \E d \in Deposits : PickUp(c, d)
                                \/ CheckExisting(c) \/ CreditIncentive(c) \/ DeductTds(c)
  BY <1>1, <1>3, <1>5, <1>6, TypesKept, DeskKept
<1> QED
  BY <1>2, <1>6 DEF IncentiveNext
LEMMA TransferStepMoves ==
    ASSUME DeskInv, TransferNext,
           UNCHANGED <<requestVars, incentiveVars, productVars, keyedVars>>
    PROVE  DeskInv' /\ MovesOnly(Transfers \cup {None})
<1> USE DeskFacts
<1>t. /\ balance \in [Wallets -> Int] /\ external \in Int /\ stranded \in Nat
      /\ torn \subseteq Documents /\ TransferTypes
      /\ Transfers \subseteq Documents
      /\ {"PENDING_APPROVAL", "COMPLETED", "REJECTED", "REVERSED", "FAILED"}
            \subseteq TransferStatuses
  BY DEF DeskInv, DeskTypeOK, Documents, TransferStatuses
<1> DEFINE Types == /\ balance' \in [Wallets -> Int] /\ external' \in Int /\ stranded' \in Nat
                    /\ torn' \subseteq Documents /\ TransferTypes'
           Kept(c) == Types /\ ClerksMove(c, Transfers \cup {None})
<1>0. ASSUME NEW c \in Clerks
      PROVE  /\ Matches("idle", NoCall)
             /\ Source(c) \in Wallets /\ Target(c) \in Wallets /\ Compensated(c) \in Wallets
             /\ {"idle", "out", "in", "back", "complete", "fail", "recall", "reverse", "approve",
                 "reject"} \subseteq Steps
             /\ pc[c] \in DecideSteps \cup {"recall", "reverse"} \cup Working =>
                   call[c].doc \in Transfers \cup {None}
             /\ Doc(c) = call[c].doc
             /\ pc[c] \in DecideSteps \cup {"recall", "reverse"} \cup AfterLegSteps =>
                   Doc(c) \in Transfers /\ Matches("out", call[c])
             /\ pc[c] \in AfterLegSteps /\ call[c].recall => Matches("reverse", call[c])
             /\ pc[c] \in Working /\ Doc(c) # None =>
                   Doc(c) \in Transfers /\ Matches("fail", call[c]) /\ Matches("complete", call[c])
             /\ pc[c] \in LegSteps => Matches("in", call[c]) /\ Matches("back", call[c])
             /\ pc[c] \in LegSteps => \A step \in LegSteps : Matches(step, call[c])
  BY ClerkAt DEF Steps, Matches, RequestSteps, DecideSteps, AfterLegSteps, LegSteps,
     JobSteps, ProductSteps, KeyedSteps, Source, Target, Compensated, Wallets, Working, NoCall
<1>1. ASSUME NEW c \in Clerks, NEW t \in Transfers,
             RequestTransfer(c, t) \/ ReadTransfer(c, t) \/ ReadRecall(c, t)
      PROVE  Types /\ (UNCHANGED <<torn, pc, call>> \/ ClerksMove(c, Transfers \cup {None}))
  <2>1. /\ \A step \in {"out", "approve", "reject"} : Matches(step, [NoCall EXCEPT !.doc = t])
        /\ Matches("recall", [NoCall EXCEPT !.doc = t, !.recall = TRUE])
    BY DEF Matches, RequestSteps, DecideSteps, AfterLegSteps, LegSteps, JobSteps,
       ProductSteps, KeyedSteps, NoCall
  <2>2. Types
    BY <1>t, <1>1 DEF RequestTransfer, ReadTransfer, ReadRecall, money, transferVars,
       TransferTypes
  <2>3. CASE RequestTransfer(c, t) \/ ReadTransfer(c, t)
    BY <1>0, <1>t, <2>1, <2>2, <2>3, TakeMoves DEF RequestTransfer, ReadTransfer
  <2>4. CASE ReadRecall(c, t)
    <3>1. /\ pc' \in [Clerks -> Steps] /\ call' \in [Clerks -> Call]
          /\ pc'[c] = "recall" /\ call'[c] = [NoCall EXCEPT !.doc = t, !.recall = TRUE]
          /\ call[c] = NoCall
          /\ \A d \in Clerks \ {c} : pc'[d] = pc[d] /\ call'[d] = call[d]
      BY <1>0, <1>t, <2>4, ClerkAt DEF ReadRecall, Goto, Call, NoCall
    <3>2. OnlyClerk(c) /\ MovesOnly(Transfers \cup {None})
      BY <2>4, <3>1 DEF OnlyClerk, MovesOnly, NoCall, ReadRecall
    <3> QED
      BY <2>1, <2>2, <3>1, <3>2, StepMatches DEF ClerksMove
  <2> QED
    BY <1>1, <2>3, <2>4
<1>2. ASSUME NEW c \in Clerks, TransferDirectly(c)
      PROVE  Kept(c)
  <2>1. call[c] = NoCall /\ [NoCall EXCEPT !.doc = None] = NoCall /\ call' = call
        /\ UNCHANGED torn
    BY <1>2, ClerkAt DEF TransferDirectly, Take, NoCall
  <2>2. Matches("out", NoCall)
    BY DEF Matches, RequestSteps, DecideSteps, AfterLegSteps, LegSteps, JobSteps,
       ProductSteps, KeyedSteps, NoCall
  <2>3. ClerksMove(c, Transfers \cup {None})
    BY <1>0, <1>2, <2>1, <2>2, GotoMoves DEF TransferDirectly, Take
  <2> QED
    BY <1>t, <1>2, <2>3, TypesKept DEF TransferDirectly, money
<1>3. ASSUME NEW c \in Clerks, ApproveTransfer(c) \/ RejectTransfer(c) \/ SaveReversed(c)
      PROVE  Kept(c)
  <2>1. /\ Doc(c) \in Transfers /\ call[c].doc \in Transfers /\ UNCHANGED money
        /\ Matches("out", call[c]) /\ call[c] \in Call
    BY <1>0, <1>3 DEF ApproveTransfer, RejectTransfer, SaveReversed, SaveDecision, DecideSteps
  <2>2. torn \subseteq torn' /\ torn' \subseteq Documents
    BY <1>t, <1>3, <2>1 DEF ApproveTransfer, RejectTransfer, SaveReversed, SaveDecision, TornIfStale
  <2>3. ClerksMove(c, Transfers \cup {None})
    BY <1>0, <1>t, <1>3, <2>1, <2>2, DecideMoves DEF ApproveTransfer, RejectTransfer, SaveReversed
  <2>4. TransferTypes'
    <3>1. transfer' \in [Transfers -> TransferStatuses]
      BY <1>t, <1>3, <2>1 DEF ApproveTransfer, RejectTransfer, SaveReversed, SaveDecision,
         TransferTypes
    <3> QED
      BY <1>t, <1>3, <2>1, <3>1 DEF ApproveTransfer, RejectTransfer, SaveReversed, SaveDecision,
         TransferTypes
  <2> QED
    BY <1>t, <2>1, <2>2, <2>3, <2>4 DEF money
<1>4. ASSUME NEW c \in Clerks, CreateRecall(c)
      PROVE  Kept(c)
  <2>1. Doc(c) \in Transfers /\ Matches("out", call[c])
    BY <1>0, <1>4 DEF CreateRecall
  <2>2. ClerksMove(c, Transfers \cup {None})
    BY <1>0, <1>4, <2>1, GotoMoves DEF CreateRecall
  <2> QED
    BY <1>t, <1>4, <2>1, <2>2 DEF CreateRecall, money, TransferTypes
<1>5. ASSUME NEW c \in Clerks, TakeOut(c) \/ PutIn(c) \/ GiveBack(c)
      PROVE  Kept(c)
  <2>1. pc[c] \in LegSteps /\ pc[c] \in Working
    BY <1>5 DEF TakeOut, PutIn, GiveBack, LegSteps, Working
  <2>2. torn \subseteq torn' /\ torn' \subseteq Documents /\ stranded' \in Nat
    BY <1>t, <1>0, <1>5, <2>1 DEF TakeOut, PutIn, GiveBack, Refused, money
  <2>3. ClerksMove(c, Transfers \cup {None})
    <3>1. \/ Leave(c)
          \/ /\ UNCHANGED call
             /\ \/ \E step \in {"in", "back"} : Goto(c, step)
                \/ Doc(c) # None /\ \E step \in {"complete", "fail"} : Goto(c, step)
      BY <1>5 DEF TakeOut, PutIn, GiveBack, Refused, AfterLostLeg
    <3> QED
      BY <1>0, <2>1, <2>2, <3>1, GotoMoves, LeaveMoves
  <2>4. \/ UNCHANGED <<balance, external, net>>
        \/ \E w \in Wallets, amount \in {1, -1} : Give(c, w, amount)
    BY <1>0, <1>5, <2>1 DEF TakeOut, PutIn, GiveBack, Refused, money
  <2>5. balance' \in [Wallets -> Int] /\ external' \in Int
    BY <1>t, <2>4, PostTypes DEF Give
  <2>6. TransferTypes'
    <3>1. net' \in [Transfers -> [Wallets -> Int]]
      BY <1>0, <1>t, <2>1, <2>4 DEF Give, TransferTypes
    <3> QED
      BY <1>t, <1>5, <3>1 DEF TakeOut, PutIn, GiveBack, TransferTypes
  <2> QED
    BY <1>t, <2>2, <2>3, <2>5, <2>6
<1>6. ASSUME NEW c \in Clerks, Complete(c) \/ Fail(c)
      PROVE  Kept(c)
  <2>1. /\ pc[c] \in AfterLegSteps /\ pc[c] \in Working /\ UNCHANGED money
        /\ Doc(c) # None /\ Doc(c) \in Transfers
    BY <1>0, <1>t, <1>6 DEF Complete, Fail, AfterLegSteps, Working
  <2>2. torn \subseteq torn' /\ torn' \subseteq Documents
    BY <1>t, <1>6, <2>1 DEF Complete, Fail
  <2>3. ClerksMove(c, Transfers \cup {None})
    <3>1. \/ Leave(c)
          \/ UNCHANGED call /\ Goto(c, "fail")
          \/ UNCHANGED call /\ Goto(c, "reverse") /\ call[c].recall
      BY <1>6 DEF Complete, Fail
    <3> QED
      BY <1>0, <2>1, <2>2, <3>1, GotoMoves, LeaveMoves
  <2>4. TransferTypes'
    <3>1. transfer' \in [Transfers -> TransferStatuses] /\ recalls' \in [Transfers -> Int]
      BY <1>t, <1>6, <2>1 DEF Complete, Fail, TransferTypes, transferVars
    <3> QED
      BY <1>t, <1>6, <3>1 DEF Complete, Fail, TransferTypes, transferVars
  <2> QED
    BY <1>t, <2>1, <2>2, <2>3, <2>4 DEF money
<1>7. /\ Types
      /\ UNCHANGED <<torn, pc, call>> \/ \E c \in Clerks : ClerksMove(c, Transfers \cup {None})
  BY <1>1, <1>2, <1>3, <1>4, <1>5, <1>6 DEF TransferNext
<1> QED
  BY <1>7, TypesKept, DeskKept

\* A clerk dies at any step.
LEMMA CrashMoves ==
    ASSUME DeskInv, NEW c \in Clerks, Crash(c)
    PROVE  /\ DeskInv'
           /\ torn \subseteq torn'
           /\ pc[c] \in Untold => Doc(c) \in torn' \cup {None}
           /\ pc'[c] = "idle" /\ call'[c] = NoCall
           /\ \A d \in Clerks \ {c} : pc'[d] = pc[d] /\ call'[d] = call[d]
<1> USE DeskFacts
<1>t. /\ balance \in [Wallets -> Int] /\ external \in Int /\ stranded \in Nat
      /\ torn \subseteq Documents
      /\ call[c] \in Call /\ Doc(c) = call[c].doc
  BY ClerkAt DEF DeskInv, DeskTypeOK
<1>1. /\ torn \subseteq torn' /\ torn' \subseteq Documents /\ stranded' \in Nat
      /\ UNCHANGED <<balance, external>>
      /\ pc[c] \in Untold => Doc(c) \in torn' \cup {None}
  BY <1>t DEF Crash, Call
<1>2. ClerksMove(c, Documents \cup {None})
  BY <1>t, <1>1, LeaveMoves DEF Crash, Call
<1>3. DeskInv'
  BY <1>t, <1>1, <1>2, DeskKept, TypesKept DEF Crash
<1> QED
  BY <1>1, <1>3 DEF Crash, Leave, Goto
-----------------------------------------------------------------------------
(* Counting clerks *)

\* When only c joins or leaves a set, its cardinality changes by that.
LEMMA CountStep ==
    ASSUME NEW S, NEW T, NEW c, IsFiniteSet(S), \A d : d # c => (d \in S <=> d \in T)
    PROVE  /\ Cardinality(S) \in Nat /\ Cardinality(T) \in Nat
           /\ c \in S /\ c \in T => Cardinality(T) = Cardinality(S)
           /\ c \notin S /\ c \notin T => Cardinality(T) = Cardinality(S)
           /\ c \in S /\ c \notin T => Cardinality(T) = Cardinality(S) - 1
           /\ c \notin S /\ c \in T => Cardinality(T) = Cardinality(S) + 1
<1>1. Cardinality(S) \in Nat
  BY FS_CardinalityType
<1>2. CASE (c \in S) = (c \in T)
  <2>1. S = T
    BY <1>2
  <2> QED
    BY <1>1, <1>2, <2>1
<1>3. CASE c \in S /\ c \notin T
  <2>1. T = S \ {c}
    BY <1>3
  <2>2. Cardinality(T) = Cardinality(S) - 1 /\ IsFiniteSet(T)
    BY <1>3, <2>1, FS_RemoveElement
  <2>3. Cardinality(T) \in Nat
    BY <2>2, FS_CardinalityType
  <2> QED
    BY <1>1, <1>3, <2>2, <2>3
<1>4. CASE c \notin S /\ c \in T
  <2>1. T = S \cup {c}
    BY <1>4
  <2>2. Cardinality(T) = Cardinality(S) + 1
    BY <1>4, <2>1, FS_AddElement
  <2> QED
    BY <1>1, <1>4, <2>2
<1> QED
  BY <1>2, <1>3, <1>4

LEMMA ClerksFinite ==
    ASSUME NEW S \in SUBSET Clerks
    PROVE  IsFiniteSet(S) /\ Cardinality(S) \in Nat
BY DeskAssumption, FS_Subset, FS_CardinalityType

-----------------------------------------------------------------------------
(* Keyed transfers *)

LEMMA KeyedInitInv == Init => KeyedInv
BY DEF Init, DeskInit, KeyedInit, KeyedInv, KeyHeldOnce, RowsAtMostOnce, HolderKnowsRows,
   KeyedAccounted, Holding, NoRow

\* A step of another service.
LEMMA KeyedFrame ==
    ASSUME DeskInv, DeskInv', KeyedInv, NEW docs, MovesOnly(docs), docs \cap Keyed = {},
           UNCHANGED keyedVars
    PROVE  /\ KeyedInv'
           /\ \A c \in Clerks :
                 /\ pc[c] \in Holding <=> pc'[c] \in Holding
                 /\ pc[c] \in Holding => pc'[c] = pc[c] /\ Doc(c)' = Doc(c)
<1>1. \A c \in Clerks : /\ pc[c] \in Holding => Doc(c) \in Keyed
                        /\ pc'[c] \in Holding => Doc(c)' \in Keyed
  BY DEF DeskInv, StepMatchesDocument, Matches, Holding, KeyedSteps, Doc
<1>2. \A c \in Clerks : /\ pc[c] \in Holding <=> pc'[c] \in Holding
                        /\ pc[c] \in Holding => pc'[c] = pc[c] /\ Doc(c)' = Doc(c)
  BY <1>1 DEF MovesOnly, Doc, Holding
<1>3. torn \subseteq torn' /\ row' = row
  BY DEF MovesOnly, keyedVars
<1>4. KeyHeldOnce'
  BY <1>2 DEF KeyedInv, KeyHeldOnce
<1>5. RowsAtMostOnce'
  BY <1>3 DEF KeyedInv, RowsAtMostOnce
<1>6. HolderKnowsRows'
  BY <1>2, <1>3 DEF KeyedInv, HolderKnowsRows, Holding
<1>7. KeyedAccounted'
  BY <1>2, <1>3 DEF KeyedInv, KeyedAccounted, Holding
<1> QED
  BY <1>2, <1>4, <1>5, <1>6, <1>7 DEF KeyedInv
\* What a step of a clerk with a keyed transfer does to the clerks and rows.
LEMMA KeyedMove ==
    ASSUME DeskInv, NEW c \in Clerks, pc[c] \in KeyedSteps
    PROVE  /\ Doc(c) \in Keyed
           /\ \A step : Goto(c, step) /\ UNCHANGED call =>
                 /\ pc'[c] = step /\ Doc(c)' = Doc(c)
                 /\ \A d \in Clerks \ {c} : pc'[d] = pc[d] /\ Doc(d)' = Doc(d)
           /\ Leave(c) => /\ pc'[c] = "idle"
                          /\ \A d \in Clerks \ {c} : pc'[d] = pc[d] /\ Doc(d)' = Doc(d)
BY DeskFacts, ClerkAt DEF Goto, Leave, Doc

LEMMA KeyedStep ==
    ASSUME DeskInv, DeskInv', KeyedInv, KeyedNext
    PROVE  KeyedInv'
<1> USE DeskFacts
<1>t. /\ row \in [Keyed -> [out : Nat, in : Nat, reversed : Nat]]
      /\ KeyHeldOnce /\ RowsAtMostOnce /\ HolderKnowsRows /\ KeyedAccounted
  BY DEF DeskInv, KeyedTypeOK, KeyedInv
<1> SUFFICES ASSUME NEW c \in Clerks,
                    \/ \E k \in Keyed : StartTransfer(c, k)
                    \/ KeyedOut(c) \/ KeyedOutThrows(c) \/ KeyedIn(c) \/ KeyedInThrows(c)
                    \/ Link(c) \/ KeyedBack(c) \/ KeyedLost(c)
             PROVE  KeyedInv'
  BY DEF KeyedNext
<1>1. ASSUME NEW k \in Keyed, StartTransfer(c, k) PROVE KeyedInv'
  <2>1. /\ pc'[c] = "keyedOut" /\ pc[c] = "idle" /\ UNCHANGED <<torn, row>>
        /\ \A d \in Clerks \ {c} : pc'[d] = pc[d] /\ Doc(d)' = Doc(d)
    BY <1>1 DEF StartTransfer, Take, Goto, Doc, keyedVars
  <2>2. KeyHeldOnce' /\ RowsAtMostOnce'
    BY <1>t, <2>1 DEF KeyHeldOnce, RowsAtMostOnce, Holding
  <2>3. HolderKnowsRows' /\ KeyedAccounted'
    BY <1>t, <2>1 DEF HolderKnowsRows, KeyedAccounted, Holding
  <2> QED
    BY <2>2, <2>3 DEF KeyedInv
<1>2. CASE KeyedOut(c)
  <2>1. /\ Doc(c) \in Keyed /\ pc[c] = "keyedOut" /\ pc'[c] = "keyedIn" /\ Doc(c)' = Doc(c)
        /\ \A d \in Clerks \ {c} : pc'[d] = pc[d] /\ Doc(d)' = Doc(d)
        /\ row[Doc(c)].out = 0 /\ UNCHANGED torn
        /\ row' = [row EXCEPT ![Doc(c)].out = 1]
    BY <1>t, <1>2, KeyedMove DEF KeyedOut, OutFresh, KeyedSteps
  <2>2. \A d \in Clerks : pc[d] \in Holding => Doc(d) # Doc(c)
    BY <1>t, <2>1 DEF HolderKnowsRows
  <2>3. KeyHeldOnce'
    BY <1>t, <2>1, <2>2 DEF KeyHeldOnce, Holding
  <2>4. RowsAtMostOnce' /\ HolderKnowsRows'
    BY <1>t, <2>1, <2>2 DEF RowsAtMostOnce, HolderKnowsRows, Holding
  <2>5. KeyedAccounted'
    BY <1>t, <2>1, <2>2 DEF RowsAtMostOnce, KeyedAccounted, Holding
  <2> QED
    BY <2>3, <2>4, <2>5 DEF KeyedInv
<1>3. CASE KeyedIn(c)
  <2>1. /\ Doc(c) \in Keyed /\ pc[c] = "keyedIn" /\ pc'[c] = "link" /\ Doc(c)' = Doc(c)
        /\ \A d \in Clerks \ {c} : pc'[d] = pc[d] /\ Doc(d)' = Doc(d)
        /\ row[Doc(c)].in = 0 /\ UNCHANGED torn
        /\ row' = [row EXCEPT ![Doc(c)].in = 1]
    BY <1>t, <1>3, KeyedMove DEF KeyedIn, KeyedSteps
  <2>2. /\ row[Doc(c)].out = 1 /\ row[Doc(c)].reversed = 0
        /\ \A d \in Clerks \ {c} : pc[d] \in Holding => Doc(d) # Doc(c)
    BY <1>t, <2>1 DEF HolderKnowsRows, KeyHeldOnce, Holding
  <2>3. KeyHeldOnce'
    BY <1>t, <2>1, <2>2 DEF KeyHeldOnce, Holding
  <2>4. RowsAtMostOnce' /\ HolderKnowsRows'
    BY <1>t, <2>1, <2>2 DEF RowsAtMostOnce, HolderKnowsRows, Holding
  <2>5. KeyedAccounted'
    BY <1>t, <2>1, <2>2 DEF RowsAtMostOnce, KeyedAccounted, Holding
  <2> QED
    BY <2>3, <2>4, <2>5 DEF KeyedInv
<1>4. CASE KeyedOutThrows(c)
  <2>1. /\ Doc(c) \in Keyed /\ pc[c] = "keyedOut" /\ pc'[c] = "idle"
        /\ \A d \in Clerks \ {c} : pc'[d] = pc[d] /\ Doc(d)' = Doc(d)
        /\ UNCHANGED <<torn, row>>
    BY <1>4, KeyedMove DEF KeyedOutThrows, KeyedSteps, keyedVars
  <2>2. KeyHeldOnce' /\ RowsAtMostOnce'
    BY <1>t, <2>1 DEF KeyHeldOnce, RowsAtMostOnce, Holding
  <2>3. HolderKnowsRows' /\ KeyedAccounted'
    BY <1>t, <2>1 DEF HolderKnowsRows, KeyedAccounted, Holding
  <2> QED
    BY <2>2, <2>3 DEF KeyedInv
<1>5. CASE KeyedInThrows(c)
  <2>1. /\ Doc(c) \in Keyed /\ pc[c] = "keyedIn" /\ pc'[c] = "keyedBack" /\ Doc(c)' = Doc(c)
        /\ \A d \in Clerks \ {c} : pc'[d] = pc[d] /\ Doc(d)' = Doc(d)
        /\ UNCHANGED <<torn, row>>
    BY <1>5, KeyedMove DEF KeyedInThrows, KeyedSteps, keyedVars
  <2>2. KeyHeldOnce' /\ RowsAtMostOnce'
    BY <1>t, <2>1 DEF KeyHeldOnce, RowsAtMostOnce, Holding
  <2>3. HolderKnowsRows' /\ KeyedAccounted'
    BY <1>t, <2>1 DEF HolderKnowsRows, KeyedAccounted, Holding
  <2> QED
    BY <2>2, <2>3 DEF KeyedInv
<1>6. CASE Link(c)
  <2>1. /\ Doc(c) \in Keyed /\ pc[c] = "link" /\ row' = row
        /\ \A d \in Clerks \ {c} : pc'[d] = pc[d] /\ Doc(d)' = Doc(d)
        /\ \/ pc'[c] = "idle" /\ UNCHANGED torn
           \/ pc'[c] = "keyedBack" /\ Doc(c)' = Doc(c) /\ torn' = torn \cup {Doc(c)}
    BY <1>6, KeyedMove DEF Link, KeyedSteps, keyedVars
  <2>2. row[Doc(c)].out = 1 /\ row[Doc(c)].in = 1 /\ row[Doc(c)].reversed = 0
    BY <1>t, <2>1 DEF HolderKnowsRows, Holding
  <2>3. KeyHeldOnce' /\ RowsAtMostOnce'
    BY <1>t, <2>1 DEF KeyHeldOnce, RowsAtMostOnce, Holding
  <2>4. HolderKnowsRows' /\ KeyedAccounted'
    <3>1. CASE UNCHANGED torn
      BY <1>t, <2>1, <2>2, <3>1 DEF HolderKnowsRows, KeyedAccounted, Holding
    <3>2. CASE pc'[c] = "keyedBack"
      BY <1>t, <2>1, <2>2, <3>2 DEF HolderKnowsRows, KeyedAccounted, Holding
    <3> QED
      BY <2>1, <3>1, <3>2
  <2> QED
    BY <2>3, <2>4 DEF KeyedInv
<1>7. CASE KeyedBack(c)
  <2>1. /\ Doc(c) \in Keyed /\ pc[c] = "keyedBack" /\ pc'[c] = "idle" /\ UNCHANGED torn
        /\ \A d \in Clerks \ {c} : pc'[d] = pc[d] /\ Doc(d)' = Doc(d)
        /\ row' = [row EXCEPT ![Doc(c)].reversed = @ + 1]
    BY <1>7, KeyedMove DEF KeyedBack, KeyedSteps
  <2>2. /\ row[Doc(c)].out = 1 /\ row[Doc(c)].reversed = 0
        /\ Doc(c) \notin torn => row[Doc(c)].in = 0
        /\ \A d \in Clerks \ {c} : pc[d] \in Holding => Doc(d) # Doc(c)
    BY <1>t, <2>1 DEF HolderKnowsRows, KeyHeldOnce, Holding
  <2>3. KeyHeldOnce' /\ RowsAtMostOnce' /\ HolderKnowsRows'
    BY <1>t, <2>1, <2>2 DEF KeyHeldOnce, RowsAtMostOnce, HolderKnowsRows, Holding
  <2>4. KeyedAccounted'
    BY <1>t, <2>1, <2>2 DEF RowsAtMostOnce, KeyedAccounted, Holding
  <2> QED
    BY <2>3, <2>4 DEF KeyedInv
<1>8. CASE KeyedLost(c)
  <2>1. /\ Doc(c) \in Keyed /\ pc[c] = "keyedBack" /\ pc'[c] = "idle"
        /\ torn' = torn \cup {Doc(c)} /\ row' = row
        /\ \A d \in Clerks \ {c} : pc'[d] = pc[d] /\ Doc(d)' = Doc(d)
    BY <1>8, KeyedMove DEF KeyedLost, KeyedSteps, keyedVars
  <2>2. KeyHeldOnce' /\ RowsAtMostOnce'
    BY <1>t, <2>1 DEF KeyHeldOnce, RowsAtMostOnce, Holding
  <2>3. HolderKnowsRows' /\ KeyedAccounted'
    BY <1>t, <2>1 DEF HolderKnowsRows, KeyedAccounted, Holding
  <2> QED
    BY <2>2, <2>3 DEF KeyedInv
<1> QED
  BY <1>1, <1>2, <1>3, <1>4, <1>5, <1>6, <1>7, <1>8

LEMMA KeyedCrash ==
    ASSUME DeskInv, KeyedInv, NEW c \in Clerks, Crash(c)
    PROVE  KeyedInv'
<1>1. /\ torn \subseteq torn' /\ row' = row /\ pc'[c] = "idle"
      /\ pc[c] \in {"keyedIn", "keyedBack"} => Doc(c) \in torn' \cup {None}
      /\ \A d \in Clerks \ {c} : pc'[d] = pc[d] /\ Doc(d)' = Doc(d)
  BY CrashMoves DEF Crash, keyedVars, Untold, Doc
<1>2. Doc(c) \notin Keyed \/ Doc(c) # None
  BY DeskFacts DEF Documents
<1> QED
  BY <1>1, <1>2 DEF KeyedInv, KeyHeldOnce, RowsAtMostOnce, HolderKnowsRows, KeyedAccounted, Holding
-----------------------------------------------------------------------------
(* Money *)

InWallets == balance["agency"] + balance["distributor"]

LEMMA PostTotal ==
    ASSUME DeskInv, NEW w \in Wallets, NEW amount \in Int
    PROVE  /\ Post(w, amount) => InWallets' = InWallets + amount
           /\ PostExternal(w, amount) => /\ InWallets' = InWallets + amount
                                         /\ external' = external + amount
           /\ InWallets \in Int /\ external \in Int /\ amount \in Int
BY DEF DeskInv, DeskTypeOK, Post, PostExternal, InWallets, Wallets

LEMMA MoneyTypes ==
    ASSUME DeskInv
    PROVE  /\ InWallets \in Int /\ external \in Int /\ stranded \in Nat /\ minted \in Nat
           /\ Opening \in Nat
           /\ Carriers \in SUBSET Clerks /\ Cardinality(Carriers) \in Nat
           /\ MoneyConserved <=> InWallets + Cardinality(Carriers) + stranded
                                      = 2 * Opening + external + minted
<1>1. Carriers \in SUBSET Clerks
  BY DEF Carriers
<1>2. Cardinality(Carriers) \in Nat
  BY <1>1, ClerksFinite
<1> QED
  BY <1>1, <1>2, DeskAssumption DEF DeskInv, DeskTypeOK, KeyedTypeOK, InWallets, Wallets,
     MoneyConserved

\* What a step does to the count of carriers, when the other clerks stay or leave
\* with what they carry.
LEMMA CarriersStep ==
    ASSUME DeskInv, NEW c \in Clerks,
           \A d \in Clerks \ {c} : d \in Carriers <=> d \in Carriers'
    PROVE  /\ Cardinality(Carriers) \in Nat /\ Cardinality(Carriers)' \in Nat
           /\ c \in Carriers /\ c \in Carriers' => Cardinality(Carriers)' = Cardinality(Carriers)
           /\ c \notin Carriers /\ c \notin Carriers' =>
                 Cardinality(Carriers)' = Cardinality(Carriers)
           /\ c \in Carriers /\ c \notin Carriers' =>
                 Cardinality(Carriers)' = Cardinality(Carriers) - 1
           /\ c \notin Carriers /\ c \in Carriers' =>
                 Cardinality(Carriers)' = Cardinality(Carriers) + 1
<1>1. Carriers \in SUBSET Clerks /\ IsFiniteSet(Carriers)
  BY ClerksFinite DEF Carriers
<1>2. \A d : d # c => (d \in Carriers <=> d \in Carriers')
  BY DEF Carriers
<1> QED
  BY <1>1, <1>2, CountStep

\* Clerks of requests, deposits and products carry nothing.
LEMMA CarriersFrame ==
    ASSUME DeskInv, DeskInv', NEW docs, MovesOnly(docs),
           docs \cap (Transfers \cup Keyed \cup {None}) = {}, UNCHANGED row
    PROVE  Carriers' = Carriers
<1> SUFFICES ASSUME NEW c \in Clerks PROVE c \in Carriers <=> c \in Carriers'
  BY DEF Carriers
<1>1. /\ pc[c] \in {"in", "back", "keyedIn", "keyedBack"} =>
            call[c].doc \in Transfers \cup Keyed \cup {None}
      /\ pc'[c] \in {"in", "back", "keyedIn", "keyedBack"} =>
            call'[c].doc \in Transfers \cup Keyed \cup {None}
  BY DEF DeskInv, StepMatchesDocument, Matches, LegSteps, KeyedSteps, NoCall
<1> QED
  BY <1>1 DEF Carriers, MovesOnly, Doc

LEMMA RequestMoney ==
    ASSUME DeskInv, DeskInv', MoneyConserved, RequestNext, UNCHANGED keyedVars, MovesOnly(Requests)
    PROVE  MoneyConserved'
<1>1. Carriers' = Carriers /\ minted' = minted
  BY CarriersFrame, DeskAssumption DEF keyedVars, Documents
<1>2. /\ stranded' = stranded
      /\ \/ UNCHANGED <<balance, external>>
         \/ \E w \in Wallets, amount \in {1, -1} : PostExternal(w, amount)
  <2>1. ASSUME NEW r \in Requests PROVE request[r].wallet \in Wallets /\ request[r].delta \in {1, -1}
    BY DEF DeskInv, RequestTypeOK
  <2>2. ASSUME NEW c \in Clerks, PostRequest(c) PROVE Doc(c) \in Requests
    BY <2>2, ClerkAt DEF PostRequest, RequestSteps
  <2> QED
    BY <2>1, <2>2 DEF RequestNext, InitiateTopup, ProposeAdjustment, ReadRequest, PostRequest,
       SaveApproved, Dismiss, Decide, deskVars, money
<1>3. \/ InWallets' = InWallets /\ external' = external
      \/ \E amount \in {1, -1} : /\ InWallets' = InWallets + amount
                                 /\ external' = external + amount
  BY <1>2, PostTotal DEF InWallets
<1> QED
  BY <1>1, <1>2, <1>3, MoneyTypes DEF MoneyConserved, InWallets

LEMMA IncentiveMoney ==
    ASSUME DeskInv, DeskInv', MoneyConserved, IncentiveNext, UNCHANGED keyedVars,
           MovesOnly(Deposits)
    PROVE  MoneyConserved'
<1>1. Carriers' = Carriers /\ minted' = minted
  BY CarriersFrame, DeskAssumption DEF keyedVars, Documents
<1>2. /\ stranded' = stranded
      /\ \/ UNCHANGED <<balance, external>>
         \/ \E amount \in {1, Incentive, -Tds} : PostExternal("agency", amount)
  BY DEF IncentiveNext, ApplyDeposit, StallJob, PickUp, CheckExisting, CreditIncentive, DeductTds,
     money
<1>3. \/ InWallets' = InWallets /\ external' = external
      \/ \E amount \in Int : /\ InWallets' = InWallets + amount
                             /\ external' = external + amount
  BY <1>2, PostTotal, IncentiveAssumption DEF InWallets, Wallets
<1> QED
  BY <1>1, <1>2, <1>3, MoneyTypes DEF MoneyConserved, InWallets

LEMMA ProductMoney ==
    ASSUME DeskInv, DeskInv', MoneyConserved, ProductNext, UNCHANGED keyedVars,
           MovesOnly(Products)
    PROVE  MoneyConserved'
<1>1. Carriers' = Carriers /\ minted' = minted
  BY CarriersFrame, DeskAssumption DEF keyedVars, Documents
<1>2. /\ stranded' = stranded
      /\ \/ UNCHANGED <<balance, external>>
         \/ \E amount \in {1, -1} : PostExternal("agency", amount)
  BY DEF ProductNext, ReadToCancel, QuickBook, PayProduct, PaymentRefused, SaveBookFailed,
     SaveVouchered, RefundProduct, RefundThrows, SaveProductCancelled, SaveProduct, money
<1>3. \/ InWallets' = InWallets /\ external' = external
      \/ \E amount \in {1, -1} : /\ InWallets' = InWallets + amount
                                 /\ external' = external + amount
  BY <1>2, PostTotal DEF InWallets, Wallets
<1> QED
  BY <1>1, <1>2, <1>3, MoneyTypes DEF MoneyConserved, InWallets
\* A transfer takes the money out, carries it, puts it in or strands it.
LEMMA TransferMoney ==
    ASSUME DeskInv, MoneyConserved, TransferNext, UNCHANGED keyedVars
    PROVE  MoneyConserved'
<1>f. row' = row /\ minted' = minted
  BY DEF keyedVars
<1>1. PICK c \in Clerks :
         \/ \E t \in Transfers : RequestTransfer(c, t) \/ ReadTransfer(c, t) \/ ReadRecall(c, t)
         \/ TransferDirectly(c) \/ ApproveTransfer(c) \/ RejectTransfer(c)
         \/ CreateRecall(c) \/ SaveReversed(c)
         \/ TakeOut(c) \/ PutIn(c) \/ GiveBack(c) \/ Complete(c) \/ Fail(c)
  BY DEF TransferNext
<1>2. \A d \in Clerks \ {c} : pc'[d] = pc[d] /\ call'[d].doc = call[d].doc
  <2>1. \/ UNCHANGED call
        \/ Leave(c)
        \/ \E t \in Transfers \cup {None} : call' = [call EXCEPT ![c] = [NoCall EXCEPT !.doc = t]]
        \/ \E t \in Transfers :
              call' = [call EXCEPT ![c] = [NoCall EXCEPT !.doc = t, !.recall = TRUE]]
        \/ \E k \in Call : call' = Decided(c, k)
    BY <1>1, DeskFacts
       DEF RequestTransfer, ReadTransfer, ReadRecall, TransferDirectly, ApproveTransfer,
           RejectTransfer, CreateRecall, SaveReversed, TakeOut, Refused, PutIn, GiveBack, Complete,
           Fail, Take
  <2>2. \A d \in Clerks \ {c} : call'[d].doc = call[d].doc
    BY <2>1, DeskFacts DEF Leave, Decided, Call
  <2>3. \A d \in Clerks \ {c} : pc'[d] = pc[d]
    BY <1>1, DeskFacts
       DEF RequestTransfer, ReadTransfer, ReadRecall, TransferDirectly, ApproveTransfer,
           RejectTransfer, CreateRecall, SaveReversed, TakeOut, Refused, PutIn, GiveBack, Complete,
           Fail, Take, Leave, Goto
  <2> QED
    BY <2>2, <2>3
<1>3. \A d \in Clerks \ {c} : d \in Carriers <=> d \in Carriers'
  BY <1>f, <1>2 DEF Carriers, Doc
<1>m. /\ pc \in [Clerks -> Steps]
      /\ {Source(c), Target(c), Compensated(c)} \subseteq Wallets
      /\ 1 \in Int /\ -1 \in Int
  BY DeskFacts DEF Source, Target, Compensated, Wallets
<1>4. CASE /\ UNCHANGED money
           /\ pc[c] \notin {"in", "back", "keyedIn", "keyedBack"}
           /\ pc'[c] \notin {"in", "back", "keyedIn", "keyedBack"}
  <2>1. c \notin Carriers /\ c \notin Carriers'
    BY <1>4 DEF Carriers
  <2> QED
    BY <1>f, <1>3, <1>4, <2>1, CarriersStep, MoneyTypes DEF MoneyConserved, InWallets, money
<1>5. CASE \/ \E t \in Transfers : RequestTransfer(c, t) \/ ReadTransfer(c, t) \/ ReadRecall(c, t)
           \/ TransferDirectly(c) \/ ApproveTransfer(c) \/ RejectTransfer(c)
           \/ CreateRecall(c) \/ SaveReversed(c) \/ Complete(c) \/ Fail(c)
           \/ pc[c] = "out" /\ Refused(c)
  <2>1. UNCHANGED money
    BY <1>5 DEF RequestTransfer, ReadTransfer, ReadRecall, TransferDirectly, ApproveTransfer,
       RejectTransfer, SaveDecision, CreateRecall, SaveReversed, Complete, Fail, Refused
  <2>2. pc[c] \in {"idle", "approve", "reject", "recall", "reverse", "complete", "fail", "out"}
    BY <1>5 DEF RequestTransfer, ReadTransfer, ReadRecall, TransferDirectly, ApproveTransfer,
       RejectTransfer, SaveDecision, CreateRecall, SaveReversed, Complete, Fail
  <2>3. pc'[c] \in {"idle", "approve", "reject", "recall", "reverse", "complete", "fail", "out"}
    <3>1. \/ pc' = pc
          \/ \E step \in {"idle", "approve", "reject", "recall", "reverse", "fail", "out"} :
                Goto(c, step)
      BY <1>5 DEF RequestTransfer, ReadTransfer, ReadRecall, TransferDirectly, ApproveTransfer,
         RejectTransfer, SaveDecision, CreateRecall, SaveReversed, Complete, Fail, Refused, Take,
         Leave
    <3> QED
      BY <1>m, <2>2, <3>1 DEF Goto
  <2> QED
    BY <1>4, <2>1, <2>2, <2>3
<1>6. CASE TakeOut(c) /\ ~Refused(c)
  <2>1. /\ Post(Source(c), -1) /\ UNCHANGED <<external, stranded>>
        /\ pc[c] = "out" /\ pc'[c] = "in"
    BY <1>m, <1>6 DEF TakeOut, Give, Goto
  <2>2. c \notin Carriers /\ c \in Carriers'
    BY <2>1 DEF Carriers
  <2>3. InWallets' = InWallets - 1
    BY <1>m, <2>1, PostTotal
  <2> QED
    BY <1>f, <1>3, <2>1, <2>2, <2>3, CarriersStep, MoneyTypes DEF MoneyConserved, InWallets
<1>7. CASE PutIn(c)
  <2>1. c \in Carriers /\ stranded' = stranded /\ external' = external
    BY <1>7 DEF PutIn, Carriers, Give
  <2>2. CASE Give(c, Target(c), 1)
    <3>1. pc'[c] \in {"idle", "complete"}
      BY <1>m, <1>7, <2>2, DeskFacts DEF PutIn, Leave, Goto, AfterLostLeg, Give, Post, DeskInv, DeskTypeOK
    <3>2. c \notin Carriers'
      BY <3>1 DEF Carriers
    <3>3. InWallets' = InWallets + 1
      BY <1>m, <2>2, PostTotal DEF Give
    <3> QED
      BY <1>f, <1>3, <2>1, <3>2, <3>3, CarriersStep, MoneyTypes DEF MoneyConserved, InWallets
  <2>3. CASE Goto(c, AfterLostLeg) /\ balance' = balance
    <3>1. c \in Carriers'
      BY <1>m, <2>3 DEF Carriers, Goto, AfterLostLeg
    <3>2. InWallets' = InWallets
      BY <2>3 DEF InWallets
    <3> QED
      BY <1>f, <1>3, <2>1, <3>1, <3>2, CarriersStep, MoneyTypes DEF MoneyConserved, InWallets
  <2> QED
    BY <1>7, <2>2, <2>3 DEF PutIn
<1>8. CASE GiveBack(c)
  <2>1. pc[c] = "back" /\ pc'[c] \in {"idle", "fail"}
    BY <1>m, <1>8 DEF GiveBack, Leave, Goto
  <2>2. c \in Carriers /\ c \notin Carriers'
    BY <2>1 DEF Carriers
  <2>3. /\ external' = external
        /\ \/ Post(Compensated(c), 1) /\ stranded' = stranded
           \/ balance' = balance /\ stranded' = stranded + 1
    BY <1>8 DEF GiveBack, Give
  <2>4. InWallets' + stranded' = InWallets + stranded + 1
    BY <1>m, <2>3, PostTotal, MoneyTypes DEF InWallets
  <2>5. InWallets' \in Int /\ stranded' \in Int
    BY <1>m, <2>3, PostTotal, MoneyTypes DEF InWallets
  <2> QED
    BY <1>f, <1>3, <2>2, <2>3, <2>4, <2>5, CarriersStep, MoneyTypes DEF MoneyConserved, InWallets
<1> QED
  BY <1>1, <1>5, <1>6, <1>7, <1>8 DEF TakeOut

\* A keyed transfer carries until its credit is posted, and its key lets no other
\* clerk change what this one carries.
LEMMA KeyedMoney ==
    ASSUME DeskInv, KeyedInv, MoneyConserved, KeyedNext
    PROVE  MoneyConserved'
<1>1. PICK c \in Clerks :
         \/ \E k \in Keyed : StartTransfer(c, k)
         \/ KeyedOut(c) \/ KeyedOutThrows(c) \/ KeyedIn(c) \/ KeyedInThrows(c)
         \/ Link(c) \/ KeyedBack(c) \/ KeyedLost(c)
  BY DEF KeyedNext
<1>m. /\ pc \in [Clerks -> Steps] /\ call \in [Clerks -> Call]
      /\ row \in [Keyed -> [out : Nat, in : Nat, reversed : Nat]]
      /\ "distributor" \in Wallets /\ "agency" \in Wallets /\ 1 \in Int /\ -1 \in Int
  BY DeskFacts DEF DeskInv, KeyedTypeOK, Wallets
<1>2. \A d \in Clerks \ {c} : pc'[d] = pc[d] /\ call'[d] = call[d]
  BY <1>m, <1>1 DEF StartTransfer, KeyedOut, KeyedOutThrows, KeyedIn, KeyedInThrows, Link,
     KeyedBack, KeyedLost, Take, Leave, Goto
<1>k. pc[c] \in KeyedSteps => Doc(c) \in Keyed
  BY ClerkAt
<1>3. \A d \in Clerks \ {c} : d \in Carriers <=> d \in Carriers'
  <2> SUFFICES ASSUME NEW d \in Clerks \ {c}, pc[d] = "keyedBack"
               PROVE  row'[Doc(d)].in = row[Doc(d)].in
    BY <1>2 DEF Carriers, Doc
  <2>1. Doc(d) \in Keyed
    BY ClerkAt DEF KeyedSteps
  <2>2. pc[c] = "keyedIn" => Doc(c) # Doc(d)
    BY DEF KeyedInv, KeyHeldOnce, Holding
  <2> QED
    BY <1>1, <1>m, <1>k, <2>1, <2>2
       DEF StartTransfer, KeyedOut, KeyedOutThrows, KeyedIn, KeyedInThrows, Link,
           KeyedBack, KeyedLost, keyedVars, KeyedSteps
<1>4. CASE (\E k \in Keyed : StartTransfer(c, k)) \/ KeyedOutThrows(c)
  <2>1. /\ pc[c] \in {"idle", "keyedOut"} /\ pc'[c] \in {"idle", "keyedOut"}
        /\ UNCHANGED <<money, minted>>
    BY <1>m, <1>4 DEF StartTransfer, KeyedOutThrows, Take, Leave, Goto, keyedVars
  <2>2. c \notin Carriers /\ c \notin Carriers'
    BY <2>1 DEF Carriers
  <2> QED
    BY <1>3, <2>1, <2>2, CarriersStep, MoneyTypes DEF MoneyConserved, InWallets, money
<1>5. CASE KeyedOut(c)
  <2>1. /\ Post("distributor", -1) /\ UNCHANGED <<external, stranded, minted>>
        /\ pc[c] = "keyedOut" /\ pc'[c] = "keyedIn"
    BY <1>m, <1>5 DEF KeyedOut, Goto
  <2>2. c \notin Carriers /\ c \in Carriers'
    BY <2>1 DEF Carriers
  <2>3. InWallets' = InWallets - 1
    BY <1>m, <2>1, PostTotal
  <2> QED
    BY <1>3, <2>1, <2>2, <2>3, CarriersStep, MoneyTypes DEF MoneyConserved, InWallets
<1>6. CASE KeyedIn(c)
  <2>1. /\ Post("agency", 1) /\ UNCHANGED <<external, stranded, minted>>
        /\ pc[c] = "keyedIn" /\ pc'[c] = "link"
    BY <1>m, <1>6 DEF KeyedIn, Goto
  <2>2. c \in Carriers /\ c \notin Carriers'
    BY <2>1 DEF Carriers
  <2>3. InWallets' = InWallets + 1
    BY <1>m, <2>1, PostTotal
  <2> QED
    BY <1>3, <2>1, <2>2, <2>3, CarriersStep, MoneyTypes DEF MoneyConserved, InWallets
<1>7. CASE KeyedInThrows(c)
  <2>1. /\ pc[c] = "keyedIn" /\ pc'[c] = "keyedBack" /\ call' = call
        /\ UNCHANGED <<money, row, minted>>
    BY <1>m, <1>7 DEF KeyedInThrows, Goto, keyedVars
  <2>2. row[Doc(c)].in = 0
    BY <2>1 DEF KeyedInv, HolderKnowsRows
  <2>3. c \in Carriers /\ c \in Carriers'
    BY <2>1, <2>2 DEF Carriers, Doc
  <2> QED
    BY <1>3, <2>1, <2>3, CarriersStep, MoneyTypes DEF MoneyConserved, InWallets, money
<1>8. CASE Link(c)
  <2>1. /\ pc[c] = "link" /\ UNCHANGED <<money, row, minted>>
        /\ \/ pc'[c] = "idle"
           \/ pc'[c] = "keyedBack" /\ call' = call
    BY <1>m, <1>8 DEF Link, Leave, Goto, keyedVars
  <2>2. row[Doc(c)].in = 1
    BY <2>1 DEF KeyedInv, HolderKnowsRows
  <2>3. c \notin Carriers /\ c \notin Carriers'
    BY <2>1, <2>2 DEF Carriers, Doc
  <2> QED
    BY <1>3, <2>1, <2>3, CarriersStep, MoneyTypes DEF MoneyConserved, InWallets, money
<1>9. CASE KeyedBack(c) \/ KeyedLost(c)
  <2>1. /\ pc[c] = "keyedBack" /\ pc'[c] = "idle" /\ external' = external
        /\ \/ /\ Post("distributor", 1) /\ stranded' = stranded
              /\ minted' = minted + row[Doc(c)].in
           \/ /\ balance' = balance /\ minted' = minted
              /\ stranded' = IF row[Doc(c)].in = 0 THEN stranded + 1 ELSE stranded
    BY <1>m, <1>9 DEF KeyedBack, KeyedLost, Leave, Goto, keyedVars
  <2>2. row[Doc(c)].in \in {0, 1}
    BY <1>k, <2>1 DEF KeyedInv, RowsAtMostOnce, KeyedSteps
  <2>3. c \notin Carriers' /\ (c \in Carriers <=> row[Doc(c)].in = 0)
    BY <2>1 DEF Carriers
  <2>4. InWallets' = InWallets + 1 \/ InWallets' = InWallets
    BY <1>m, <2>1, PostTotal DEF InWallets
  <2>5. CASE Post("distributor", 1) /\ stranded' = stranded /\ minted' = minted + row[Doc(c)].in
    <3>1. InWallets' = InWallets + 1
      BY <1>m, <2>5, PostTotal
    <3> QED
      BY <1>3, <2>1, <2>2, <2>3, <2>5, <3>1, CarriersStep, MoneyTypes DEF MoneyConserved, InWallets
  <2>6. CASE /\ balance' = balance /\ minted' = minted
             /\ stranded' = IF row[Doc(c)].in = 0 THEN stranded + 1 ELSE stranded
    <3>1. InWallets' = InWallets
      BY <2>6 DEF InWallets
    <3> QED
      BY <1>3, <2>1, <2>2, <2>3, <2>6, <3>1, CarriersStep, MoneyTypes DEF MoneyConserved, InWallets
  <2> QED
    BY <2>1, <2>5, <2>6
<1> QED
  BY <1>1, <1>4, <1>5, <1>6, <1>7, <1>8, <1>9

LEMMA CrashMoney ==
    ASSUME DeskInv, MoneyConserved, NEW c \in Clerks, Crash(c)
    PROVE  MoneyConserved'
<1>1. /\ pc'[c] = "idle" /\ UNCHANGED <<row, minted, balance, external>>
      /\ \A d \in Clerks \ {c} : pc'[d] = pc[d] /\ call'[d] = call[d]
      /\ stranded' = IF c \in Carriers THEN stranded + 1 ELSE stranded
  BY CrashMoves DEF Crash, keyedVars
<1>2. /\ \A d \in Clerks \ {c} : d \in Carriers <=> d \in Carriers'
      /\ c \notin Carriers'
      /\ InWallets' = InWallets
  BY <1>1 DEF Carriers, Doc, InWallets
<1> QED
  BY <1>1, <1>2, CarriersStep, MoneyTypes DEF MoneyConserved, InWallets
-----------------------------------------------------------------------------
(* The theorems *)

LEMMA InitDeskInv == Init => DeskInv
<1> SUFFICES ASSUME Init PROVE DeskInv
  OBVIOUS
<1> USE DeskAssumption
<1>1. DeskTypeOK
  BY DEF Init, DeskInit, DeskTypeOK, Steps, Call, NoCall, Wallets
<1>2. RequestTypeOK /\ TransferTypes
  BY DEF Init, RequestInit, RequestTypeOK, TransferInit, TransferTypes, Wallets, RequestStatuses,
     Pending, TransferStatuses
<1>3. IncentiveTypeOK /\ ProductTypeOK /\ KeyedTypeOK
  BY DEF Init, IncentiveInit, IncentiveTypeOK, ProductInit, ProductTypeOK, KeyedInit, KeyedTypeOK,
     JobStates, ProductStatuses, NoRow
<1>4. StepMatchesDocument
  BY DEF Init, DeskInit, StepMatchesDocument, Matches, RequestSteps, DecideSteps, AfterLegSteps,
     LegSteps, JobSteps, ProductSteps, KeyedSteps
<1> QED
  BY <1>1, <1>2, <1>3, <1>4 DEF DeskInv

LEMMA NextDeskInv == DeskInv /\ [Next]_vars => DeskInv'
<1> SUFFICES ASSUME DeskInv, [Next]_vars PROVE DeskInv'
  OBVIOUS
<1>1. CASE UNCHANGED vars
  BY <1>1 DEF vars, deskVars, money, requestVars, transferVars, incentiveVars, productVars, keyedVars,
     DeskInv, DeskTypeOK, RequestTypeOK, TransferTypes, IncentiveTypeOK, ProductTypeOK,
     KeyedTypeOK, StepMatchesDocument
<1>2. CASE Next
  BY <1>2, RequestStepMoves, TransferStepMoves, IncentiveStepMoves, ProductStepMoves,
     KeyedStepMoves, CrashMoves DEF Next
<1> QED
  BY <1>1, <1>2

LEMMA NextKeyedInv == DeskInv /\ KeyedInv /\ [Next]_vars => KeyedInv'
<1> SUFFICES ASSUME DeskInv, KeyedInv, [Next]_vars PROVE KeyedInv'
  OBVIOUS
<1>1. DeskInv'
  BY NextDeskInv
<1>2. /\ Requests \cap Keyed = {} /\ (Transfers \cup {None}) \cap Keyed = {}
      /\ Deposits \cap Keyed = {} /\ Products \cap Keyed = {}
  BY DeskAssumption DEF Documents
<1>3. CASE UNCHANGED vars
  BY <1>3 DEF vars, deskVars, keyedVars, KeyedInv, KeyHeldOnce, RowsAtMostOnce, HolderKnowsRows,
     KeyedAccounted, Doc
<1>4. CASE RequestNext /\ UNCHANGED <<transferVars, incentiveVars, productVars, keyedVars>>
  BY <1>1, <1>2, <1>4, RequestStepMoves, KeyedFrame
<1>5. CASE TransferNext /\ UNCHANGED <<requestVars, incentiveVars, productVars, keyedVars>>
  BY <1>1, <1>2, <1>5, TransferStepMoves, KeyedFrame
<1>6. CASE IncentiveNext /\ UNCHANGED <<requestVars, transferVars, productVars, keyedVars>>
  BY <1>1, <1>2, <1>6, IncentiveStepMoves, KeyedFrame
<1>7. CASE ProductNext /\ UNCHANGED <<requestVars, transferVars, incentiveVars, keyedVars>>
  BY <1>1, <1>2, <1>7, ProductStepMoves, KeyedFrame
<1>8. CASE KeyedNext \/ \E c \in Clerks : Crash(c)
  BY <1>1, <1>8, KeyedStep, KeyedCrash
<1> QED
  BY <1>3, <1>4, <1>5, <1>6, <1>7, <1>8 DEF Next

LEMMA InitMoneyConserved == Init => MoneyConserved
<1> SUFFICES ASSUME Init PROVE MoneyConserved
  OBVIOUS
<1>1. Carriers = {}
  BY DEF Init, DeskInit, Carriers
<1>2. Cardinality(Carriers) = 0
  BY <1>1, FS_EmptySet
<1> QED
  BY <1>2, DeskAssumption DEF Init, DeskInit, KeyedInit, MoneyConserved, Wallets

LEMMA NextMoneyConserved == DeskInv /\ KeyedInv /\ MoneyConserved /\ [Next]_vars => MoneyConserved'
<1> SUFFICES ASSUME DeskInv, KeyedInv, MoneyConserved, [Next]_vars PROVE MoneyConserved'
  OBVIOUS
<1>1. DeskInv'
  BY NextDeskInv
<1>2. CASE UNCHANGED vars
  <2>1. Carriers' = Carriers /\ UNCHANGED <<money, minted>>
    BY <1>2 DEF vars, deskVars, keyedVars, Carriers, Doc
  <2> QED
    BY <2>1 DEF MoneyConserved, money
<1>3. CASE RequestNext /\ UNCHANGED <<transferVars, incentiveVars, productVars, keyedVars>>
  BY <1>1, <1>3, RequestStepMoves, RequestMoney
<1>4. CASE TransferNext /\ UNCHANGED <<requestVars, incentiveVars, productVars, keyedVars>>
  BY <1>4, TransferMoney
<1>5. CASE IncentiveNext /\ UNCHANGED <<requestVars, transferVars, productVars, keyedVars>>
  BY <1>1, <1>5, IncentiveStepMoves, IncentiveMoney
<1>6. CASE ProductNext /\ UNCHANGED <<requestVars, transferVars, incentiveVars, keyedVars>>
  BY <1>1, <1>6, ProductStepMoves, ProductMoney
<1>7. CASE KeyedNext \/ \E c \in Clerks : Crash(c)
  BY <1>7, KeyedMoney, CrashMoney
<1> QED
  BY <1>2, <1>3, <1>4, <1>5, <1>6, <1>7 DEF Next

\* Every clerk works on a document of the service that its step belongs to, in every
\* state that the services and crashes can lead to.
THEOREM DeskInvariance == Spec => []DeskInv
BY InitDeskInv, NextDeskInv, PTL DEF Spec

\* However requests of POST /wallet/transfer are repeated, interleaved and cut short,
\* one of them holds the money of a key and its rows say where it is.
THEOREM KeyedInvariance == Spec => []KeyedInv
BY DeskInvariance, KeyedInitInv, NextKeyedInv, PTL DEF Spec

\* No interleaving of legs, compensations, recalls, approvals, incentives and one-step
\* bookings, and no crash between them, makes or loses money.
THEOREM MoneyIsConserved == Spec => []MoneyConserved
BY DeskInvariance, KeyedInvariance, InitMoneyConserved, NextMoneyConserved, PTL DEF Spec

\* A repeated transfer of WalletService moves its money once, or gives it back.
THEOREM KeyedTransfersSettle == Spec => []KeyedTransferSettles
<1>1. DeskInv /\ KeyedInv => KeyedTransferSettles
  BY DEF DeskInv, KeyedTypeOK, KeyedInv, RowsAtMostOnce, KeyedAccounted, KeyedTransferSettles,
     KeyedMovesOnce, KeyedSettles, Quiet
<1> QED
  BY <1>1, DeskInvariance, KeyedInvariance, PTL

-----------------------------------------------------------------------------
(***************************************************************************)
(* The documents                                                           *)
(*                                                                         *)
(* Each document tells what was posted about it, unless a process died in  *)
(* between, a save failed or a clerk decided about what another had        *)
(* decided (the history variables torn, contested, untaxed and overlapped  *)
(* say for which documents).                                               *)
(***************************************************************************)

\* Clerks with document r at one of the steps.
Waiting(r, steps) == {c \in Clerks : Doc(c) = r /\ pc[c] \in steps}

\* Of the other clerks only what they know of the document of c changes.
OthersStay(c) ==
    \A d \in Clerks \ {c} :
        /\ pc'[d] = pc[d] /\ Doc(d)' = Doc(d) /\ call'[d].recall = call[d].recall
        /\ call[d].stale => call'[d].stale
        /\ Doc(d) # Doc(c) => call'[d] = call[d]

LEMMA WaitingStep ==
    ASSUME NEW c \in Clerks, NEW r, NEW steps, OthersStay(c)
    PROVE  LET S == Waiting(r, steps)
               in == Doc(c) = r /\ pc[c] \in steps
               stays == Doc(c)' = r /\ pc'[c] \in steps
           IN /\ Cardinality(S) \in Nat /\ Cardinality(S)' \in Nat
              /\ (in <=> stays) => Cardinality(S)' = Cardinality(S)
              /\ in /\ ~stays => Cardinality(S)' = Cardinality(S) - 1
              /\ ~in /\ stays => Cardinality(S)' = Cardinality(S) + 1
<1>1. Waiting(r, steps) \in SUBSET Clerks /\ IsFiniteSet(Waiting(r, steps))
  BY ClerksFinite DEF Waiting
<1>2. \A d : d # c => (d \in Waiting(r, steps) <=> d \in Waiting(r, steps)')
  BY DEF Waiting, OthersStay
<1>3. /\ c \in Waiting(r, steps) <=> (Doc(c) = r /\ pc[c] \in steps)
      /\ c \in Waiting(r, steps)' <=> (Doc(c)' = r /\ pc'[c] \in steps)
  BY DEF Waiting
<1> QED
  BY <1>1, <1>2, <1>3, CountStep

\* Nobody waits where nobody is.
LEMMA WaitingQuiet ==
    ASSUME NEW r, NEW steps, Quiet(r)
    PROVE  Cardinality(Waiting(r, steps)) = 0
<1>1. Waiting(r, steps) = {}
  BY DEF Waiting, Quiet
<1> QED
  BY <1>1, FS_EmptySet

\* A step of another service.
LEMMA DocsFrame ==
    ASSUME DeskInv, DeskInv', NEW docs, NEW own \in SUBSET Documents, MovesOnly(docs),
           docs \cap own = {}
    PROVE  /\ torn \subseteq torn'
           /\ \A c \in Clerks :
                 /\ Doc(c) \in own <=> Doc(c)' \in own
                 /\ Doc(c) \in own => pc'[c] = pc[c] /\ call'[c] = call[c] /\ Doc(c)' = Doc(c)
           /\ \A r \in own : \A steps : Waiting(r, steps)' = Waiting(r, steps)
           /\ \A r \in own : Quiet(r)' = Quiet(r)
<1>1. \A c \in Clerks : /\ pc[c] = "idle" => Doc(c) \notin own
                        /\ pc'[c] = "idle" => Doc(c)' \notin own
  BY DeskAssumption DEF DeskInv, StepMatchesDocument, Matches, NoCall, Doc
<1>2. \A c \in Clerks :
         /\ Doc(c) \in own <=> Doc(c)' \in own
         /\ Doc(c) \in own => pc'[c] = pc[c] /\ call'[c] = call[c] /\ Doc(c)' = Doc(c)
  BY <1>1 DEF MovesOnly, Doc
<1>3. \A r \in own : \A steps : Waiting(r, steps)' = Waiting(r, steps)
  BY <1>2 DEF Waiting
<1>4. \A r \in own : Quiet(r)' = Quiet(r)
  BY <1>2 DEF Quiet
<1> QED
  BY <1>2, <1>3, <1>4 DEF MovesOnly

\* What the steps of a clerk do to the clerks.
LEMMA ClerkSteps ==
    ASSUME DeskInv, NEW c \in Clerks
    PROVE  /\ \A step : \A doc \in Documents \cup {None} : Take(c, doc, step) =>
                 /\ pc'[c] = step /\ call'[c] = [NoCall EXCEPT !.doc = doc] /\ Doc(c)' = doc
                 /\ ~call'[c].recall /\ ~call'[c].stale
                 /\ OthersStay(c)
           /\ \A step : Goto(c, step) /\ UNCHANGED call =>
                 pc'[c] = step /\ call'[c] = call[c] /\ Doc(c)' = Doc(c) /\ OthersStay(c)
           /\ Leave(c) => pc'[c] = "idle" /\ call'[c] = NoCall /\ Doc(c)' = None /\ OthersStay(c)
           /\ \A step : \A k \in Call : Goto(c, step) /\ call' = Decided(c, k) =>
                 /\ pc'[c] = step /\ call'[c] = k /\ Doc(c)' = k.doc
                 /\ OthersStay(c)
                 /\ \A d \in Clerks \ {c} : Doc(d) = Doc(c) => call'[d].stale
<1> USE DeskFacts
<1>1. ASSUME NEW step, NEW doc \in Documents \cup {None}, Take(c, doc, step)
      PROVE  /\ pc'[c] = step /\ call'[c] = [NoCall EXCEPT !.doc = doc] /\ Doc(c)' = doc
             /\ ~call'[c].recall /\ ~call'[c].stale
             /\ OthersStay(c)
  BY <1>1 DEF Take, Goto, Doc, Call, NoCall, OthersStay
<1>2. ASSUME NEW step, Goto(c, step), UNCHANGED call
      PROVE  pc'[c] = step /\ call'[c] = call[c] /\ Doc(c)' = Doc(c) /\ OthersStay(c)
  BY <1>2 DEF Goto, Doc, OthersStay
<1>3. ASSUME Leave(c)
      PROVE  pc'[c] = "idle" /\ call'[c] = NoCall /\ Doc(c)' = None /\ OthersStay(c)
  BY <1>3 DEF Leave, Goto, Doc, OthersStay
<1>4. ASSUME NEW step, NEW k \in Call, Goto(c, step), call' = Decided(c, k)
      PROVE  /\ pc'[c] = step /\ call'[c] = k /\ Doc(c)' = k.doc
             /\ OthersStay(c)
             /\ \A d \in Clerks \ {c} : Doc(d) = Doc(c) => call'[d].stale
  BY <1>4 DEF Goto, Decided, Doc, Call, OthersStay
<1> QED
  BY <1>1, <1>2, <1>3, <1>4
\* The document of a clerk says at which steps it may be.
LEMMA StepOfDocument ==
    ASSUME DeskInv, NEW c \in Clerks
    PROVE  /\ Doc(c) \in Requests => pc[c] \in RequestSteps
           /\ Doc(c) \in Transfers => pc[c] \in DecideSteps \cup {"recall", "reverse"} \cup Working
           /\ Doc(c) \in Deposits => pc[c] \in JobSteps
           /\ Doc(c) \in Products => pc[c] \in ProductSteps
<1>1. /\ pc[c] \in Steps /\ (pc[c] = "idle" => Doc(c) = None)
      /\ NoCall.doc = None /\ None \notin Documents
  BY DeskFacts, ClerkAt
<1>2. pc[c] \in {"idle", "recall", "reverse"} \cup RequestSteps \cup DecideSteps \cup Working
                   \cup JobSteps \cup ProductSteps \cup KeyedSteps
  BY <1>1 DEF Steps, RequestSteps, DecideSteps, Working, LegSteps, AfterLegSteps, JobSteps,
     ProductSteps, KeyedSteps
<1> QED
  BY <1>1, <1>2, ClerkAt, DeskAssumption DEF Documents, Working

-----------------------------------------------------------------------------
(* Requests *)

SavedIsPosted == \A c \in Clerks : pc[c] = "saveRequest" => posted[Doc(c)] >= 1

\* A clerk that does not know better is right.
ReadIsDecidable ==
    \A c \in Clerks : pc[c] \in RequestSteps /\ ~call[c].stale => Decidable(Doc(c))

UnaskedIsQuiet == \A r \in Requests : request[r].status = "none" => Quiet(r)

PostingsCounted ==
    \A r \in Requests \ torn :
        posted[r] = (IF request[r].status \in {"APPROVED", "EXECUTED"} THEN 1 ELSE 0)
                       + Cardinality(Waiting(r, {"saveRequest"}))

RequestInv ==
    SavedIsPosted /\ ReadIsDecidable /\ UnaskedIsQuiet /\ ApprovedIsPosted /\ PostingsCounted

LEMMA RequestInitInv == Init => RequestInv
<1> SUFFICES ASSUME Init PROVE RequestInv
  OBVIOUS
<1>1. \A r \in Requests : Quiet(r)
  BY DeskAssumption DEF Init, DeskInit, Quiet, Doc, NoCall, Documents
<1>2. \A r \in Requests : Cardinality(Waiting(r, {"saveRequest"})) = 0
  BY <1>1, WaitingQuiet
<1> QED
  BY <1>1, <1>2 DEF Init, DeskInit, RequestInit, RequestInv, SavedIsPosted, ReadIsDecidable,
     UnaskedIsQuiet, ApprovedIsPosted, PostingsCounted, RequestSteps

LEMMA RequestFrame ==
    ASSUME DeskInv, DeskInv', RequestInv, NEW docs, MovesOnly(docs), docs \cap Requests = {},
           UNCHANGED requestVars
    PROVE  RequestInv'
<1>1. Requests \in SUBSET Documents
  BY DEF Documents
<1>2. \A c \in Clerks : pc'[c] \in RequestSteps => Doc(c)' \in Requests
  BY DEF DeskInv, StepMatchesDocument, Matches, Doc
<1>3. \A c \in Clerks : Doc(c)' \in Requests =>
         /\ pc'[c] = pc[c] /\ call'[c] = call[c] /\ Doc(c)' = Doc(c)
  BY <1>1, DocsFrame
<1>4. /\ torn \subseteq torn' /\ request' = request /\ posted' = posted
      /\ \A r \in Requests : Quiet(r)' = Quiet(r)
      /\ \A r \in Requests : \A steps : Waiting(r, steps)' = Waiting(r, steps)
  BY <1>1, DocsFrame DEF requestVars
<1> QED
  BY <1>2, <1>3, <1>4 DEF RequestInv, SavedIsPosted, ReadIsDecidable, UnaskedIsQuiet,
     ApprovedIsPosted, PostingsCounted, RequestSteps, Decidable

LEMMA RequestStep ==
    ASSUME DeskInv, DeskInv', RequestInv, RequestNext
    PROVE  RequestInv'
<1> USE DeskFacts
<1>t. /\ request \in [Requests -> [kind : {"topup", "adjustment"}, wallet : Wallets,
                                   delta : {1, -1}, status : RequestStatuses]]
      /\ posted \in [Requests -> Nat]
      /\ SavedIsPosted /\ ReadIsDecidable /\ UnaskedIsQuiet /\ ApprovedIsPosted /\ PostingsCounted
      /\ Requests \subseteq Documents
      /\ \A c \in Clerks : pc[c] \in RequestSteps => Doc(c) \in Requests
  BY ClerkAt DEF DeskInv, RequestTypeOK, RequestInv, Documents
<1>1. ASSUME NEW r \in Requests, InitiateTopup(r) \/ ProposeAdjustment(r)
      PROVE  RequestInv'
  <2>1. /\ UNCHANGED <<torn, pc, call>> /\ request[r].status = "none"
        /\ \A s \in Requests \ {r} : request'[s] = request[s] /\ posted'[s] = posted[s]
        /\ \/ request'[r].status \in Pending /\ posted'[r] = posted[r]
           \/ request'[r].status = "EXECUTED" /\ posted'[r] = 1
    BY <1>t, <1>1 DEF InitiateTopup, ProposeAdjustment, Ask, deskVars, Pending
  <2>2. Quiet(r)
    BY <1>t, <2>1 DEF UnaskedIsQuiet
  <2>3. \A s \in Requests : /\ Waiting(s, {"saveRequest"})' = Waiting(s, {"saveRequest"})
                            /\ Quiet(s)' = Quiet(s)
    BY <2>1 DEF Waiting, Doc, Quiet
  <2>4. Cardinality(Waiting(r, {"saveRequest"})) = 0
    BY <2>2, WaitingQuiet
  <2>5. \A c \in Clerks : Doc(c)' = Doc(c) /\ (pc[c] \in RequestSteps => Doc(c) \in Requests \ {r})
    BY <2>1, <2>2, ClerkAt DEF Doc, Quiet
  <2>6. SavedIsPosted' /\ ReadIsDecidable'
    BY <1>t, <2>1, <2>5 DEF SavedIsPosted, ReadIsDecidable, RequestSteps, Decidable
  <2>7. UnaskedIsQuiet' /\ ApprovedIsPosted'
    BY <1>t, <2>1, <2>3 DEF UnaskedIsQuiet, ApprovedIsPosted, Pending
  <2>8. PostingsCounted'
    BY <1>t, <2>1, <2>3, <2>4 DEF PostingsCounted, Pending
  <2> QED
    BY <2>6, <2>7, <2>8 DEF RequestInv
<1>2. ASSUME NEW c \in Clerks, NEW r \in Requests, ReadRequest(c, r)
      PROVE  RequestInv'
  <2>1. /\ pc'[c] \in {"post", "dismiss"} /\ Doc(c)' = r /\ OthersStay(c) /\ pc[c] = "idle"
        /\ UNCHANGED <<torn, request, posted>> /\ Decidable(r)
    <3>1. PICK step \in {"post", "dismiss"} : Take(c, r, step)
      BY <1>2 DEF ReadRequest, AfterGuard
    <3>2. r \in Documents \cup {None}
      BY <1>t
    <3>3. pc'[c] = step /\ Doc(c)' = r /\ OthersStay(c)
      BY <3>1, <3>2, ClerkSteps
    <3> QED
      BY <1>2, <3>3 DEF ReadRequest, requestVars
  <2>2. \A s \in Requests :
           Cardinality(Waiting(s, {"saveRequest"}))' = Cardinality(Waiting(s, {"saveRequest"}))
    BY <2>1, WaitingStep
  <2>3. SavedIsPosted' /\ ReadIsDecidable'
    BY <1>t, <2>1 DEF SavedIsPosted, ReadIsDecidable, RequestSteps, Decidable, OthersStay
  <2>4. UnaskedIsQuiet' /\ ApprovedIsPosted' /\ PostingsCounted'
    BY <1>t, <2>1, <2>2 DEF UnaskedIsQuiet, ApprovedIsPosted, PostingsCounted, Quiet, OthersStay,
       Decidable, Pending
  <2> QED
    BY <2>3, <2>4 DEF RequestInv
<1>3. ASSUME NEW c \in Clerks, PostRequest(c)
      PROVE  RequestInv'
  <2>1. PICK r \in Requests : Doc(c) = r
    BY <1>3, ClerkAt DEF PostRequest, RequestSteps
  <2>2. /\ pc[c] = "post" /\ OthersStay(c) /\ UNCHANGED <<torn, request>>
        /\ \/ /\ pc'[c] = "saveRequest" /\ call'[c] = call[c] /\ Doc(c)' = r
              /\ posted' = [posted EXCEPT ![r] = @ + 1]
           \/ pc'[c] = "idle" /\ Doc(c)' = None /\ posted' = posted
    BY <1>t, <1>3, <2>1, ClerkSteps DEF PostRequest
  <2>3. request[r].status # "none" /\ \A s \in Requests : s # None
    BY <1>t, <2>1 DEF UnaskedIsQuiet, Quiet
  <2>4. \A s \in Requests :
           /\ Cardinality(Waiting(s, {"saveRequest"})) \in Nat
           /\ Cardinality(Waiting(s, {"saveRequest"}))' =
                 Cardinality(Waiting(s, {"saveRequest"}))
                    + (IF s = r /\ pc'[c] = "saveRequest" THEN 1 ELSE 0)
    <3> SUFFICES ASSUME NEW s \in Requests
                 PROVE /\ Cardinality(Waiting(s, {"saveRequest"})) \in Nat
                       /\ Cardinality(Waiting(s, {"saveRequest"}))' =
                             Cardinality(Waiting(s, {"saveRequest"}))
                                + (IF s = r /\ pc'[c] = "saveRequest" THEN 1 ELSE 0)
      OBVIOUS
    <3> QED
      BY <2>1, <2>2, <2>3, WaitingStep
  <2>5. SavedIsPosted' /\ ReadIsDecidable'
    BY <1>t, <2>1, <2>2 DEF SavedIsPosted, ReadIsDecidable, RequestSteps, Decidable, OthersStay
  <2>6. UnaskedIsQuiet' /\ ApprovedIsPosted'
    BY <1>t, <2>1, <2>2, <2>3 DEF UnaskedIsQuiet, ApprovedIsPosted, Quiet, OthersStay
  <2>7. PostingsCounted'
    BY <1>t, <2>2, <2>4 DEF PostingsCounted
  <2> QED
    BY <2>5, <2>6, <2>7 DEF RequestInv
<1>4. ASSUME NEW c \in Clerks, SaveApproved(c) \/ Dismiss(c)
      PROVE  RequestInv'
  <2>1. PICK r \in Requests : Doc(c) = r
    BY <1>4, ClerkAt DEF SaveApproved, Dismiss, RequestSteps
  <2>2. PICK status \in {"APPROVED", "REJECTED", "CANCELLED"} :
           /\ Decide(c, status)
           /\ \/ pc[c] = "saveRequest" /\ status = "APPROVED"
              \/ pc[c] = "dismiss" /\ status # "APPROVED"
    BY <1>4 DEF SaveApproved, Dismiss, Dismissals
  <2>3. /\ pc'[c] = "idle" /\ Doc(c)' = None /\ OthersStay(c)
        /\ \A d \in Clerks \ {c} : Doc(d) = r => call'[d].stale
    BY <2>1, <2>2, ClerkSteps DEF Decide
  <2>4. /\ request' = [request EXCEPT ![r].status = status] /\ posted' = posted
        /\ torn' = IF call[c].stale THEN torn \cup {r} ELSE torn
    BY <2>1, <2>2 DEF Decide, TornIfStale
  <2>5. /\ request'[r].status = status
        /\ \A s \in Requests \ {r} : request'[s] = request[s]
    BY <1>t, <2>4
  <2>6. \A s \in Requests : s # None
    BY <1>t
  <2>7. \A s \in Requests :
           /\ Cardinality(Waiting(s, {"saveRequest"})) \in Nat
           /\ Cardinality(Waiting(s, {"saveRequest"}))' =
                 Cardinality(Waiting(s, {"saveRequest"}))
                    - (IF s = r /\ pc[c] = "saveRequest" THEN 1 ELSE 0)
    <3> SUFFICES ASSUME NEW s \in Requests
                 PROVE /\ Cardinality(Waiting(s, {"saveRequest"})) \in Nat
                       /\ Cardinality(Waiting(s, {"saveRequest"}))' =
                             Cardinality(Waiting(s, {"saveRequest"}))
                                - (IF s = r /\ pc[c] = "saveRequest" THEN 1 ELSE 0)
      OBVIOUS
    <3> QED
      BY <2>1, <2>3, <2>6, WaitingStep
  <2>8. SavedIsPosted' /\ ReadIsDecidable'
    <3>1. SavedIsPosted'
      BY <1>t, <2>1, <2>3, <2>4 DEF SavedIsPosted, OthersStay
    <3>2. ReadIsDecidable'
      <4> SUFFICES ASSUME NEW d \in Clerks, pc'[d] \in RequestSteps, ~call'[d].stale
                   PROVE  Decidable(Doc(d))'
        BY DEF ReadIsDecidable
      <4>1. d # c /\ Doc(d) # r /\ Doc(d)' = Doc(d) /\ ~call[d].stale /\ pc[d] \in RequestSteps
        BY <2>1, <2>3 DEF RequestSteps, OthersStay
      <4>2. Doc(d) \in Requests
        BY <4>1, ClerkAt
      <4> QED
        BY <1>t, <2>5, <4>1, <4>2 DEF ReadIsDecidable, Decidable
    <3> QED
      BY <3>1, <3>2
  <2>9. UnaskedIsQuiet' /\ ApprovedIsPosted'
    BY <1>t, <2>1, <2>2, <2>3, <2>4, <2>5, <2>6
       DEF UnaskedIsQuiet, ApprovedIsPosted, SavedIsPosted, Quiet, OthersStay
  <2>10. PostingsCounted'
    <3>1. ~call[c].stale => request[r].status \in Pending
      BY <1>t, <2>1, <2>2 DEF ReadIsDecidable, Decidable, RequestSteps
    <3> QED
      BY <1>t, <2>2, <2>4, <2>5, <2>7, <3>1 DEF PostingsCounted, Pending
  <2> QED
    BY <2>8, <2>9, <2>10 DEF RequestInv
<1> QED
  BY <1>1, <1>2, <1>3, <1>4 DEF RequestNext

LEMMA RequestCrash ==
    ASSUME DeskInv, RequestInv, NEW c \in Clerks, Crash(c)
    PROVE  RequestInv'
<1> USE DeskFacts
<1>1. /\ torn \subseteq torn' /\ UNCHANGED <<request, posted>>
      /\ pc'[c] = "idle" /\ Doc(c)' = None /\ OthersStay(c)
      /\ pc[c] = "saveRequest" => Doc(c) \in torn' \cup {None}
  BY CrashMoves, ClerkSteps DEF Crash, requestVars, Untold
<1>2. \A r \in Requests : r # None
  BY DEF Documents
<1>3. \A r \in Requests \ torn' :
         Cardinality(Waiting(r, {"saveRequest"}))' = Cardinality(Waiting(r, {"saveRequest"}))
  <2> SUFFICES ASSUME NEW r \in Requests \ torn'
               PROVE Cardinality(Waiting(r, {"saveRequest"}))' = Cardinality(Waiting(r, {"saveRequest"}))
    OBVIOUS
  <2> QED
    BY <1>1, <1>2, WaitingStep
<1>4. SavedIsPosted' /\ ReadIsDecidable' /\ UnaskedIsQuiet' /\ ApprovedIsPosted'
  BY <1>1, <1>2 DEF RequestInv, SavedIsPosted, ReadIsDecidable, UnaskedIsQuiet, ApprovedIsPosted,
     Quiet, OthersStay, RequestSteps, Decidable
<1>5. PostingsCounted'
  BY <1>1, <1>3 DEF RequestInv, PostingsCounted
<1> QED
  BY <1>4, <1>5 DEF RequestInv
-----------------------------------------------------------------------------
(* Products *)

\* The key of the refund lets one credit through, and CANCELLED comes after it.
RefundBeforeCancel ==
    /\ \A p \in Products : repaid[p] <= 1 /\ (product[p].status = "CANCELLED" => repaid[p] = 1)
    /\ \A c \in Clerks : pc[c] = "cancelProduct" => repaid[Doc(c)] = 1

UnbookedIsNothing ==
    \A p \in Products :
        product[p].status = "none" => Quiet(p) /\ charged[p] = 0 /\ repaid[p] = 0

OneClerkEach ==
    \A c, d \in Clerks : Doc(c) \in Products \ torn /\ Doc(d) = Doc(c) => d = c

ClerkKnowsMoney ==
    \A c \in Clerks : Doc(c) \in Products \ torn =>
        /\ pc[c] \in {"pay", "bookFailed"} =>
              product[Doc(c)].status = "CONFIRMED" /\ charged[Doc(c)] = 0 /\ repaid[Doc(c)] = 0
        /\ pc[c] \in {"voucher", "refundProduct"} =>
              /\ product[Doc(c)].status \in {"CONFIRMED", "VOUCHERED"}
              /\ charged[Doc(c)] = 1 /\ repaid[Doc(c)] = 0

ProductInv ==
    /\ RefundBeforeCancel /\ UnbookedIsNothing /\ OneClerkEach /\ ClerkKnowsMoney
    /\ ProductTellsMoney

LEMMA ProductInitInv == Init => ProductInv
<1> SUFFICES ASSUME Init PROVE ProductInv
  OBVIOUS
<1>1. /\ \A c \in Clerks : Doc(c) = None /\ pc[c] = "idle"
      /\ \A p \in Products : /\ p # None /\ product[p].status = "none"
                             /\ charged[p] = 0 /\ repaid[p] = 0
  BY DeskAssumption DEF Init, DeskInit, ProductInit, Doc, NoCall, Documents
<1> QED
  BY <1>1 DEF ProductInv, RefundBeforeCancel, UnbookedIsNothing, OneClerkEach, ClerkKnowsMoney,
     ProductTellsMoney, Quiet

LEMMA ProductFrame ==
    ASSUME DeskInv, DeskInv', ProductInv, NEW docs, MovesOnly(docs), docs \cap Products = {},
           UNCHANGED productVars
    PROVE  ProductInv'
<1>1. Products \in SUBSET Documents
  BY DEF Documents
<1>2. \A c \in Clerks : pc'[c] \in ProductSteps => Doc(c)' \in Products
  BY DEF DeskInv, StepMatchesDocument, Matches, Doc
<1>3. \A c \in Clerks : Doc(c)' \in Products =>
         /\ pc'[c] = pc[c] /\ call'[c] = call[c] /\ Doc(c)' = Doc(c)
  BY <1>1, DocsFrame
<1>4. /\ torn \subseteq torn' /\ product' = product /\ charged' = charged /\ repaid' = repaid
      /\ \A p \in Products : Quiet(p)' = Quiet(p)
  BY <1>1, DocsFrame DEF productVars
<1>5. RefundBeforeCancel' /\ UnbookedIsNothing'
  BY <1>2, <1>3, <1>4 DEF ProductInv, RefundBeforeCancel, UnbookedIsNothing, ProductSteps
<1>6. OneClerkEach' /\ ClerkKnowsMoney' /\ ProductTellsMoney'
  BY <1>3, <1>4 DEF ProductInv, OneClerkEach, ClerkKnowsMoney, ProductTellsMoney
<1> QED
  BY <1>5, <1>6 DEF ProductInv

LEMMA ProductStep ==
    ASSUME DeskInv, DeskInv', ProductInv, ProductNext
    PROVE  ProductInv'
<1> USE DeskFacts
<1>t. /\ product \in [Products -> [kind : {"holiday", "hotel"}, status : ProductStatuses]]
      /\ charged \in [Products -> Nat] /\ repaid \in [Products -> Nat]
      /\ RefundBeforeCancel /\ UnbookedIsNothing /\ OneClerkEach /\ ClerkKnowsMoney
      /\ ProductTellsMoney
      /\ Products \subseteq Documents
      /\ \A c \in Clerks : pc[c] \in ProductSteps => Doc(c) \in Products
  BY ClerkAt DEF DeskInv, ProductTypeOK, ProductInv, Documents
<1> DEFINE Others(c) == \A d \in Clerks \ {c} : pc'[d] = pc[d] /\ Doc(d)' = Doc(d)
<1>1. ASSUME NEW c \in Clerks, NEW p \in Products,
             \/ ReadToCancel(c, p)
             \/ \E kind \in {"holiday", "hotel"} : QuickBook(c, p, kind)
      PROVE  ProductInv'
  <2>1. p \in Documents \cup {None}
    BY <1>t
  <2>2. /\ Doc(c)' = p /\ Others(c) /\ pc[c] = "idle" /\ Doc(c) = None
        /\ UNCHANGED <<charged, repaid>>
    <3>1. PICK step \in {"refundProduct", "pay"} : Take(c, p, step)
      BY <1>1 DEF ReadToCancel, QuickBook
    <3>2. Doc(c)' = p /\ OthersStay(c)
      BY <2>1, <3>1, ClerkSteps
    <3>3. pc[c] = "idle" /\ UNCHANGED <<charged, repaid>>
      BY <1>1 DEF ReadToCancel, QuickBook, productVars
    <3> QED
      BY <3>2, <3>3, ClerkAt DEF OthersStay, NoCall
  <2>3. CASE ReadToCancel(c, p)
    <3>1. /\ pc'[c] = "refundProduct" /\ product' = product
          /\ product[p].status \notin {"none", "CANCELLED"}
      <4>1. Take(c, p, "refundProduct")
        BY <2>3 DEF ReadToCancel
      <4>2. pc'[c] = "refundProduct"
        BY <2>1, <4>1, ClerkSteps
      <4> QED
        BY <2>3, <4>2 DEF ReadToCancel, Cancellable, productVars
    <3>2. /\ torn \subseteq torn' /\ torn' \subseteq torn \cup {p}
          /\ p \notin torn' => Quiet(p) /\ product[p].status # "BOOK_FAILED"
      BY <2>3 DEF ReadToCancel
    <3>3. p \notin torn' => /\ product[p].status \in {"CONFIRMED", "VOUCHERED"}
                            /\ charged[p] = 1 /\ repaid[p] = 0
      BY <1>t, <3>1, <3>2 DEF ProductTellsMoney, ProductStatuses
    <3>4. RefundBeforeCancel' /\ UnbookedIsNothing'
      BY <1>t, <2>2, <3>1 DEF RefundBeforeCancel, UnbookedIsNothing, Quiet, ProductSteps
    <3>5. OneClerkEach'
      BY <1>t, <2>2, <3>2 DEF OneClerkEach, Quiet
    <3>6. ClerkKnowsMoney'
      BY <1>t, <2>2, <3>1, <3>2, <3>3 DEF ClerkKnowsMoney, ProductSteps
    <3>7. ProductTellsMoney'
      BY <1>t, <2>2, <3>1, <3>2 DEF ProductTellsMoney, Quiet
    <3> QED
      BY <3>4, <3>5, <3>6, <3>7 DEF ProductInv
  <2>4. CASE \E kind \in {"holiday", "hotel"} : QuickBook(c, p, kind)
    <3>1. /\ pc'[c] = "pay" /\ product[p].status = "none" /\ torn' = torn
          /\ product'[p].status = "CONFIRMED"
          /\ \A q \in Products \ {p} : product'[q] = product[q]
      <4>1. Take(c, p, "pay") /\ product[p].status = "none" /\ torn' = torn
        BY <2>4 DEF QuickBook
      <4>2. pc'[c] = "pay"
        BY <2>1, <4>1, ClerkSteps
      <4>3. /\ product'[p].status = "CONFIRMED"
            /\ \A q \in Products \ {p} : product'[q] = product[q]
        BY <1>t, <2>4 DEF QuickBook
      <4> QED
        BY <4>1, <4>2, <4>3
    <3>2. Quiet(p) /\ charged[p] = 0 /\ repaid[p] = 0
      BY <1>t, <3>1 DEF UnbookedIsNothing
    <3>3. RefundBeforeCancel' /\ UnbookedIsNothing'
      BY <1>t, <2>2, <3>1, <3>2 DEF RefundBeforeCancel, UnbookedIsNothing, Quiet, ProductSteps
    <3>4. OneClerkEach'
      BY <1>t, <2>2, <3>1, <3>2 DEF OneClerkEach, Quiet
    <3>5. ClerkKnowsMoney'
      BY <1>t, <2>2, <3>1, <3>2 DEF ClerkKnowsMoney, Quiet
    <3>6. ProductTellsMoney'
      BY <1>t, <2>2, <3>1, <3>2 DEF ProductTellsMoney, Quiet
    <3> QED
      BY <3>3, <3>4, <3>5, <3>6 DEF ProductInv
  <2> QED
    BY <1>1, <2>3, <2>4
<1>2. ASSUME NEW c \in Clerks, PayProduct(c)
      PROVE  ProductInv'
  <2>1. PICK p \in Products : Doc(c) = p
    BY <1>t, <1>2 DEF PayProduct, ProductSteps
  <2>2. /\ pc[c] = "pay" /\ Others(c) /\ UNCHANGED <<torn, product, repaid>>
        /\ charged' = [charged EXCEPT ![p] = @ + 1]
        /\ \/ pc'[c] = "voucher" /\ Doc(c)' = p
           \/ pc'[c] = "idle" /\ Doc(c)' = None
    BY <1>t, <1>2, <2>1, ClerkSteps DEF PayProduct, OthersStay
  <2>3. p # None
    BY <1>t
  <2>4. p \notin torn => product[p].status = "CONFIRMED" /\ charged[p] = 0 /\ repaid[p] = 0
    BY <1>t, <2>1, <2>2 DEF ClerkKnowsMoney
  <2>5. product[p].status # "none"
    BY <1>t, <2>1 DEF UnbookedIsNothing, Quiet
  <2>6. RefundBeforeCancel' /\ UnbookedIsNothing'
    BY <1>t, <2>1, <2>2, <2>3, <2>5 DEF RefundBeforeCancel, UnbookedIsNothing, Quiet, ProductSteps
  <2>7. OneClerkEach'
    BY <1>t, <2>1, <2>2 DEF OneClerkEach
  <2>8. ClerkKnowsMoney'
    BY <1>t, <2>1, <2>2, <2>4 DEF ClerkKnowsMoney, OneClerkEach
  <2>9. ProductTellsMoney'
    BY <1>t, <2>1, <2>2, <2>3, <2>4 DEF ProductTellsMoney, Quiet
  <2> QED
    BY <2>6, <2>7, <2>8, <2>9 DEF ProductInv
<1>3. ASSUME NEW c \in Clerks, PaymentRefused(c) \/ RefundThrows(c)
      PROVE  ProductInv'
  <2>1. PICK p \in Products : Doc(c) = p
    BY <1>t, <1>3 DEF PaymentRefused, RefundThrows, ProductSteps
  <2>2. /\ Others(c) /\ UNCHANGED <<torn, product, charged, repaid>>
        /\ \/ pc[c] = "pay" /\ pc'[c] = "bookFailed" /\ Doc(c)' = p
           \/ pc[c] = "refundProduct" /\ pc'[c] = "idle" /\ Doc(c)' = None
    BY <1>t, <1>3, <2>1, ClerkSteps DEF PaymentRefused, RefundThrows, OthersStay, productVars
  <2>3. p # None
    BY <1>t
  <2>4. RefundBeforeCancel' /\ UnbookedIsNothing'
    BY <1>t, <2>1, <2>2, <2>3 DEF RefundBeforeCancel, UnbookedIsNothing, Quiet, ProductSteps
  <2>5. OneClerkEach' /\ ClerkKnowsMoney'
    BY <1>t, <2>1, <2>2 DEF OneClerkEach, ClerkKnowsMoney
  <2>6. ProductTellsMoney'
    BY <1>t, <2>1, <2>2, <2>3 DEF ProductTellsMoney, ClerkKnowsMoney, Quiet
  <2> QED
    BY <2>4, <2>5, <2>6 DEF ProductInv
<1>4. ASSUME NEW c \in Clerks, SaveBookFailed(c) \/ SaveVouchered(c) \/ SaveProductCancelled(c)
      PROVE  ProductInv'
  <2>1. PICK p \in Products : Doc(c) = p
    BY <1>t, <1>4 DEF SaveBookFailed, SaveVouchered, SaveProductCancelled, ProductSteps
  <2>2. PICK status :
           /\ \/ pc[c] = "bookFailed" /\ status = "BOOK_FAILED"
              \/ pc[c] = "voucher" /\ status = "VOUCHERED"
              \/ pc[c] = "cancelProduct" /\ status = "CANCELLED"
           /\ SaveProduct(c, status)
    BY <1>4 DEF SaveBookFailed, SaveVouchered, SaveProductCancelled
  <2>3. /\ Others(c) /\ UNCHANGED <<torn, charged, repaid>>
        /\ pc'[c] = "idle" /\ Doc(c)' = None
        /\ product'[p].status = status
        /\ \A q \in Products \ {p} : product'[q] = product[q]
    BY <1>t, <2>1, <2>2, ClerkSteps DEF SaveProduct, OthersStay
  <2>4. p # None
    BY <1>t
  <2>5. RefundBeforeCancel' /\ UnbookedIsNothing'
    BY <1>t, <2>1, <2>2, <2>3, <2>4 DEF RefundBeforeCancel, UnbookedIsNothing, Quiet, ProductSteps
  <2>6. OneClerkEach' /\ ClerkKnowsMoney'
    BY <1>t, <2>1, <2>3, <2>4 DEF OneClerkEach, ClerkKnowsMoney
  <2>7. ProductTellsMoney'
    BY <1>t, <2>1, <2>2, <2>3, <2>4 DEF ProductTellsMoney, ClerkKnowsMoney, Quiet
  <2> QED
    BY <2>5, <2>6, <2>7 DEF ProductInv
<1>5. ASSUME NEW c \in Clerks, RefundProduct(c)
      PROVE  ProductInv'
  <2>1. PICK p \in Products : Doc(c) = p
    BY <1>t, <1>5 DEF RefundProduct, ProductSteps
  <2>2. /\ Others(c) /\ UNCHANGED <<torn, product, charged>>
        /\ pc[c] = "refundProduct" /\ pc'[c] = "cancelProduct" /\ Doc(c)' = p
    BY <1>t, <1>5, <2>1, ClerkSteps DEF RefundProduct, OthersStay
  <2>3. repaid'[p] = 1 /\ \A q \in Products \ {p} : repaid'[q] = repaid[q]
    BY <1>t, <1>5, <2>1 DEF RefundProduct, RefundFresh, RefundBeforeCancel
  <2>4. product[p].status # "none"
    BY <1>t, <2>1 DEF UnbookedIsNothing, Quiet
  <2>5. RefundBeforeCancel' /\ UnbookedIsNothing'
    BY <1>t, <2>1, <2>2, <2>3, <2>4 DEF RefundBeforeCancel, UnbookedIsNothing, Quiet, ProductSteps
  <2>6. OneClerkEach' /\ ClerkKnowsMoney'
    BY <1>t, <2>1, <2>2, <2>3 DEF OneClerkEach, ClerkKnowsMoney
  <2>7. ProductTellsMoney'
    BY <1>t, <2>1, <2>2, <2>3 DEF ProductTellsMoney, Quiet
  <2> QED
    BY <2>5, <2>6, <2>7 DEF ProductInv
<1> QED
  BY <1>1, <1>2, <1>3, <1>4, <1>5 DEF ProductNext

LEMMA ProductCrash ==
    ASSUME DeskInv, ProductInv, NEW c \in Clerks, Crash(c)
    PROVE  ProductInv'
<1> USE DeskFacts
<1>1. /\ torn \subseteq torn' /\ UNCHANGED <<product, charged, repaid>>
      /\ pc'[c] = "idle" /\ Doc(c)' = None
      /\ \A d \in Clerks \ {c} : pc'[d] = pc[d] /\ Doc(d)' = Doc(d)
      /\ pc[c] \in {"pay", "bookFailed", "cancelProduct"} => Doc(c) \in torn' \cup {None}
  BY CrashMoves, ClerkSteps DEF Crash, productVars, Untold, OthersStay
<1>2. /\ \A p \in Products : p # None
      /\ Doc(c) \in Products => pc[c] \in ProductSteps
  BY StepOfDocument DEF Documents
<1>3. RefundBeforeCancel' /\ UnbookedIsNothing'
  BY <1>1, <1>2 DEF ProductInv, RefundBeforeCancel, UnbookedIsNothing, Quiet
<1>4. OneClerkEach' /\ ClerkKnowsMoney'
  BY <1>1, <1>2 DEF ProductInv, OneClerkEach, ClerkKnowsMoney
<1>5. ProductTellsMoney'
  BY <1>1, <1>2 DEF ProductInv, ProductTellsMoney, ClerkKnowsMoney, Quiet, ProductSteps
<1> QED
  BY <1>3, <1>4, <1>5 DEF ProductInv
-----------------------------------------------------------------------------
(* Incentives *)

\* Without a stall one run of the job is under way, and it credits once.
OneRunCreditsOnce ==
    \A d \in Deposits \ overlapped :
        /\ \A c, e \in Clerks : Doc(c) = d /\ Doc(e) = d => c = e
        /\ ~Quiet(d) => job[d].state = "active"
        /\ credited[d] <= 1
        /\ \A c \in Clerks : Doc(c) = d /\ pc[c] = "incentive" => credited[d] = 0

TaxesCounted ==
    \A d \in Deposits \ (untaxed \cup torn) :
        taxed[d] + Tds * Cardinality(Waiting(d, {"tds"})) = Tds * credited[d]

IncentiveInv == OneRunCreditsOnce /\ TaxesCounted

LEMMA IncentiveInitInv == Init => IncentiveInv
<1> SUFFICES ASSUME Init PROVE IncentiveInv
  OBVIOUS
<1>1. \A c \in Clerks : Doc(c) = None /\ pc[c] = "idle"
  BY DEF Init, DeskInit, Doc, NoCall
<1>2. \A d \in Deposits : d # None /\ credited[d] = 0 /\ taxed[d] = 0
  BY DeskAssumption DEF Init, IncentiveInit, Documents
<1>3. \A d \in Deposits : Cardinality(Waiting(d, {"tds"})) = 0
  BY <1>1, <1>2, WaitingQuiet DEF Quiet
<1>4. OneRunCreditsOnce
  BY <1>1, <1>2 DEF OneRunCreditsOnce, Quiet
<1>5. TaxesCounted
  BY <1>2, <1>3, IncentiveAssumption DEF TaxesCounted
<1> QED
  BY <1>4, <1>5 DEF IncentiveInv

LEMMA IncentiveFrame ==
    ASSUME DeskInv, DeskInv', IncentiveInv, NEW docs, MovesOnly(docs), docs \cap Deposits = {},
           UNCHANGED incentiveVars
    PROVE  IncentiveInv'
<1>1. Deposits \in SUBSET Documents
  BY DEF Documents
<1>2. \A c \in Clerks : Doc(c)' \in Deposits => pc'[c] = pc[c] /\ Doc(c)' = Doc(c)
  BY <1>1, DocsFrame
<1>3. /\ torn \subseteq torn' /\ UNCHANGED <<job, credited, taxed, overlapped, untaxed>>
      /\ \A d \in Deposits : Quiet(d)' = Quiet(d)
      /\ \A d \in Deposits : \A steps : Waiting(d, steps)' = Waiting(d, steps)
  BY <1>1, DocsFrame DEF incentiveVars
<1> QED
  BY <1>2, <1>3 DEF IncentiveInv, OneRunCreditsOnce, TaxesCounted

LEMMA IncentiveStep ==
    ASSUME DeskInv, DeskInv', IncentiveInv, IncentiveNext
    PROVE  IncentiveInv'
<1> USE DeskFacts
<1>t. /\ job \in [Deposits -> [state : JobStates, attempts : Nat, stalled : BOOLEAN]]
      /\ credited \in [Deposits -> Nat] /\ taxed \in [Deposits -> Nat]
      /\ overlapped \subseteq Deposits /\ untaxed \subseteq Deposits
      /\ OneRunCreditsOnce /\ TaxesCounted
      /\ \A d \in Deposits : d \in Documents \cup {None} /\ d # None
      /\ \A c \in Clerks : pc[c] \in JobSteps => Doc(c) \in Deposits
      /\ Tds \in Nat
  BY ClerkAt, IncentiveAssumption DEF DeskInv, IncentiveTypeOK, IncentiveInv, Documents
<1>1. ASSUME NEW d \in Deposits, ApplyDeposit(d)
      PROVE  IncentiveInv'
  <2>1. /\ UNCHANGED <<torn, pc, call, credited, taxed, overlapped, untaxed>>
        /\ job[d].state = "none" /\ \A e \in Deposits \ {d} : job'[e] = job[e]
    BY <1>t, <1>1 DEF ApplyDeposit
  <2>2. OneRunCreditsOnce'
    BY <1>t, <2>1 DEF OneRunCreditsOnce, Quiet, Doc
  <2>3. TaxesCounted'
    BY <1>t, <2>1 DEF TaxesCounted, Waiting, Doc
  <2> QED
    BY <2>2, <2>3 DEF IncentiveInv
<1>2. ASSUME NEW d \in Deposits, StallJob(d)
      PROVE  IncentiveInv'
  <2>1. /\ UNCHANGED <<torn, pc, credited, taxed, untaxed>>
        /\ \A e \in Deposits \ {d} : job'[e] = job[e]
        /\ overlapped \subseteq overlapped' /\ (d \notin overlapped' => Quiet(d))
        /\ \A c \in Clerks : Doc(c)' = Doc(c)
    <3>1. \A c \in Clerks : Doc(c)' = Doc(c)
      BY <1>2 DEF StallJob, Doc, Call
    <3>2. \A e \in Deposits \ {d} : job'[e] = job[e]
      BY <1>t, <1>2 DEF StallJob
    <3> QED
      BY <1>2, <3>1, <3>2 DEF StallJob
  <2>2. OneRunCreditsOnce'
    BY <1>t, <2>1 DEF OneRunCreditsOnce, Quiet
  <2>3. TaxesCounted'
    BY <1>t, <2>1 DEF TaxesCounted, Waiting
  <2> QED
    BY <2>2, <2>3 DEF IncentiveInv
<1>3. ASSUME NEW c \in Clerks, NEW d \in Deposits, PickUp(c, d)
      PROVE  IncentiveInv'
  <2>1. Take(c, d, "check") /\ pc[c] = "idle"
    BY <1>3 DEF PickUp
  <2>2. pc'[c] = "check" /\ Doc(c)' = d /\ OthersStay(c)
    BY <1>t, <2>1, DeskFacts DEF Take, Goto, Doc, NoCall, OthersStay
  <2>3. /\ UNCHANGED <<torn, credited, taxed, overlapped, untaxed>>
        /\ job[d].state = "queued" /\ job'[d].state = "active"
        /\ \A e \in Deposits \ {d} : job'[e] = job[e]
    BY <1>t, <1>3 DEF PickUp
  <2>4. d \notin overlapped => Quiet(d)
    BY <1>t, <2>3 DEF OneRunCreditsOnce
  <2>5. OneRunCreditsOnce'
    BY <1>t, <2>2, <2>3, <2>4 DEF OneRunCreditsOnce, Quiet, OthersStay
  <2>6. ASSUME NEW e \in Deposits
        PROVE  Cardinality(Waiting(e, {"tds"}))' = Cardinality(Waiting(e, {"tds"}))
    BY <2>1, <2>2, WaitingStep
  <2>7. TaxesCounted'
    BY <1>t, <2>3, <2>6 DEF TaxesCounted
  <2> QED
    BY <2>5, <2>7 DEF IncentiveInv
<1>4. ASSUME NEW c \in Clerks, CheckExisting(c) \/ CreditIncentive(c) \/ DeductTds(c)
      PROVE  IncentiveInv'
  <2>1. PICK d \in Deposits : Doc(c) = d
    BY <1>t, <1>4 DEF CheckExisting, CreditIncentive, DeductTds, JobSteps
  <2>2. CASE Leave(c) /\ \E state \in JobStates : Settle(c, state)
    <3>1. pc'[c] = "idle" /\ Doc(c)' = None /\ OthersStay(c)
      BY <2>2, ClerkSteps
    <3>2. /\ UNCHANGED <<torn, credited, overlapped>>
          /\ \A e \in Deposits \ {d} : job'[e] = job[e]
          /\ pc[c] \in JobSteps
      <4>1. torn' = torn /\ overlapped' = overlapped /\ pc[c] \in JobSteps
        BY <1>4 DEF CheckExisting, CreditIncentive, DeductTds, JobSteps
      <4>2. \A e \in Deposits \ {d} : job'[e] = job[e]
        BY <1>t, <2>1, <2>2 DEF Settle
      <4>3. credited' = credited
        <5>1. ~(pc'[c] = "tds")
          BY <3>1
        <5> QED
          BY <1>4, <5>1, DeskFacts DEF CheckExisting, CreditIncentive, DeductTds, Goto
      <4> QED
        BY <4>1, <4>2, <4>3
    <3>3. /\ untaxed \subseteq untaxed'
          /\ \A e \in Deposits \ {d} : taxed'[e] = taxed[e]
          /\ d \notin untaxed' => taxed'[d] = taxed[d] + (IF pc[c] = "tds" THEN Tds ELSE 0)
      BY <1>t, <1>4, <2>1 DEF CheckExisting, CreditIncentive, DeductTds
    <3>4. OneRunCreditsOnce'
      BY <1>t, <2>1, <3>1, <3>2 DEF OneRunCreditsOnce, Quiet, OthersStay
    <3>5. ASSUME NEW e \in Deposits
          PROVE  /\ Cardinality(Waiting(e, {"tds"})) \in Nat
                 /\ Cardinality(Waiting(e, {"tds"}))' =
                       Cardinality(Waiting(e, {"tds"}))
                          - (IF e = d /\ pc[c] = "tds" THEN 1 ELSE 0)
      BY <1>t, <2>1, <3>1, WaitingStep
    <3>6. TaxesCounted'
      <4> SUFFICES ASSUME NEW e \in Deposits \ (untaxed' \cup torn')
                   PROVE  taxed'[e] + Tds * Cardinality(Waiting(e, {"tds"}))' = Tds * credited'[e]
        BY DEF TaxesCounted
      <4>1. taxed[e] + Tds * Cardinality(Waiting(e, {"tds"})) = Tds * credited[e]
        BY <1>t, <3>2, <3>3 DEF TaxesCounted
      <4>2. CASE e = d /\ pc[c] = "tds"
        <5>1. /\ taxed'[e] = taxed[e] + Tds /\ credited'[e] = credited[e]
              /\ Cardinality(Waiting(e, {"tds"}))' = Cardinality(Waiting(e, {"tds"})) - 1
              /\ Cardinality(Waiting(e, {"tds"})) \in Nat
              /\ taxed[e] \in Nat
          BY <1>t, <3>2, <3>3, <3>5, <4>2
        <5>2. \A n \in Nat : Tds * (n - 1) = Tds * n - Tds
          BY <1>t
        <5> QED
          BY <1>t, <4>1, <5>1, <5>2
      <4>3. CASE ~(e = d /\ pc[c] = "tds")
        <5>1. /\ taxed'[e] = taxed[e] /\ credited'[e] = credited[e]
              /\ Cardinality(Waiting(e, {"tds"}))' = Cardinality(Waiting(e, {"tds"}))
          BY <1>t, <3>2, <3>3, <3>5, <4>3
        <5> QED
          BY <4>1, <5>1
      <4> QED
        BY <4>2, <4>3
    <3> QED
      BY <3>4, <3>6 DEF IncentiveInv
  <2>3. CASE pc[c] = "check" /\ ~Existing(d) /\ Goto(c, "incentive") /\ UNCHANGED <<job, call>>
    <3>1. pc'[c] = "incentive" /\ Doc(c)' = d /\ OthersStay(c)
      BY <2>1, <2>3, ClerkSteps
    <3>2. UNCHANGED <<torn, job, credited, taxed, overlapped, untaxed>> /\ credited[d] = 0
      BY <1>t, <1>4, <2>3 DEF CheckExisting, CreditIncentive, DeductTds, Existing
    <3>3. OneRunCreditsOnce'
      BY <1>t, <2>1, <3>1, <3>2 DEF OneRunCreditsOnce, Quiet, OthersStay
    <3>4. ASSUME NEW e \in Deposits
          PROVE  Cardinality(Waiting(e, {"tds"}))' = Cardinality(Waiting(e, {"tds"}))
      BY <2>3, <3>1, WaitingStep
    <3>5. TaxesCounted'
      BY <3>2, <3>4 DEF IncentiveInv, TaxesCounted
    <3> QED
      BY <3>3, <3>5 DEF IncentiveInv
  <2>4. CASE /\ pc[c] = "incentive" /\ Goto(c, "tds") /\ UNCHANGED <<job, call>>
             /\ credited' = [credited EXCEPT ![d] = @ + 1]
    <3>1. pc'[c] = "tds" /\ Doc(c)' = d /\ OthersStay(c)
      BY <2>1, <2>4, ClerkSteps
    <3>2. /\ UNCHANGED <<torn, job, taxed, overlapped, untaxed>>
          /\ credited'[d] = credited[d] + 1 /\ \A e \in Deposits \ {d} : credited'[e] = credited[e]
      BY <1>t, <1>4, <2>4 DEF CheckExisting, CreditIncentive, DeductTds
    <3>3. OneRunCreditsOnce'
      BY <1>t, <2>1, <2>4, <3>1, <3>2 DEF OneRunCreditsOnce, Quiet, OthersStay
    <3>4. ASSUME NEW e \in Deposits
          PROVE  /\ Cardinality(Waiting(e, {"tds"})) \in Nat
                 /\ Cardinality(Waiting(e, {"tds"}))' =
                       Cardinality(Waiting(e, {"tds"})) + (IF e = d THEN 1 ELSE 0)
      BY <1>t, <2>1, <2>4, <3>1, WaitingStep
    <3>5. \A n \in Nat : Tds * (n + 1) = Tds * n + Tds /\ Tds * n \in Nat
      BY <1>t
    <3>6. TaxesCounted'
      <4> SUFFICES ASSUME NEW e \in Deposits \ (untaxed \cup torn)
                   PROVE  taxed[e] + Tds * Cardinality(Waiting(e, {"tds"}))' = Tds * credited'[e]
        BY <3>2 DEF TaxesCounted
      <4>1. taxed[e] + Tds * Cardinality(Waiting(e, {"tds"})) = Tds * credited[e]
        BY <1>t DEF TaxesCounted
      <4>2. CASE e = d
        <5>1. /\ credited'[e] = credited[e] + 1 /\ credited[e] \in Nat /\ taxed[e] \in Nat
              /\ Cardinality(Waiting(e, {"tds"}))' = Cardinality(Waiting(e, {"tds"})) + 1
              /\ Cardinality(Waiting(e, {"tds"})) \in Nat
          BY <1>t, <3>2, <3>4, <4>2
        <5> QED
          BY <1>t, <3>5, <4>1, <5>1
      <4>3. CASE e # d
        <5>1. /\ credited'[e] = credited[e]
              /\ Cardinality(Waiting(e, {"tds"}))' = Cardinality(Waiting(e, {"tds"}))
          BY <3>2, <3>4, <4>3
        <5> QED
          BY <4>1, <5>1
      <4> QED
        BY <4>2, <4>3
    <3> QED
      BY <3>3, <3>6 DEF IncentiveInv
  <2> QED
    <3>1. {"done", "queued", "failed"} \subseteq JobStates
      BY DEF JobStates
    <3>2. /\ Finish(c) => Settle(c, "done")
          /\ Retry(c) => Settle(c, "queued") \/ Settle(c, "failed")
          /\ \A state : Settle(c, state) => Leave(c)
      BY DEF Finish, Retry, Settle
    <3> QED
      BY <1>4, <2>1, <2>2, <2>3, <2>4, <3>1, <3>2 DEF CheckExisting, CreditIncentive, DeductTds
<1> QED
  BY <1>1, <1>2, <1>3, <1>4 DEF IncentiveNext

LEMMA IncentiveCrash ==
    ASSUME DeskInv, IncentiveInv, NEW c \in Clerks, Crash(c)
    PROVE  IncentiveInv'
<1> USE DeskFacts
<1>1. /\ torn \subseteq torn' /\ UNCHANGED <<job, credited, taxed, overlapped, untaxed>>
      /\ pc'[c] = "idle" /\ Doc(c)' = None /\ OthersStay(c)
      /\ pc[c] = "tds" => Doc(c) \in torn' \cup {None}
  BY CrashMoves, ClerkSteps DEF Crash, incentiveVars, Untold
<1>2. \A d \in Deposits : d # None
  BY DEF Documents
<1>3. ASSUME NEW d \in Deposits \ torn'
      PROVE  Cardinality(Waiting(d, {"tds"}))' = Cardinality(Waiting(d, {"tds"}))
  BY <1>1, <1>2, WaitingStep
<1>4. OneRunCreditsOnce'
  BY <1>1, <1>2 DEF IncentiveInv, OneRunCreditsOnce, Quiet, OthersStay
<1>5. TaxesCounted'
  BY <1>1, <1>3 DEF IncentiveInv, TaxesCounted
<1> QED
  BY <1>4, <1>5 DEF IncentiveInv
-----------------------------------------------------------------------------
(* Transfers *)

\* Clerks with the legs of a transfer, or of a recall of it, before them.
Legs(t, recall, steps) ==
    {c \in Clerks : Doc(c) = t /\ call[c].recall = recall /\ pc[c] \in steps}

Forth(t, steps) == Cardinality(Legs(t, FALSE, steps))
Back(t, steps)  == Cardinality(Legs(t, TRUE, steps))

NotOut    == {"out", "fail"}                 \* nothing is gone from the source
NotIn     == LegSteps \cup {"fail"}          \* nothing has reached the target
Recalling == Working \cup {"reverse"}

Moved(t) == (IF transfer[t] \in {"COMPLETED", "REVERSED"} THEN 1 ELSE 0) - recalls[t]

\* What the steps of clerks say about the status.
StatusKnown(t) ==
    \A c \in Clerks : Doc(c) = t =>
        /\ pc[c] \in Recalling \cup {"recall"} => transfer[t] \notin {"none", "PENDING_APPROVAL"}
        /\ pc[c] \in DecideSteps => /\ transfer[t] # "none"
                                    /\ ~call[c].stale => transfer[t] = "PENDING_APPROVAL"

\* One clerk runs the legs, of a transfer that is COMPLETED or was recalled meanwhile.
LegsRunOnce(t) ==
    /\ \A c, d \in Clerks :
          /\ Doc(c) = t /\ ~call[c].recall /\ pc[c] \in Working
          /\ Doc(d) = t /\ ~call[d].recall /\ pc[d] \in Working
          => c = d
    /\ \A c \in Clerks : Doc(c) = t =>
          /\ ~call[c].recall /\ pc[c] \in Working => transfer[t] \in {"COMPLETED", "REVERSED"}
          /\ call[c].recall => transfer[t] # "REJECTED"

RecallsBacked(t) == recalls[t] >= Back(t, Working)

NetCounted(t) ==
    /\ net[t]["agency"] = Moved(t) - Forth(t, NotIn) + Back(t, NotOut)
    /\ net[t]["distributor"] = Forth(t, NotOut) - Back(t, NotIn) - Moved(t)

\* A recall that does not know better is the first to reverse the transfer.
RecallsCounted(t) ==
    /\ transfer[t] # "FAILED" =>
          recalls[t] = (IF transfer[t] = "REVERSED" THEN 1 ELSE 0) + Back(t, Recalling)
    /\ \A c \in Clerks : Doc(c) = t /\ call[c].recall /\ ~call[c].stale =>
          transfer[t] # "REVERSED"

TransferTold(t) ==
    /\ StatusKnown(t) /\ RecallsBacked(t)
    /\ t \notin torn => LegsRunOnce(t) /\ NetCounted(t)
    /\ t \notin torn \cup contested => RecallsCounted(t)

TransferInv == \A t \in Transfers : TransferTold(t)

LEMMA TransferInitInv == Init => TransferInv
<1> SUFFICES ASSUME Init, NEW t \in Transfers PROVE TransferTold(t)
  BY DEF TransferInv
<1>1. \A c \in Clerks : Doc(c) # t
  BY DeskAssumption DEF Init, DeskInit, Doc, NoCall, Documents
<1>2. transfer[t] = "none" /\ recalls[t] = 0 /\ net[t] = [w \in Wallets |-> 0]
  BY DEF Init, TransferInit
<1>3. \A recall, steps : Legs(t, recall, steps) = {}
  BY <1>1 DEF Legs
<1>4. \A steps : Forth(t, steps) = 0 /\ Back(t, steps) = 0
  BY <1>3, FS_EmptySet DEF Forth, Back
<1> QED
  BY <1>1, <1>2, <1>4 DEF TransferTold, StatusKnown, RecallsBacked, LegsRunOnce, NetCounted,
     RecallsCounted, Moved, Wallets

\* A transfer, or its clerks, that a step does not touch.
LEMMA TransferUntouched ==
    ASSUME NEW t, TransferTold(t), torn \subseteq torn', contested \subseteq contested',
           transfer'[t] = transfer[t], recalls'[t] = recalls[t], net'[t] = net[t],
           \A c \in Clerks : Doc(c) = t \/ Doc(c)' = t =>
               Doc(c)' = Doc(c) /\ pc'[c] = pc[c] /\ call'[c] = call[c]
    PROVE  TransferTold(t)'
<1>1. ASSUME NEW recall, NEW steps PROVE Legs(t, recall, steps)' = Legs(t, recall, steps)
  BY DEF Legs
<1>2. ASSUME NEW steps
      PROVE  Forth(t, steps)' = Forth(t, steps) /\ Back(t, steps)' = Back(t, steps)
  BY <1>1 DEF Forth, Back
<1>3. StatusKnown(t)' /\ RecallsBacked(t)'
  BY <1>2 DEF TransferTold, StatusKnown, RecallsBacked
<1>4. t \notin torn' => LegsRunOnce(t)' /\ NetCounted(t)'
  BY <1>2 DEF TransferTold, LegsRunOnce, NetCounted, Moved
<1>5. t \notin torn' \cup contested' => RecallsCounted(t)'
  BY <1>2 DEF TransferTold, RecallsCounted
<1> QED
  BY <1>3, <1>4, <1>5 DEF TransferTold

LEMMA TransferFrame ==
    ASSUME DeskInv, DeskInv', TransferInv, NEW docs, MovesOnly(docs), docs \cap Transfers = {},
           UNCHANGED transferVars
    PROVE  TransferInv'
<1> SUFFICES ASSUME NEW t \in Transfers PROVE TransferTold(t)'
  BY DEF TransferInv
<1>1. Transfers \in SUBSET Documents
  BY DEF Documents
<1>2. \A c \in Clerks : Doc(c) = t \/ Doc(c)' = t =>
         Doc(c)' = Doc(c) /\ pc'[c] = pc[c] /\ call'[c] = call[c]
  BY <1>1, DocsFrame
<1>3. torn \subseteq torn' /\ UNCHANGED <<transfer, recalls, net, contested>>
  BY DEF MovesOnly, transferVars
<1> QED
  BY <1>2, <1>3, TransferUntouched DEF TransferInv

\* What the move of a clerk does to the counts of clerks with legs before them.
LEMMA ForthMove ==
    ASSUME DeskInv, DeskInv', NEW c \in Clerks, NEW t, NEW steps, OthersStay(c)
    PROVE  LET in == Doc(c) = t /\ ~call[c].recall /\ pc[c] \in steps
               stays == Doc(c)' = t /\ ~call'[c].recall /\ pc'[c] \in steps
           IN /\ Forth(t, steps) \in Nat /\ Forth(t, steps)' \in Nat
              /\ (in <=> stays) => Forth(t, steps)' = Forth(t, steps)
              /\ in /\ ~stays => Forth(t, steps)' = Forth(t, steps) - 1
              /\ ~in /\ stays => Forth(t, steps)' = Forth(t, steps) + 1
<1>1. Legs(t, FALSE, steps) \in SUBSET Clerks /\ IsFiniteSet(Legs(t, FALSE, steps))
  BY ClerksFinite DEF Legs
<1>2. \A d : d # c => (d \in Legs(t, FALSE, steps) <=> d \in Legs(t, FALSE, steps)')
  BY DEF Legs, OthersStay
<1>3. call[c].recall \in BOOLEAN /\ call'[c].recall \in BOOLEAN
  BY DEF DeskInv, DeskTypeOK, Call
<1>4. /\ c \in Legs(t, FALSE, steps) <=> (Doc(c) = t /\ ~call[c].recall /\ pc[c] \in steps)
      /\ c \in Legs(t, FALSE, steps)' <=>
            (Doc(c)' = t /\ ~call'[c].recall /\ pc'[c] \in steps)
  BY <1>3 DEF Legs
<1> QED
  BY <1>1, <1>2, <1>4, CountStep DEF Forth

LEMMA BackMove ==
    ASSUME DeskInv, DeskInv', NEW c \in Clerks, NEW t, NEW steps, OthersStay(c)
    PROVE  LET in == Doc(c) = t /\ call[c].recall /\ pc[c] \in steps
               stays == Doc(c)' = t /\ call'[c].recall /\ pc'[c] \in steps
           IN /\ Back(t, steps) \in Nat /\ Back(t, steps)' \in Nat
              /\ (in <=> stays) => Back(t, steps)' = Back(t, steps)
              /\ in /\ ~stays => Back(t, steps)' = Back(t, steps) - 1
              /\ ~in /\ stays => Back(t, steps)' = Back(t, steps) + 1
<1>1. Legs(t, TRUE, steps) \in SUBSET Clerks /\ IsFiniteSet(Legs(t, TRUE, steps))
  BY ClerksFinite DEF Legs
<1>2. \A d : d # c => (d \in Legs(t, TRUE, steps) <=> d \in Legs(t, TRUE, steps)')
  BY DEF Legs, OthersStay
<1>3. call[c].recall \in BOOLEAN /\ call'[c].recall \in BOOLEAN
  BY DEF DeskInv, DeskTypeOK, Call
<1>4. /\ c \in Legs(t, TRUE, steps) <=> (Doc(c) = t /\ call[c].recall /\ pc[c] \in steps)
      /\ c \in Legs(t, TRUE, steps)' <=>
            (Doc(c)' = t /\ call'[c].recall /\ pc'[c] \in steps)
  BY <1>3 DEF Legs
<1> QED
  BY <1>1, <1>2, <1>4, CountStep DEF Back

\* The same when the clerk is at work on t, or comes to it, or leaves it.
LEMMA CountsMove ==
    ASSUME DeskInv, DeskInv', NEW c \in Clerks, NEW t, OthersStay(c),
           Doc(c) = t \/ pc[c] = "idle",
           Doc(c)' = t \/ pc'[c] = "idle",
           pc[c] # "idle" /\ pc'[c] # "idle" => call'[c].recall = call[c].recall
    PROVE  \A steps \in {NotOut, NotIn, Working, Recalling} :
              /\ Forth(t, steps) \in Nat /\ Forth(t, steps)' \in Nat
              /\ Back(t, steps) \in Nat /\ Back(t, steps)' \in Nat
              /\ (pc[c] \in steps <=> pc'[c] \in steps) =>
                    Forth(t, steps)' = Forth(t, steps) /\ Back(t, steps)' = Back(t, steps)
              /\ pc[c] \in steps /\ pc'[c] \notin steps =>
                    IF call[c].recall
                    THEN Forth(t, steps)' = Forth(t, steps) /\ Back(t, steps)' = Back(t, steps) - 1
                    ELSE Forth(t, steps)' = Forth(t, steps) - 1 /\ Back(t, steps)' = Back(t, steps)
              /\ pc[c] \notin steps /\ pc'[c] \in steps =>
                    IF call'[c].recall
                    THEN Forth(t, steps)' = Forth(t, steps) /\ Back(t, steps)' = Back(t, steps) + 1
                    ELSE Forth(t, steps)' = Forth(t, steps) + 1 /\ Back(t, steps)' = Back(t, steps)
<1>1. ASSUME NEW steps \in {NotOut, NotIn, Working, Recalling} PROVE "idle" \notin steps
  BY DEF NotOut, NotIn, Working, Recalling, LegSteps, AfterLegSteps
<1>2. call[c].recall \in BOOLEAN /\ call'[c].recall \in BOOLEAN
  BY DEF DeskInv, DeskTypeOK, Call
<1> QED
  BY <1>1, <1>2, ForthMove, BackMove
LEMMA StepSets ==
    \A step : /\ step \in NotOut <=> step \in {"out", "fail"}
              /\ step \in NotIn <=> step \in {"out", "in", "back", "fail"}
              /\ step \in Working <=> step \in {"out", "in", "back", "complete", "fail"}
              /\ step \in Recalling <=> step \in {"out", "in", "back", "complete", "fail", "reverse"}
              /\ step \in DecideSteps <=> step \in {"approve", "reject"}
BY DEF NotOut, NotIn, Working, Recalling, LegSteps, AfterLegSteps, DecideSteps

\* A step about transfer t, or about none.
LEMMA TransferElsewhere ==
    ASSUME DeskInv, TransferInv, NEW c \in Clerks, NEW t, OthersStay(c),
           Doc(c) \in {t, None}, Doc(c)' \in {t, None},
           torn \subseteq torn', contested \subseteq contested',
           \A s \in Transfers \ {t} :
               transfer'[s] = transfer[s] /\ recalls'[s] = recalls[s] /\ net'[s] = net[s],
           t \in Transfers => TransferTold(t)'
    PROVE  TransferInv'
<1> SUFFICES ASSUME NEW s \in Transfers \ {t} PROVE TransferTold(s)'
  BY DEF TransferInv
<1>1. s # None /\ TransferTold(s)
  BY DeskFacts DEF TransferInv, Documents
<1>2. \A d \in Clerks : Doc(d) = s \/ Doc(d)' = s =>
         Doc(d)' = Doc(d) /\ pc'[d] = pc[d] /\ call'[d] = call[d]
  BY <1>1 DEF OthersStay
<1> QED
  BY <1>1, <1>2, TransferUntouched

\* What the types and the step of a clerk of transfer t say, for the steps below.
LEMMA TransferFacts ==
    ASSUME DeskInv, TransferInv, NEW t \in Transfers
    PROVE  /\ TransferTold(t) /\ t # None /\ t \in Documents \cup {None}
           /\ recalls[t] \in Int /\ net[t]["agency"] \in Int /\ net[t]["distributor"] \in Int
           /\ \A c \in Clerks :
                 /\ Doc(c) = t => pc[c] \in DecideSteps \cup Recalling \cup {"recall"}
                 /\ Doc(c) = t /\ pc[c] \in {"recall", "reverse"} => call[c].recall
                 /\ pc[c] \in DecideSteps => ~call[c].recall
                 /\ pc[c] = "idle" => Doc(c) = None /\ call[c] = NoCall
<1>1. TransferTold(t) /\ t # None /\ t \in Documents \cup {None}
  BY DeskFacts DEF TransferInv, Documents
<1>2. recalls[t] \in Int /\ net[t]["agency"] \in Int /\ net[t]["distributor"] \in Int
  BY DEF DeskInv, TransferTypes, Wallets
<1>3. \A c \in Clerks :
         /\ Doc(c) = t => pc[c] \in DecideSteps \cup Recalling \cup {"recall"}
         /\ Doc(c) = t /\ pc[c] \in {"recall", "reverse"} => call[c].recall
         /\ pc[c] \in DecideSteps => ~call[c].recall
         /\ pc[c] = "idle" => Doc(c) = None /\ call[c] = NoCall
  BY StepOfDocument, ClerkAt, DeskFacts DEF Recalling
<1> QED
  BY <1>1, <1>2, <1>3

\* A transfer is asked for, and its legs are before a clerk or an approval is.
LEMMA RequestTransferTold ==
    ASSUME DeskInv, DeskInv', TransferInv, NEW c \in Clerks, NEW t \in Transfers,
           RequestTransfer(c, t)
    PROVE  TransferTold(t)'
<1> USE DeskFacts
<1>t. /\ TransferTold(t) /\ t # None /\ transfer \in [Transfers -> TransferStatuses]
      /\ recalls[t] \in Int /\ net[t]["agency"] \in Int /\ net[t]["distributor"] \in Int
  BY TransferFacts DEF DeskInv, TransferTypes
<1>1. transfer[t] = "none" /\ UNCHANGED <<torn, recalls, net, contested>> /\ pc[c] = "idle"
      /\ Doc(c) = None
  BY ClerkAt DEF RequestTransfer, NoCall
<1>2. \A d \in Clerks : Doc(d) # t
  BY <1>t, <1>1, TransferFacts DEF TransferTold, StatusKnown
<1>3. CASE transfer' = [transfer EXCEPT ![t] = "PENDING_APPROVAL"] /\ UNCHANGED <<pc, call>>
  <2>1. transfer'[t] = "PENDING_APPROVAL" /\ \A d \in Clerks : Doc(d)' # t
    BY <1>t, <1>2, <1>3 DEF Doc
  <2>2. \A steps : Forth(t, steps)' = Forth(t, steps) /\ Back(t, steps)' = Back(t, steps)
    BY <1>3 DEF Forth, Back, Legs, Doc
  <2> QED
    BY <1>t, <1>1, <2>1, <2>2
       DEF TransferTold, StatusKnown, LegsRunOnce, RecallsBacked, NetCounted, RecallsCounted, Moved
<1>4. CASE transfer' = [transfer EXCEPT ![t] = "COMPLETED"] /\ Take(c, t, "out")
  <2>1. /\ transfer'[t] = "COMPLETED"
        /\ pc'[c] = "out" /\ Doc(c)' = t /\ ~call'[c].recall /\ OthersStay(c)
    BY <1>t, <1>4 DEF Take, Goto, Doc, NoCall, OthersStay
  <2>2. \A d \in Clerks \ {c} : Doc(d)' # t
    BY <1>2, <2>1 DEF OthersStay
  <2>3. /\ Forth(t, NotIn)' = Forth(t, NotIn) + 1 /\ Forth(t, NotOut)' = Forth(t, NotOut) + 1
        /\ \A steps \in {NotOut, NotIn, Working, Recalling} :
              Forth(t, steps) \in Nat /\ Back(t, steps) \in Nat /\ Back(t, steps)' = Back(t, steps)
    BY <1>1, <2>1, CountsMove, StepSets
  <2>4. StatusKnown(t)' /\ RecallsBacked(t)'
    BY <1>t, <1>1, <2>1, <2>2, <2>3, StepSets DEF TransferTold, StatusKnown, RecallsBacked
  <2>5. LegsRunOnce(t)'
    BY <2>1, <2>2 DEF LegsRunOnce
  <2>6. NetCounted(t) => NetCounted(t)'
    BY <1>t, <1>1, <2>1, <2>3 DEF NetCounted, Moved
  <2>7. RecallsCounted(t) => RecallsCounted(t)'
    BY <1>t, <1>1, <2>1, <2>2, <2>3 DEF RecallsCounted
  <2> QED
    BY <1>t, <1>1, <2>4, <2>5, <2>6, <2>7 DEF TransferTold
<1> QED
  BY <1>3, <1>4 DEF RequestTransfer
\* A clerk takes a transfer to decide about it, or to recall it.
LEMMA ReadTransferTold ==
    ASSUME DeskInv, DeskInv', TransferInv, NEW c \in Clerks, NEW t \in Transfers,
           ReadTransfer(c, t) \/ ReadRecall(c, t)
    PROVE  TransferTold(t)' /\ OthersStay(c) /\ Doc(c) = None /\ Doc(c)' = t
<1> USE DeskFacts
<1>t. TransferTold(t) /\ t # None /\ recalls[t] \in Int
  BY TransferFacts
<1>1. UNCHANGED <<torn, transfer, recalls, net, contested>> /\ pc[c] = "idle" /\ Doc(c) = None
  BY <1>t, TransferFacts DEF ReadTransfer, ReadRecall, transferVars
<1>2. /\ OthersStay(c) /\ Doc(c)' = t /\ ~call'[c].stale
      /\ \/ pc'[c] \in DecideSteps /\ ~call'[c].recall /\ transfer[t] = "PENDING_APPROVAL"
         \/ pc'[c] = "recall" /\ transfer[t] = "COMPLETED"
  BY <1>t DEF ReadTransfer, ReadRecall, Take, Goto, Doc, NoCall, OthersStay, DecideSteps
<1>3. \A steps \in {NotOut, NotIn, Working, Recalling} :
         Forth(t, steps)' = Forth(t, steps) /\ Back(t, steps)' = Back(t, steps)
  BY <1>1, <1>2, CountsMove, StepSets
<1>4. StatusKnown(t)' /\ RecallsBacked(t)'
  BY <1>t, <1>1, <1>2, <1>3, StepSets
     DEF TransferTold, StatusKnown, RecallsBacked, OthersStay
<1>5. LegsRunOnce(t) => LegsRunOnce(t)'
  BY <1>t, <1>1, <1>2, StepSets DEF LegsRunOnce, OthersStay
<1>6. NetCounted(t) => NetCounted(t)'
  BY <1>1, <1>3 DEF NetCounted, Moved
<1>7. RecallsCounted(t) => RecallsCounted(t)'
  BY <1>1, <1>2, <1>3 DEF RecallsCounted, OthersStay
<1> QED
  BY <1>t, <1>1, <1>2, <1>4, <1>5, <1>6, <1>7 DEF TransferTold

\* A clerk decides: it is right, or the transfer is torn.
LEMMA DecideTransferTold ==
    ASSUME DeskInv, DeskInv', TransferInv, NEW c \in Clerks, NEW t \in Transfers, Doc(c) = t,
           ApproveTransfer(c) \/ RejectTransfer(c)
    PROVE  TransferTold(t)' /\ OthersStay(c) /\ Doc(c)' \in {t, None}
<1> USE DeskFacts
<1>t. /\ TransferTold(t) /\ t # None /\ transfer \in [Transfers -> TransferStatuses]
      /\ recalls[t] \in Int /\ net[t]["agency"] \in Int /\ net[t]["distributor"] \in Int
      /\ call[c] \in Call /\ call[c].doc = t
  BY TransferFacts, ClerkAt DEF DeskInv, TransferTypes
<1>1. PICK status \in {"COMPLETED", "REJECTED"} :
         /\ SaveDecision(c, status)
         /\ \/ status = "COMPLETED" /\ Goto(c, "out") /\ call' = Decided(c, call[c])
            \/ status = "REJECTED" /\ Goto(c, "idle") /\ call' = Decided(c, NoCall)
         /\ pc[c] \in DecideSteps
  BY DEF ApproveTransfer, RejectTransfer, DecideSteps
<1>2. /\ transfer'[t] = status /\ UNCHANGED <<recalls, net, contested>>
      /\ torn \subseteq torn' /\ (t \notin torn' => ~call[c].stale /\ t \notin torn)
  BY <1>t, <1>1 DEF SaveDecision, TornIfStale
<1>3. /\ OthersStay(c)
      /\ \A d \in Clerks \ {c} : Doc(d) = t => call'[d].stale
      /\ \/ status = "COMPLETED" /\ pc'[c] = "out" /\ Doc(c)' = t /\ call'[c] = call[c]
         \/ status = "REJECTED" /\ pc'[c] = "idle" /\ Doc(c)' = None
  BY <1>t, <1>1 DEF Goto, Decided, Doc, Call, OthersStay
<1>4. ~call[c].recall /\ pc[c] \notin Recalling
  BY <1>1, TransferFacts, StepSets
<1>5. t \notin torn' => /\ transfer[t] = "PENDING_APPROVAL"
                        /\ \A d \in Clerks \ {c} : Doc(d) = t => pc[d] \in DecideSteps
  BY <1>t, <1>1, <1>2, TransferFacts DEF TransferTold, StatusKnown
<1>6. /\ \A steps \in {NotOut, NotIn, Working, Recalling} :
            /\ Forth(t, steps) \in Nat /\ Back(t, steps) \in Nat /\ Back(t, steps)' = Back(t, steps)
            /\ status = "REJECTED" => Forth(t, steps)' = Forth(t, steps)
      /\ status = "COMPLETED" => /\ Forth(t, NotOut)' = Forth(t, NotOut) + 1
                                 /\ Forth(t, NotIn)' = Forth(t, NotIn) + 1
  BY <1>1, <1>3, <1>4, CountsMove, StepSets
<1>7. StatusKnown(t)' /\ RecallsBacked(t)'
  BY <1>t, <1>2, <1>3, <1>6, StepSets DEF TransferTold, StatusKnown, RecallsBacked, OthersStay
<1>8. t \notin torn' => LegsRunOnce(t)'
  BY <1>t, <1>2, <1>3, <1>4, <1>5, StepSets, TransferFacts DEF LegsRunOnce, OthersStay
<1>9. t \notin torn' => NetCounted(t)'
  BY <1>t, <1>2, <1>3, <1>5, <1>6 DEF TransferTold, NetCounted, Moved
<1>10. t \notin torn' \cup contested => RecallsCounted(t)'
  BY <1>t, <1>2, <1>3, <1>4, <1>5, <1>6 DEF TransferTold, RecallsCounted, OthersStay
<1> QED
  BY <1>2, <1>3, <1>7, <1>8, <1>9, <1>10 DEF TransferTold

\* A recall is written down before its legs run.
LEMMA CreateRecallTold ==
    ASSUME DeskInv, DeskInv', TransferInv, NEW c \in Clerks, NEW t \in Transfers, Doc(c) = t,
           CreateRecall(c)
    PROVE  TransferTold(t)' /\ OthersStay(c) /\ Doc(c)' = t
<1> USE DeskFacts
<1>t. /\ TransferTold(t) /\ t # None /\ recalls \in [Transfers -> Int]
      /\ recalls[t] \in Int /\ net[t]["agency"] \in Int /\ net[t]["distributor"] \in Int
  BY TransferFacts DEF DeskInv, TransferTypes
<1>1. /\ UNCHANGED <<torn, transfer, net, contested>> /\ recalls'[t] = recalls[t] + 1
      /\ pc[c] = "recall" /\ call[c].recall
  BY <1>t, TransferFacts DEF CreateRecall
<1>2. OthersStay(c) /\ pc'[c] = "out" /\ call'[c] = call[c] /\ Doc(c)' = t
  BY DEF CreateRecall, Goto, Doc, OthersStay
<1>3. \A steps \in {NotOut, NotIn, Working, Recalling} :
         /\ Forth(t, steps) \in Nat /\ Back(t, steps) \in Nat
         /\ Forth(t, steps)' = Forth(t, steps) /\ Back(t, steps)' = Back(t, steps) + 1
  BY <1>1, <1>2, CountsMove, StepSets
<1>4. StatusKnown(t)' /\ RecallsBacked(t)'
  BY <1>t, <1>1, <1>2, <1>3, StepSets DEF TransferTold, StatusKnown, RecallsBacked, OthersStay
<1>5. LegsRunOnce(t) => LegsRunOnce(t)'
  BY <1>t, <1>1, <1>2, StepSets DEF LegsRunOnce, OthersStay
<1>6. NetCounted(t) => NetCounted(t)'
  BY <1>t, <1>1, <1>3 DEF NetCounted, Moved
<1>7. RecallsCounted(t) => RecallsCounted(t)'
  BY <1>t, <1>1, <1>2, <1>3 DEF RecallsCounted, OthersStay
<1> QED
  BY <1>t, <1>1, <1>2, <1>4, <1>5, <1>6, <1>7 DEF TransferTold

\* The transfer is REVERSED once the legs of a recall have run.
LEMMA SaveReversedTold ==
    ASSUME DeskInv, DeskInv', TransferInv, NEW c \in Clerks, NEW t \in Transfers, Doc(c) = t,
           SaveReversed(c)
    PROVE  TransferTold(t)' /\ OthersStay(c) /\ Doc(c)' = None
<1> USE DeskFacts
<1>t. /\ TransferTold(t) /\ t # None /\ transfer \in [Transfers -> TransferStatuses]
      /\ recalls[t] \in Int /\ net[t]["agency"] \in Int /\ net[t]["distributor"] \in Int
      /\ call[c] \in Call /\ call[c].doc = t
  BY TransferFacts, ClerkAt DEF DeskInv, TransferTypes
<1>1. /\ transfer'[t] = "REVERSED" /\ UNCHANGED <<recalls, net>>
      /\ pc[c] = "reverse" /\ call[c].recall
      /\ torn \subseteq torn' /\ (t \notin torn' => transfer[t] # "FAILED" /\ t \notin torn)
      /\ contested \subseteq contested'
      /\ t \notin contested' => ~call[c].stale /\ t \notin contested
  BY <1>t, TransferFacts DEF SaveReversed
<1>2. /\ OthersStay(c) /\ pc'[c] = "idle" /\ Doc(c)' = None
      /\ \A d \in Clerks \ {c} : Doc(d) = t => call'[d].stale
  BY <1>t DEF SaveReversed, Goto, Decided, Doc, Call, OthersStay
<1>3. /\ \A steps \in {NotOut, NotIn, Working, Recalling} :
            /\ Forth(t, steps) \in Nat /\ Back(t, steps) \in Nat
            /\ Forth(t, steps)' = Forth(t, steps)
            /\ steps # Recalling => Back(t, steps)' = Back(t, steps)
      /\ Back(t, Recalling)' = Back(t, Recalling) - 1
  BY <1>1, <1>2, CountsMove, StepSets
<1>s. Recalling # NotOut /\ Recalling # NotIn /\ Recalling # Working
  BY StepSets
<1>4. StatusKnown(t)' /\ RecallsBacked(t)'
  BY <1>t, <1>1, <1>2, <1>3, <1>s, StepSets DEF TransferTold, StatusKnown, RecallsBacked, OthersStay
<1>5. LegsRunOnce(t) => LegsRunOnce(t)'
  BY <1>t, <1>1, <1>2, StepSets DEF LegsRunOnce, OthersStay
<1>6. t \notin torn' => transfer[t] \in {"COMPLETED", "REVERSED"}
  BY <1>t, <1>1, StepSets DEF TransferTold, StatusKnown, LegsRunOnce, TransferStatuses
<1>7. t \notin torn' => NetCounted(t)'
  BY <1>t, <1>1, <1>3, <1>s, <1>6 DEF TransferTold, NetCounted, Moved
<1>8. t \notin torn' \cup contested' => RecallsCounted(t)'
  BY <1>t, <1>1, <1>2, <1>3, <1>6 DEF TransferTold, RecallsCounted, OthersStay
<1> QED
  BY <1>t, <1>1, <1>2, <1>4, <1>5, <1>7, <1>8 DEF TransferTold
\* A clerk goes from one step of the legs to another: it keeps what is told, if the
\* wallets keep to the counts.
LEMMA LegStepTold ==
    ASSUME DeskInv, DeskInv', TransferInv, NEW c \in Clerks, NEW t \in Transfers, Doc(c) = t,
           pc[c] \in Working, NEW step \in Working, Goto(c, step),
           UNCHANGED <<call, transfer, recalls, contested>>, torn \subseteq torn',
           t \notin torn' => NetCounted(t)'
    PROVE  TransferTold(t)' /\ OthersStay(c) /\ Doc(c)' = t
<1> USE DeskFacts
<1>t. TransferTold(t) /\ t # None /\ recalls[t] \in Int
  BY TransferFacts
<1>1. OthersStay(c) /\ pc'[c] = step /\ call'[c] = call[c] /\ Doc(c)' = t
  BY DEF Goto, Doc, OthersStay
<1>2. \A steps \in {Working, Recalling} : Back(t, steps)' = Back(t, steps)
  BY <1>1, CountsMove, StepSets
<1>3. StatusKnown(t)' /\ RecallsBacked(t)'
  BY <1>t, <1>1, <1>2, StepSets DEF TransferTold, StatusKnown, RecallsBacked, OthersStay
<1>4. LegsRunOnce(t) => LegsRunOnce(t)'
  BY <1>t, <1>1, StepSets DEF LegsRunOnce, OthersStay
<1>5. RecallsCounted(t) => RecallsCounted(t)'
  BY <1>1, <1>2 DEF RecallsCounted, OthersStay
<1> QED
  BY <1>t, <1>1, <1>3, <1>4, <1>5 DEF TransferTold

\* What the clerk at a leg does to the counts that the wallets keep to.
LEMMA LegCounts ==
    ASSUME DeskInv, DeskInv', TransferInv, NEW c \in Clerks, NEW t \in Transfers, Doc(c) = t,
           pc[c] \in Working, NEW step \in Working, Goto(c, step), UNCHANGED call
    PROVE  \A steps \in {NotOut, NotIn} :
              /\ Forth(t, steps) \in Nat /\ Back(t, steps) \in Nat
              /\ (pc[c] \in steps <=> step \in steps) =>
                    Forth(t, steps)' = Forth(t, steps) /\ Back(t, steps)' = Back(t, steps)
              /\ pc[c] \in steps /\ step \notin steps =>
                    IF call[c].recall
                    THEN Forth(t, steps)' = Forth(t, steps) /\ Back(t, steps)' = Back(t, steps) - 1
                    ELSE Forth(t, steps)' = Forth(t, steps) - 1 /\ Back(t, steps)' = Back(t, steps)
              /\ pc[c] \notin steps /\ step \in steps =>
                    IF call[c].recall
                    THEN Forth(t, steps)' = Forth(t, steps) /\ Back(t, steps)' = Back(t, steps) + 1
                    ELSE Forth(t, steps)' = Forth(t, steps) + 1 /\ Back(t, steps)' = Back(t, steps)
<1>1. OthersStay(c) /\ pc'[c] = step /\ call'[c] = call[c] /\ Doc(c)' = t
  BY DeskFacts DEF Goto, Doc, OthersStay
<1> QED
  BY <1>1, CountsMove

LEMMA GivesToNet ==
    ASSUME DeskInv, NEW c \in Clerks, NEW t \in Transfers, Doc(c) = t,
           NEW w \in Wallets, NEW amount \in Int, Give(c, w, amount)
    PROVE  /\ net'[t][w] = net[t][w] + amount
           /\ \A v \in Wallets \ {w} : net'[t][v] = net[t][v]
           /\ \A s \in Transfers \ {t} : net'[s] = net[s]
BY DeskFacts DEF DeskInv, TransferTypes, Give, Documents

\* The first leg.
LEMMA TakeOutTold ==
    ASSUME DeskInv, DeskInv', TransferInv, NEW c \in Clerks, NEW t \in Transfers, Doc(c) = t,
           TakeOut(c)
    PROVE  TransferTold(t)' /\ OthersStay(c) /\ Doc(c)' = t
<1>t. /\ TransferTold(t) /\ t # None
      /\ recalls[t] \in Int /\ net[t]["agency"] \in Int /\ net[t]["distributor"] \in Int
  BY TransferFacts
<1>1. pc[c] = "out" /\ pc[c] \in Working /\ UNCHANGED <<call, transfer, recalls, contested, torn>>
  BY <1>t, StepSets DEF TakeOut, Refused
<1>2. CASE Give(c, Source(c), -1) /\ Goto(c, "in")
  <2>1. "in" \in Working
    BY StepSets
  <2>2. /\ Forth(t, NotOut) \in Nat /\ Back(t, NotOut) \in Nat
        /\ IF call[c].recall
           THEN Forth(t, NotOut)' = Forth(t, NotOut) /\ Back(t, NotOut)' = Back(t, NotOut) - 1
           ELSE Forth(t, NotOut)' = Forth(t, NotOut) - 1 /\ Back(t, NotOut)' = Back(t, NotOut)
        /\ Forth(t, NotIn)' = Forth(t, NotIn) /\ Back(t, NotIn)' = Back(t, NotIn)
        /\ Forth(t, NotIn) \in Nat /\ Back(t, NotIn) \in Nat
    BY <1>1, <1>2, <2>1, LegCounts, StepSets
  <2>3. /\ Source(c) = IF call[c].recall THEN "agency" ELSE "distributor"
        /\ Source(c) \in Wallets
    BY DEF Source, Wallets
  <2>4. /\ net'[t][Source(c)] = net[t][Source(c)] + (-1)
        /\ \A v \in Wallets \ {Source(c)} : net'[t][v] = net[t][v]
    BY <1>2, <2>3, GivesToNet
  <2>5. NetCounted(t) => NetCounted(t)'
    BY <1>t, <1>1, <2>2, <2>3, <2>4 DEF NetCounted, Moved, Wallets
  <2> QED
    BY <1>t, <1>1, <1>2, <2>1, <2>5, LegStepTold DEF TransferTold
<1>3. CASE Refused(c)
  <2>1. Goto(c, "fail") /\ net' = net /\ "fail" \in Working
    BY <1>t, <1>3, StepSets DEF Refused
  <2>2. \A steps \in {NotOut, NotIn} :
           Forth(t, steps)' = Forth(t, steps) /\ Back(t, steps)' = Back(t, steps)
    BY <1>1, <2>1, LegCounts, StepSets
  <2>3. NetCounted(t) => NetCounted(t)'
    BY <1>1, <2>1, <2>2 DEF NetCounted, Moved
  <2> QED
    BY <1>t, <1>1, <2>1, <2>3, LegStepTold DEF TransferTold
<1> QED
  BY <1>2, <1>3 DEF TakeOut

\* The second leg.
LEMMA PutInTold ==
    ASSUME DeskInv, DeskInv', TransferInv, NEW c \in Clerks, NEW t \in Transfers, Doc(c) = t,
           PutIn(c)
    PROVE  TransferTold(t)' /\ OthersStay(c) /\ Doc(c)' = t
<1>t. /\ TransferTold(t) /\ t # None
      /\ recalls[t] \in Int /\ net[t]["agency"] \in Int /\ net[t]["distributor"] \in Int
  BY TransferFacts
<1>1. pc[c] = "in" /\ pc[c] \in Working /\ UNCHANGED <<call, transfer, recalls, contested, torn>>
  BY <1>t, StepSets DEF PutIn
<1>2. CASE Give(c, Target(c), 1) /\ Goto(c, "complete")
  <2>1. "complete" \in Working
    BY StepSets
  <2>2. /\ Forth(t, NotIn) \in Nat /\ Back(t, NotIn) \in Nat
        /\ IF call[c].recall
           THEN Forth(t, NotIn)' = Forth(t, NotIn) /\ Back(t, NotIn)' = Back(t, NotIn) - 1
           ELSE Forth(t, NotIn)' = Forth(t, NotIn) - 1 /\ Back(t, NotIn)' = Back(t, NotIn)
        /\ Forth(t, NotOut)' = Forth(t, NotOut) /\ Back(t, NotOut)' = Back(t, NotOut)
        /\ Forth(t, NotOut) \in Nat /\ Back(t, NotOut) \in Nat
    BY <1>1, <1>2, <2>1, LegCounts, StepSets
  <2>3. /\ Target(c) = IF call[c].recall THEN "distributor" ELSE "agency"
        /\ Target(c) \in Wallets
    BY DEF Target, Wallets
  <2>4. /\ net'[t][Target(c)] = net[t][Target(c)] + 1
        /\ \A v \in Wallets \ {Target(c)} : net'[t][v] = net[t][v]
    BY <1>2, <2>3, GivesToNet
  <2>5. NetCounted(t) => NetCounted(t)'
    BY <1>t, <1>1, <2>2, <2>3, <2>4 DEF NetCounted, Moved, Wallets
  <2> QED
    BY <1>t, <1>1, <1>2, <2>1, <2>5, LegStepTold DEF TransferTold
<1>3. CASE Goto(c, AfterLostLeg) /\ UNCHANGED <<balance, external, net, call>>
  <2>1. Goto(c, "back") /\ net' = net /\ "back" \in Working
    BY <1>t, <1>3, StepSets DEF AfterLostLeg
  <2>2. \A steps \in {NotOut, NotIn} :
           Forth(t, steps)' = Forth(t, steps) /\ Back(t, steps)' = Back(t, steps)
    BY <1>1, <2>1, LegCounts, StepSets
  <2>3. NetCounted(t) => NetCounted(t)'
    BY <1>1, <2>1, <2>2 DEF NetCounted, Moved
  <2> QED
    BY <1>t, <1>1, <2>1, <2>3, LegStepTold DEF TransferTold
<1> QED
  BY <1>t, <1>2, <1>3 DEF PutIn

\* The compensation of the first leg, or its failure.
LEMMA GiveBackTold ==
    ASSUME DeskInv, DeskInv', TransferInv, NEW c \in Clerks, NEW t \in Transfers, Doc(c) = t,
           GiveBack(c)
    PROVE  TransferTold(t)' /\ OthersStay(c) /\ Doc(c)' = t
<1>t. /\ TransferTold(t) /\ t # None
      /\ recalls[t] \in Int /\ net[t]["agency"] \in Int /\ net[t]["distributor"] \in Int
  BY TransferFacts
<1>1. /\ pc[c] = "back" /\ pc[c] \in Working /\ UNCHANGED <<call, transfer, recalls, contested>>
      /\ Goto(c, "fail") /\ "fail" \in Working /\ torn \subseteq torn'
  BY <1>t, StepSets DEF GiveBack
<1>2. t \notin torn' => NetCounted(t)'
  <2> SUFFICES ASSUME t \notin torn' PROVE NetCounted(t)'
    OBVIOUS
  <2>1. Give(c, Source(c), 1) /\ t \notin torn
    BY <1>t, <1>1 DEF GiveBack, Compensated
  <2>2. /\ Forth(t, NotOut) \in Nat /\ Back(t, NotOut) \in Nat
        /\ IF call[c].recall
           THEN Forth(t, NotOut)' = Forth(t, NotOut) /\ Back(t, NotOut)' = Back(t, NotOut) + 1
           ELSE Forth(t, NotOut)' = Forth(t, NotOut) + 1 /\ Back(t, NotOut)' = Back(t, NotOut)
        /\ Forth(t, NotIn)' = Forth(t, NotIn) /\ Back(t, NotIn)' = Back(t, NotIn)
        /\ Forth(t, NotIn) \in Nat /\ Back(t, NotIn) \in Nat
    BY <1>1, LegCounts, StepSets
  <2>3. /\ Source(c) = IF call[c].recall THEN "agency" ELSE "distributor"
        /\ Source(c) \in Wallets
    BY DEF Source, Wallets
  <2>4. /\ net'[t][Source(c)] = net[t][Source(c)] + 1
        /\ \A v \in Wallets \ {Source(c)} : net'[t][v] = net[t][v]
    BY <2>1, <2>3, GivesToNet
  <2>5. NetCounted(t)
    BY <1>t, <2>1 DEF TransferTold
  <2> QED
    BY <1>t, <1>1, <2>2, <2>3, <2>4, <2>5 DEF NetCounted, Moved, Wallets
<1> QED
  BY <1>1, <1>2, LegStepTold

\* The legs have run: a recall goes on to reverse its transfer.
LEMMA CompleteTold ==
    ASSUME DeskInv, DeskInv', TransferInv, NEW c \in Clerks, NEW t \in Transfers, Doc(c) = t,
           Complete(c)
    PROVE  TransferTold(t)' /\ OthersStay(c) /\ Doc(c)' \in {t, None}
<1> USE DeskFacts
<1>t. TransferTold(t) /\ t # None /\ recalls[t] \in Int /\ call[c] \in Call
  BY TransferFacts
<1>1. pc[c] = "complete" /\ pc[c] \in Working /\ UNCHANGED <<transfer, recalls, net, contested>>
  BY <1>t, StepSets DEF Complete, transferVars
<1>2. CASE torn' = torn \cup {t} /\ Goto(c, "fail") /\ UNCHANGED call
  <2>1. "fail" \in Working
    BY StepSets
  <2> QED
    BY <1>1, <1>2, <2>1, LegStepTold
<1>3. CASE UNCHANGED torn /\ (\/ call[c].recall /\ Goto(c, "reverse") /\ UNCHANGED call
                              \/ ~call[c].recall /\ Leave(c))
  <2>1. /\ OthersStay(c)
        /\ \/ call[c].recall /\ pc'[c] = "reverse" /\ call'[c] = call[c] /\ Doc(c)' = t
           \/ ~call[c].recall /\ pc'[c] = "idle" /\ Doc(c)' = None
    BY <1>3 DEF Goto, Leave, Doc, OthersStay
  <2>2. /\ \A steps \in {NotOut, NotIn} :
              Forth(t, steps)' = Forth(t, steps) /\ Back(t, steps)' = Back(t, steps)
        /\ Back(t, Working) \in Nat /\ Back(t, Working)' \in Nat
        /\ Back(t, Working)' <= Back(t, Working)
        /\ Back(t, Recalling)' = Back(t, Recalling)
    BY <1>1, <2>1, CountsMove, StepSets
  <2>3. StatusKnown(t)' /\ RecallsBacked(t)'
    BY <1>t, <1>1, <2>1, <2>2, StepSets DEF TransferTold, StatusKnown, RecallsBacked, OthersStay
  <2>4. LegsRunOnce(t) => LegsRunOnce(t)'
    BY <1>t, <1>1, <2>1, StepSets DEF LegsRunOnce, OthersStay
  <2>5. NetCounted(t) => NetCounted(t)'
    BY <1>1, <2>2 DEF NetCounted, Moved
  <2>6. RecallsCounted(t) => RecallsCounted(t)'
    BY <1>t, <1>1, <2>1, <2>2 DEF RecallsCounted, OthersStay
  <2> QED
    BY <1>t, <1>1, <1>3, <2>1, <2>3, <2>4, <2>5, <2>6 DEF TransferTold
<1>4. \/ torn' = torn \cup {t} /\ Goto(c, "fail") /\ UNCHANGED call
      \/ UNCHANGED torn /\ (\/ call[c].recall /\ Goto(c, "reverse") /\ UNCHANGED call
                            \/ ~call[c].recall /\ Leave(c))
  BY DEF Complete
<1> QED
  BY <1>2, <1>3, <1>4

\* Nothing moved, or it was given back: the document says FAILED, or tells no more.
LEMMA FailTold ==
    ASSUME DeskInv, DeskInv', TransferInv, NEW c \in Clerks, NEW t \in Transfers, Doc(c) = t,
           Fail(c)
    PROVE  TransferTold(t)' /\ OthersStay(c) /\ Doc(c)' = None
<1> USE DeskFacts
<1>t. /\ TransferTold(t) /\ t # None /\ transfer \in [Transfers -> TransferStatuses]
      /\ recalls \in [Transfers -> Int]
      /\ recalls[t] \in Int /\ net[t]["agency"] \in Int /\ net[t]["distributor"] \in Int
      /\ call[c].recall \in BOOLEAN
  BY TransferFacts DEF DeskInv, DeskTypeOK, Call, TransferTypes
<1>1. /\ pc[c] = "fail" /\ pc[c] \in Working /\ UNCHANGED <<net, contested>>
      /\ torn \subseteq torn' /\ transfer[t] \notin {"none", "PENDING_APPROVAL"}
  BY <1>t, StepSets DEF Fail, TransferTold, StatusKnown
<1>2. OthersStay(c) /\ pc'[c] = "idle" /\ Doc(c)' = None
  BY DEF Fail, Leave, Goto, Doc, OthersStay
<1>3. \A steps \in {NotOut, NotIn, Working, Recalling} :
         /\ Forth(t, steps) \in Nat /\ Back(t, steps) \in Nat
         /\ Forth(t, steps)' \in Nat /\ Back(t, steps)' \in Nat
         /\ IF call[c].recall
            THEN Forth(t, steps)' = Forth(t, steps) /\ Back(t, steps)' = Back(t, steps) - 1
            ELSE Forth(t, steps)' = Forth(t, steps) - 1 /\ Back(t, steps)' = Back(t, steps)
  BY <1>1, <1>2, CountsMove, StepSets
<1>4. CASE t \in torn' /\ UNCHANGED <<transfer, recalls>>
  <2>1. StatusKnown(t)' /\ RecallsBacked(t)'
    BY <1>t, <1>1, <1>2, <1>3, <1>4, StepSets
       DEF TransferTold, StatusKnown, RecallsBacked, OthersStay
  <2> QED
    BY <1>2, <1>4, <2>1 DEF TransferTold
<1>5. CASE /\ call[c].recall /\ UNCHANGED <<transfer, torn>>
           /\ recalls' = [recalls EXCEPT ![t] = @ - 1]
  <2>1. recalls'[t] = recalls[t] - 1
    BY <1>t, <1>5
  <2>2. StatusKnown(t)' /\ RecallsBacked(t)'
    BY <1>t, <1>1, <1>2, <1>3, <1>5, <2>1, StepSets
       DEF TransferTold, StatusKnown, RecallsBacked, OthersStay
  <2>3. LegsRunOnce(t) => LegsRunOnce(t)'
    BY <1>t, <1>1, <1>2, <1>5, StepSets DEF LegsRunOnce, OthersStay
  <2>4. NetCounted(t) => NetCounted(t)'
    BY <1>t, <1>1, <1>3, <1>5, <2>1 DEF NetCounted, Moved
  <2>5. RecallsCounted(t) => RecallsCounted(t)'
    BY <1>t, <1>1, <1>2, <1>3, <1>5, <2>1 DEF RecallsCounted, OthersStay
  <2> QED
    BY <1>t, <1>1, <1>2, <1>5, <2>2, <2>3, <2>4, <2>5 DEF TransferTold
<1>6. CASE /\ ~call[c].recall /\ UNCHANGED <<recalls, torn>>
           /\ transfer' = [transfer EXCEPT ![t] = "FAILED"]
  <2>1. transfer'[t] = "FAILED"
    BY <1>t, <1>6
  <2>2. StatusKnown(t)' /\ RecallsBacked(t)'
    BY <1>t, <1>1, <1>2, <1>3, <1>6, <2>1, StepSets
       DEF TransferTold, StatusKnown, RecallsBacked, OthersStay
  <2>3. LegsRunOnce(t) =>
           /\ transfer[t] \in {"COMPLETED", "REVERSED"}
           /\ \A d \in Clerks : ~(Doc(d)' = t /\ ~call'[d].recall /\ pc'[d] \in Working)
    BY <1>t, <1>1, <1>2, <1>6 DEF LegsRunOnce, OthersStay
  <2>4. LegsRunOnce(t) => LegsRunOnce(t)'
    BY <2>1, <2>3 DEF LegsRunOnce
  <2>5. LegsRunOnce(t) /\ NetCounted(t) => NetCounted(t)'
    BY <1>t, <1>1, <1>3, <1>6, <2>1, <2>3 DEF NetCounted, Moved
  <2>6. RecallsCounted(t)'
    BY <2>1 DEF RecallsCounted
  <2> QED
    BY <1>t, <1>1, <1>2, <1>6, <2>2, <2>4, <2>5, <2>6 DEF TransferTold
<1> QED
  BY <1>4, <1>5, <1>6, <1>2 DEF Fail

\* A transfer without a document: no document tells of it, and none is out by it.
LEMMA UndocumentedTold ==
    ASSUME DeskInv, TransferInv, NEW c \in Clerks, Doc(c) = None,
           TransferDirectly(c) \/ TakeOut(c) \/ PutIn(c) \/ GiveBack(c)
    PROVE  TransferInv'
<1> USE DeskFacts
<1>1. UNCHANGED <<transfer, recalls, net, contested>> /\ torn \subseteq torn'
  BY DEF TransferDirectly, TakeOut, PutIn, GiveBack, Give, Refused, transferVars
<1>2. OthersStay(c) /\ Doc(c)' = None
  BY DEF TransferDirectly, TakeOut, PutIn, GiveBack, Refused, Take, Leave, Goto, Doc, OthersStay,
     NoCall
<1> QED
  BY <1>1, <1>2, TransferElsewhere DEF Documents

LEMMA TransferStep ==
    ASSUME DeskInv, DeskInv', TransferInv, TransferNext
    PROVE  TransferInv'
<1> USE DeskFacts
<1>1. PICK c \in Clerks :
         \/ \E t \in Transfers : RequestTransfer(c, t) \/ ReadTransfer(c, t) \/ ReadRecall(c, t)
         \/ TransferDirectly(c) \/ ApproveTransfer(c) \/ RejectTransfer(c)
         \/ CreateRecall(c) \/ SaveReversed(c)
         \/ TakeOut(c) \/ PutIn(c) \/ GiveBack(c) \/ Complete(c) \/ Fail(c)
  BY DEF TransferNext
<1>2. torn \subseteq torn' /\ Transfers \subseteq Documents
  BY <1>1 DEF RequestTransfer, ReadTransfer, ReadRecall, TransferDirectly, ApproveTransfer,
     RejectTransfer, CreateRecall, SaveReversed, TakeOut, PutIn, GiveBack, Complete, Fail,
     SaveDecision, TornIfStale, Refused, Documents
<1>3. ASSUME NEW t \in Transfers, RequestTransfer(c, t) \/ ReadTransfer(c, t) \/ ReadRecall(c, t)
      PROVE  TransferInv'
  <2>1. /\ pc[c] = "idle" /\ Doc(c) = None /\ UNCHANGED <<recalls, net, contested>>
        /\ \A s \in Transfers \ {t} : transfer'[s] = transfer[s]
    BY <1>3, ClerkAt DEF RequestTransfer, ReadTransfer, ReadRecall, transferVars, NoCall, DeskInv,
       TransferTypes
  <2>2. CASE RequestTransfer(c, t)
    <3>1. OthersStay(c) /\ Doc(c)' \in {t, None}
      BY <1>2, <2>1, <2>2 DEF RequestTransfer, Take, Goto, Doc, NoCall, OthersStay
    <3> QED
      BY <1>2, <2>1, <2>2, <3>1, RequestTransferTold, TransferElsewhere
  <2>3. CASE ReadTransfer(c, t) \/ ReadRecall(c, t)
    BY <1>2, <2>1, <2>3, ReadTransferTold, TransferElsewhere
  <2> QED
    BY <1>3, <2>2, <2>3
<1>4. ASSUME ApproveTransfer(c) \/ RejectTransfer(c) \/ CreateRecall(c) \/ SaveReversed(c)
             \/ Complete(c) \/ Fail(c)
      PROVE  TransferInv'
  <2>1. PICK t \in Transfers : Doc(c) = t
    BY <1>4, ClerkAt DEF ApproveTransfer, RejectTransfer, CreateRecall, SaveReversed, Complete,
       Fail, DecideSteps, AfterLegSteps
  <2>2. /\ UNCHANGED net /\ contested \subseteq contested'
        /\ \A s \in Transfers \ {t} : transfer'[s] = transfer[s] /\ recalls'[s] = recalls[s]
    BY <1>4, <2>1 DEF ApproveTransfer, RejectTransfer, CreateRecall, SaveReversed, Complete, Fail,
       SaveDecision, transferVars, DeskInv, TransferTypes
  <2>3. TransferTold(t)' /\ OthersStay(c) /\ Doc(c)' \in {t, None}
    BY <1>4, <2>1, DecideTransferTold, CreateRecallTold, SaveReversedTold, CompleteTold, FailTold
  <2> QED
    BY <1>2, <2>1, <2>2, <2>3, TransferElsewhere
<1>5. ASSUME TakeOut(c) \/ PutIn(c) \/ GiveBack(c), Doc(c) # None
      PROVE  TransferInv'
  <2>1. PICK t \in Transfers : Doc(c) = t
    BY <1>5, ClerkAt DEF TakeOut, PutIn, GiveBack, LegSteps, NoCall
  <2>2. /\ UNCHANGED <<transfer, recalls, contested>>
        /\ \A s \in Transfers \ {t} : net'[s] = net[s]
    BY <1>5, <2>1 DEF TakeOut, PutIn, GiveBack, Refused, Give, DeskInv, TransferTypes
  <2>3. TransferTold(t)' /\ OthersStay(c) /\ Doc(c)' \in {t, None}
    BY <1>5, <2>1, TakeOutTold, PutInTold, GiveBackTold
  <2> QED
    BY <1>2, <2>1, <2>2, <2>3, TransferElsewhere
<1>6. ASSUME TransferDirectly(c) \/ ((TakeOut(c) \/ PutIn(c) \/ GiveBack(c)) /\ Doc(c) = None)
      PROVE  TransferInv'
  <2>1. Doc(c) = None
    BY <1>6, ClerkAt DEF TransferDirectly, NoCall
  <2> QED
    BY <1>6, <2>1, UndocumentedTold
<1> QED
  BY <1>1, <1>3, <1>4, <1>5, <1>6

LEMMA TransferCrash ==
    ASSUME DeskInv, TransferInv, NEW c \in Clerks, Crash(c)
    PROVE  TransferInv'
<1> USE DeskFacts
<1>1. /\ DeskInv' /\ torn \subseteq torn' /\ UNCHANGED transferVars
      /\ pc[c] \in Untold => Doc(c) \in torn' \cup {None}
      /\ pc'[c] = "idle" /\ call'[c] = NoCall /\ Doc(c)' = None
      /\ \A d \in Clerks \ {c} : pc'[d] = pc[d] /\ call'[d] = call[d]
  BY CrashMoves DEF Crash, Doc
<1>2. OthersStay(c) /\ UNCHANGED <<transfer, recalls, net, contested>>
  BY <1>1 DEF OthersStay, Doc, transferVars
<1>3. ASSUME NEW t \in Transfers, Doc(c) = t PROVE TransferTold(t)'
  <2>t. TransferTold(t) /\ t # None /\ recalls[t] \in Int /\ call[c].recall \in BOOLEAN
    BY TransferFacts DEF DeskInv, DeskTypeOK, Call
  <2>1. /\ Back(t, Working) \in Nat /\ Back(t, Working)' \in Nat
        /\ Back(t, Working)' <= Back(t, Working)
    BY <1>1, <1>2, <1>3, CountsMove, StepSets
  <2>2. StatusKnown(t)' /\ RecallsBacked(t)'
    BY <2>t, <1>1, <1>2, <2>1 DEF TransferTold, StatusKnown, RecallsBacked, OthersStay
  <2>3. CASE pc[c] \in Recalling
    <3>1. pc[c] \in Untold
      BY <2>3, StepSets DEF Untold
    <3> QED
      BY <1>1, <1>3, <2>t, <2>2, <3>1 DEF TransferTold
  <2>4. CASE pc[c] \notin Recalling
    <3>1. \A steps \in {NotOut, NotIn, Recalling} :
             Forth(t, steps)' = Forth(t, steps) /\ Back(t, steps)' = Back(t, steps)
      BY <1>1, <1>2, <1>3, <2>4, CountsMove, StepSets
    <3>2. LegsRunOnce(t) => LegsRunOnce(t)'
      BY <1>1, <1>2, <2>t DEF LegsRunOnce, OthersStay
    <3>3. NetCounted(t) => NetCounted(t)'
      BY <1>2, <3>1 DEF NetCounted, Moved
    <3>4. RecallsCounted(t) => RecallsCounted(t)'
      BY <1>1, <1>2, <2>t, <3>1 DEF RecallsCounted, OthersStay
    <3> QED
      BY <1>1, <1>2, <2>t, <2>2, <3>2, <3>3, <3>4 DEF TransferTold
  <2> QED
    BY <2>3, <2>4
<1>4. CASE Doc(c) \in Transfers
  BY <1>1, <1>2, <1>3, <1>4, TransferElsewhere
<1>5. CASE Doc(c) \notin Transfers
  <2>1. PICK t : t = Doc(c)
    OBVIOUS
  <2> QED
    BY <1>1, <1>2, <1>5, <2>1, TransferElsewhere
<1> QED
  BY <1>4, <1>5

-----------------------------------------------------------------------------
(* The services together *)

\* Steps of one service, or none, are steps of no clerk with a document of another.
LEMMA StepsApart ==
    ASSUME DeskInv, [Next]_vars
    PROVE  /\ DeskInv'
           /\ \/ UNCHANGED vars /\ MovesOnly({})
              \/ /\ RequestNext /\ MovesOnly(Requests)
                 /\ UNCHANGED <<transferVars, incentiveVars, productVars, keyedVars>>
              \/ /\ TransferNext /\ MovesOnly(Transfers \cup {None})
                 /\ UNCHANGED <<requestVars, incentiveVars, productVars, keyedVars>>
              \/ /\ IncentiveNext /\ MovesOnly(Deposits)
                 /\ UNCHANGED <<requestVars, transferVars, productVars, keyedVars>>
              \/ /\ ProductNext /\ MovesOnly(Products)
                 /\ UNCHANGED <<requestVars, transferVars, incentiveVars, keyedVars>>
              \/ /\ KeyedNext /\ MovesOnly(Keyed)
                 /\ UNCHANGED <<requestVars, transferVars, incentiveVars, productVars>>
              \/ \E c \in Clerks : Crash(c)
<1>1. UNCHANGED vars => MovesOnly({})
  BY DEF vars, deskVars, MovesOnly
<1> QED
  BY <1>1, NextDeskInv, RequestStepMoves, TransferStepMoves, IncentiveStepMoves, ProductStepMoves,
     KeyedStepMoves DEF Next

LEMMA NextRequestInv == DeskInv /\ RequestInv /\ [Next]_vars => RequestInv'
<1> SUFFICES ASSUME DeskInv, RequestInv, [Next]_vars PROVE RequestInv'
  OBVIOUS
<1>1. /\ {} \cap Requests = {} /\ (Transfers \cup {None}) \cap Requests = {} /\ Deposits \cap Requests = {}
      /\ Products \cap Requests = {} /\ Keyed \cap Requests = {}
  BY DeskAssumption DEF Documents
<1>2. DeskInv'
  BY StepsApart
<1>3. CASE UNCHANGED requestVars /\ \E docs \in {{}, Requests, Transfers \cup {None}, Deposits, Products, Keyed} :
              docs \cap Requests = {} /\ MovesOnly(docs)
  BY <1>2, <1>3, RequestFrame
<1>4. CASE RequestNext
  BY <1>2, <1>4, RequestStep
<1>5. CASE \E c \in Clerks : Crash(c)
  BY <1>5, RequestCrash
<1> QED
  BY <1>1, <1>3, <1>4, <1>5, StepsApart DEF vars

LEMMA NextTransferInv == DeskInv /\ TransferInv /\ [Next]_vars => TransferInv'
<1> SUFFICES ASSUME DeskInv, TransferInv, [Next]_vars PROVE TransferInv'
  OBVIOUS
<1>1. /\ {} \cap Transfers = {} /\ Requests \cap Transfers = {} /\ Deposits \cap Transfers = {}
      /\ Products \cap Transfers = {} /\ Keyed \cap Transfers = {}
  BY DeskAssumption DEF Documents
<1>2. DeskInv'
  BY StepsApart
<1>3. CASE UNCHANGED transferVars /\ \E docs \in {{}, Requests, Transfers \cup {None}, Deposits, Products, Keyed} :
              docs \cap Transfers = {} /\ MovesOnly(docs)
  BY <1>2, <1>3, TransferFrame
<1>4. CASE TransferNext
  BY <1>2, <1>4, TransferStep
<1>5. CASE \E c \in Clerks : Crash(c)
  BY <1>5, TransferCrash
<1> QED
  BY <1>1, <1>3, <1>4, <1>5, StepsApart DEF vars

LEMMA NextIncentiveInv == DeskInv /\ IncentiveInv /\ [Next]_vars => IncentiveInv'
<1> SUFFICES ASSUME DeskInv, IncentiveInv, [Next]_vars PROVE IncentiveInv'
  OBVIOUS
<1>1. /\ {} \cap Deposits = {} /\ Requests \cap Deposits = {} /\ (Transfers \cup {None}) \cap Deposits = {}
      /\ Products \cap Deposits = {} /\ Keyed \cap Deposits = {}
  BY DeskAssumption DEF Documents
<1>2. DeskInv'
  BY StepsApart
<1>3. CASE UNCHANGED incentiveVars /\ \E docs \in {{}, Requests, Transfers \cup {None}, Deposits, Products, Keyed} :
              docs \cap Deposits = {} /\ MovesOnly(docs)
  BY <1>2, <1>3, IncentiveFrame
<1>4. CASE IncentiveNext
  BY <1>2, <1>4, IncentiveStep
<1>5. CASE \E c \in Clerks : Crash(c)
  BY <1>5, IncentiveCrash
<1> QED
  BY <1>1, <1>3, <1>4, <1>5, StepsApart DEF vars

LEMMA NextProductInv == DeskInv /\ ProductInv /\ [Next]_vars => ProductInv'
<1> SUFFICES ASSUME DeskInv, ProductInv, [Next]_vars PROVE ProductInv'
  OBVIOUS
<1>1. /\ {} \cap Products = {} /\ Requests \cap Products = {} /\ (Transfers \cup {None}) \cap Products = {}
      /\ Deposits \cap Products = {} /\ Keyed \cap Products = {}
  BY DeskAssumption DEF Documents
<1>2. DeskInv'
  BY StepsApart
<1>3. CASE UNCHANGED productVars /\ \E docs \in {{}, Requests, Transfers \cup {None}, Deposits, Products, Keyed} :
              docs \cap Products = {} /\ MovesOnly(docs)
  BY <1>2, <1>3, ProductFrame
<1>4. CASE ProductNext
  BY <1>2, <1>4, ProductStep
<1>5. CASE \E c \in Clerks : Crash(c)
  BY <1>5, ProductCrash
<1> QED
  BY <1>1, <1>3, <1>4, <1>5, StepsApart DEF vars

\* Every request's postings are counted by its status and by the clerks that have yet
\* to save it.
THEOREM RequestInvariance == Spec => []RequestInv
BY DeskInvariance, RequestInitInv, NextRequestInv, PTL DEF Spec

\* A transfer's documents account for its wallets up to the clerks at its legs.
THEOREM TransferInvariance == Spec => []TransferInv
BY DeskInvariance, TransferInitInv, NextTransferInv, PTL DEF Spec

\* A deposit's tax is withheld up to the runs that have yet to withhold it.
THEOREM IncentiveInvariance == Spec => []IncentiveInv
BY DeskInvariance, IncentiveInitInv, NextIncentiveInv, PTL DEF Spec

\* The clerk of a one-step booking knows whether it is paid.
THEOREM ProductInvariance == Spec => []ProductInv
BY DeskInvariance, ProductInitInv, NextProductInv, PTL DEF Spec

\* No request is approved without its posting, and one at rest, that no stale decision
\* or crash tore, was posted once if approved and never otherwise.
THEOREM RequestsPosted == Spec => []RequestsArePosted
<1>1. RequestInv => RequestsArePosted
  <2> SUFFICES ASSUME RequestInv PROVE RequestsArePosted
    OBVIOUS
  <2>1. \A r \in Requests : Quiet(r) => Cardinality(Waiting(r, {"saveRequest"})) = 0
    BY WaitingQuiet
  <2> QED
    BY <2>1 DEF RequestInv, PostingsCounted, RequestsArePosted, RequestTellsPostings
<1> QED
  BY <1>1, RequestInvariance, PTL

\* A one-step booking is refunded once, is CANCELLED after that, and when no request is
\* at work on it its status tells whether it is paid.
THEOREM ProductsPaidOrRefunded == Spec => []ProductPaidOrRefunded
<1>1. DeskInv /\ ProductInv => ProductPaidOrRefunded
  BY DEF ProductInv, RefundBeforeCancel, ProductPaidOrRefunded, ProductRefundedOnce,
     CancelledIsRefunded, DeskInv, ProductTypeOK
<1> QED
  BY <1>1, DeskInvariance, ProductInvariance, PTL

\* A deposit earns one incentive however its job is retried, and the platform withholds
\* its tax.
THEOREM IncentivesOnceNetOfTax == Spec => []IncentiveOnceNetOfTax
<1>1. DeskInv /\ IncentiveInv => IncentiveOnceNetOfTax
  <2> SUFFICES ASSUME DeskInv, IncentiveInv PROVE IncentiveOnceNetOfTax
    OBVIOUS
  <2>1. \A d \in Deposits : Quiet(d) => Cardinality(Waiting(d, {"tds"})) = 0
    BY WaitingQuiet
  <2>2. \A d \in Deposits : taxed[d] \in Int
    BY DEF DeskInv, IncentiveTypeOK
  <2> QED
    BY <2>1, <2>2, IncentiveAssumption
       DEF IncentiveInv, OneRunCreditsOnce, TaxesCounted, IncentiveOnceNetOfTax, IncentiveOnce,
           IncentiveIsTaxed
<1> QED
  BY <1>1, DeskInvariance, IncentiveInvariance, PTL

\* Once nobody is at work on a transfer, its document and those of its recalls say what
\* its legs, their compensations and its recalls did to both wallets, and one recall
\* stands for a transfer that is REVERSED.
THEOREM TransfersTold == Spec => []TransfersTellMoves
<1>1. DeskInv /\ TransferInv => TransfersTellMoves
  <2> SUFFICES ASSUME DeskInv, TransferInv, NEW t \in Transfers, Quiet(t)
               PROVE  /\ t \notin torn => /\ net[t]["agency"] = Moved(t)
                                          /\ net[t]["distributor"] = -Moved(t)
                      /\ t \notin torn \cup contested /\ transfer[t] # "FAILED" =>
                            recalls[t] = IF transfer[t] = "REVERSED" THEN 1 ELSE 0
    <3>1. ASSUME \A t \in Transfers \ torn : Quiet(t) =>
                    /\ net[t]["agency"] = Moved(t) /\ net[t]["distributor"] = -Moved(t)
          PROVE  DeskInv => RowsTellMoves
      BY <3>1 DEF RowsTellMoves, Moved, Wallets, DeskInv, TransferTypes
    <3> QED
      BY <3>1 DEF TransfersTellMoves, RecalledOnce
  <2>1. \A recall, steps : Legs(t, recall, steps) = {}
    BY DEF Legs, Quiet
  <2>2. \A steps : Forth(t, steps) = 0 /\ Back(t, steps) = 0
    BY <2>1, FS_EmptySet DEF Forth, Back
  <2>3. TransferTold(t) /\ recalls[t] \in Int
    BY TransferFacts
  <2> QED
    BY <2>2, <2>3 DEF TransferTold, NetCounted, RecallsCounted, Moved
<1> QED
  BY <1>1, DeskInvariance, TransferInvariance, PTL

\* The types, down to what needs the counts: no more recalls fail than were written.
THEOREM TypesKnown == Spec => []TypeOK
<1>1. DeskInv /\ TransferInv => TypeOK
  <2> SUFFICES ASSUME DeskInv, TransferInv PROVE TypeOK
    OBVIOUS
  <2>1. \A t \in Transfers : recalls[t] \in Nat
    <3> SUFFICES ASSUME NEW t \in Transfers PROVE recalls[t] \in Nat
      OBVIOUS
    <3>1. Legs(t, TRUE, Working) \in SUBSET Clerks
      BY DEF Legs
    <3>2. Back(t, Working) \in Nat
      BY <3>1, ClerksFinite DEF Back
    <3> QED
      BY <3>2, TransferFacts DEF TransferTold, RecallsBacked
  <2> QED
    BY <2>1 DEF TypeOK, DeskInv, TransferTypes, TransferTypeOK
<1> QED
  BY <1>1, DeskInvariance, TransferInvariance, PTL
=============================================================================
