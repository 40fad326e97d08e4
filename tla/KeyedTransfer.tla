--------------------------- MODULE KeyedTransfer ---------------------------
(***************************************************************************)
(* POST /wallet/transfer (services/payment/wallet.service.ts, transfer):   *)
(* two legs under keys made of the client's, a link between their rows,    *)
(* and a reversal, without a key, when anything after the debit throws.    *)
(*                                                                         *)
(* The distributor gives to its agency, as often as the client repeats the *)
(* request.  minted counts the reversals of transfers that had arrived:    *)
(* the link of the rows is made inside the try of the credit.              *)
(***************************************************************************)
EXTENDS WalletDesk

VARIABLES row, minted

keyedVars == <<row, minted>>

NoRow == [out |-> 0, in |-> 0, reversed |-> 0]

KeyedTypeOK ==
    /\ row \in [Keyed -> [out : Nat, in : Nat, reversed : Nat]]
    /\ minted \in Nat

KeyedInit ==
    /\ row = [k \in Keyed |-> NoRow]
    /\ minted = 0

-----------------------------------------------------------------------------
\* With both rows the request is answered from them; with one it starts anew.
StartTransfer(c, k) ==
    /\ pc[c] = "idle"
    /\ row[k].out = 0 \/ row[k].in = 0
    /\ Take(c, k, "keyedOut")
    /\ UNCHANGED <<money, torn, keyedVars>>

\* Mutant: the row of the debit gets a key of its own.
OutFreshAlways(k) == TRUE

OutFresh(k) == row[k].out = 0

KeyedOut(c) ==
    /\ pc[c] = "keyedOut"
    /\ OutFresh(Doc(c))
    /\ balance["distributor"] >= 1
    /\ Post("distributor", -1)
    /\ row' = [row EXCEPT ![Doc(c)].out = @ + 1]
    /\ Goto(c, "keyedIn")
    /\ UNCHANGED <<external, stranded, torn, call, minted>>

\* The key is taken, the wallet does not cover the amount, or it is not active.
KeyedOutThrows(c) ==
    /\ pc[c] = "keyedOut"
    /\ Leave(c)
    /\ UNCHANGED <<money, torn, keyedVars>>

KeyedIn(c) ==
    /\ pc[c] = "keyedIn"
    /\ row[Doc(c)].in = 0
    /\ Post("agency", 1)
    /\ row' = [row EXCEPT ![Doc(c)].in = @ + 1]
    /\ Goto(c, "link")
    /\ UNCHANGED <<external, stranded, torn, call, minted>>

KeyedInThrows(c) ==
    /\ pc[c] = "keyedIn"
    /\ Goto(c, "keyedBack")
    /\ UNCHANGED <<money, torn, call, keyedVars>>

Link(c) ==
    /\ pc[c] = "link"
    /\ \/ Leave(c) /\ UNCHANGED torn
       \/ Goto(c, "keyedBack") /\ torn' = torn \cup {Doc(c)} /\ UNCHANGED call
    /\ UNCHANGED <<money, keyedVars>>

KeyedBack(c) ==
    /\ pc[c] = "keyedBack"
    /\ Post("distributor", 1)
    /\ row' = [row EXCEPT ![Doc(c)].reversed = @ + 1]
    /\ minted' = minted + row[Doc(c)].in
    /\ Leave(c)
    /\ UNCHANGED <<external, stranded, torn>>

\* The reversal throws as well.
KeyedLost(c) ==
    /\ pc[c] = "keyedBack"
    /\ stranded' = IF row[Doc(c)].in = 0 THEN stranded + 1 ELSE stranded
    /\ torn' = torn \cup {Doc(c)}
    /\ Leave(c)
    /\ UNCHANGED <<balance, external, keyedVars>>

KeyedNext ==
    \E c \in Clerks :
        \/ \E k \in Keyed : StartTransfer(c, k)
        \/ KeyedOut(c) \/ KeyedOutThrows(c) \/ KeyedIn(c) \/ KeyedInThrows(c)
        \/ Link(c) \/ KeyedBack(c) \/ KeyedLost(c)

-----------------------------------------------------------------------------
(* Properties *)

\* A client that repeats its request, also while the first one runs or after it
\* died, does not move the money twice.
KeyedMovesOnce == \A k \in Keyed : row[k].out <= 1 /\ row[k].in <= 1

\* Unless a process died between the legs, a reversal was refused or the link of
\* the rows failed, what left the one wallet reached the other or came back.
KeyedSettles ==
    \A k \in Keyed \ torn : Quiet(k) => row[k].out = row[k].in + row[k].reversed

\* A keyed transfer moves the money once, or gives it back.
KeyedTransferSettles == KeyedMovesOnce /\ KeyedSettles
=============================================================================
