---------------------------- MODULE AtomicWallet ----------------------------
(***************************************************************************)
(* What a wallet promises to the services that move money through it: the  *)
(* ledger grows by one posting at a time, each posting is decided on the   *)
(* balance it changes and the row records the balance it leaves.  Locks,   *)
(* snapshots, retries and crashes do not appear here.                      *)
(***************************************************************************)
EXTENDS Integers, Sequences

CONSTANTS Wallets, Amounts, Refs, None, Opening, OpeningCredit

VARIABLES balance, credit, rows

vars == <<balance, credit, rows>>

Init ==
    /\ balance = Opening
    /\ credit = OpeningCredit
    /\ rows = [w \in Wallets |-> <<>>]

Unused(via, ref) ==
    ref # None => \A w \in Wallets : \A i \in DOMAIN rows[w] :
                      ~(rows[w][i].via = via /\ rows[w][i].ref = ref)

Row(via, w, delta, strict, ref) ==
    [via |-> via, delta |-> delta, after |-> balance[w] + delta,
     strict |-> strict, ref |-> ref]

\* A credit or a debit of the wallet; a strict debit must be covered.
Post(w, via, delta, strict, ref) ==
    /\ Unused(via, ref)
    /\ strict => balance[w] + delta >= 0
    /\ balance' = [balance EXCEPT ![w] = @ + delta]
    /\ rows' = [rows EXCEPT ![w] = Append(@, Row(via, w, delta, strict, ref))]
    /\ UNCHANGED credit

\* A gateway deposit: a part of it may settle credit, the rest is a top-up.
Deposit(w, toCredit, toWallet, ref) ==
    /\ toCredit <= credit[w]
    /\ credit' = [credit EXCEPT ![w] = @ - toCredit]
    /\ balance' = [balance EXCEPT ![w] = @ + toWallet]
    /\ \/ /\ toWallet = 0
          /\ rows' = rows
       \/ /\ toWallet > 0
          /\ Unused("WATERFALL", ref)
          /\ rows' = [rows EXCEPT ![w] =
                        Append(@, Row("WATERFALL", w, toWallet, FALSE, ref))]

Next ==
    \E w \in Wallets, a \in Amounts, ref \in Refs \cup {None} :
        \/ \E via \in {"LEDGER", "SERVICE"}, strict \in BOOLEAN :
             Post(w, via, a, FALSE, ref) \/ Post(w, via, -a, strict, ref)
        \/ \E toCredit \in 0 .. a : Deposit(w, toCredit, a - toCredit, ref)

Spec == Init /\ [][Next]_vars
=============================================================================
