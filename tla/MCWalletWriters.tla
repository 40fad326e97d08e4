-------------------------- MODULE MCWalletWriters --------------------------
(* Instances of WalletWriters for TLC. *)
EXTENDS WalletWriters

MCOpening == [w \in Wallets |-> 2]
MCOpeningCredit == [w \in Wallets |-> 1]
=============================================================================
