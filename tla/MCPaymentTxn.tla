---------------------------- MODULE MCPaymentTxn ----------------------------
(* Instances of PaymentTxn for TLC. *)
EXTENDS PaymentTxn, TLC

\* Calls are interchangeable: no definition tells them apart.
CallSymmetry == Permutations(Handlers)
=============================================================================
