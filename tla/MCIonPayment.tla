------------------------------ MODULE MCIonPayment ------------------------------
(***************************************************************************)
(* IonPayment for TLC: two invoices with a checkout each, or two checkouts *)
(* of one; the purchase of the first goes on to its settlement.            *)
(***************************************************************************)
EXTENDS IonPayment

CONSTANTS inv1, inv2, req1, req2

MCInvoice == {inv1, inv2}
MCCompleted == {inv1}
MCCheckout == {req1, req2}
=================================================================================
