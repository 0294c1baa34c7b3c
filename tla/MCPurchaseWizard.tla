---------------------------- MODULE MCPurchaseWizard ----------------------------
(* PurchaseWizard for TLC *)
EXTENDS PurchaseWizard

CONSTANT tab

MCTxn == 1..2
MCTrip == 1..2
MCPage == {tab}
=================================================================================
