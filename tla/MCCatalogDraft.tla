----------------------------- MODULE MCCatalogDraft -----------------------------
(***************************************************************************)
(* A draft small enough to explore: one provider, whose id may be changed, *)
(* one catalog, two resources, whose ids may come with blanks, one offer.  *)
(***************************************************************************)
EXTENDS CatalogDraft

A == [name |-> "a", padded |-> FALSE]
APadded == [name |-> "a", padded |-> TRUE]
B == [name |-> "b", padded |-> FALSE]

MCTyped == [provider |-> {A, B}, catalog |-> {A}, resource |-> {A, APadded}, offer |-> {A}]
MCMaxItems == [provider |-> 1, catalog |-> 1, resource |-> 2, offer |-> 1]
=================================================================================
