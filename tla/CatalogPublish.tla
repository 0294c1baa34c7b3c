----------------------------- MODULE CatalogPublish -----------------------------
(***************************************************************************)
(* How the insurer's catalogs reach the catalog service (CS).              *)
(* PublishCatalog posts a catalog through the adapter and then inserts a   *)
(* PENDING row into catalog_publish_results.  The CS (src/cs-mock) answers *)
(* ACK and starts a goroutine that calls catalog/on_publish, which updates *)
(* the rows of the catalog.  The publishing wizard of the insurer's        *)
(* frontend saves a draft and publishes its catalogs one after the other;  *)
(* any other client of the API may publish a catalog again.                *)
(*                                                                         *)
(* One action is one SQL statement or one HTTP exchange.                   *)
(***************************************************************************)
EXTENDS Integers, FiniteSets, Sequences

CONSTANTS
    MaxCatalogs,       \* bound on the rows of catalogs
    MaxPublications,   \* bound on the calls of PublishCatalog
    DraftSize          \* catalogs in the wizard's draft

ASSUME ConstantsAssumption ==
    /\ MaxCatalogs \in Nat /\ MaxPublications \in Nat
    /\ DraftSize \in Nat \ {0}

\* Catalogs are numbered by their SERIAL id, publications in the order of their
\* calls; None is no id.
Catalog == 1..MaxCatalogs
Publication == 1..MaxPublications
None == 0

VARIABLES
    catalogs,      \* number of rows of table catalogs
    results,       \* table catalog_publish_results, in the order of its ids
    pub,           \* the calls of PublishCatalog
    cs,            \* what the CS does for each publication
    wizard         \* the publish page of the frontend

vars == <<catalogs, results, pub, cs, wizard>>

--------------------------------------------------------------------------------
(* Types *)

\* The mock's verdict is always ACCEPTED.
CdsStatus == {"PENDING", "ACCEPTED"}

\* by is a history variable: the publication that inserted the row.
Result == [catalog: Catalog, status: CdsStatus, by: Publication]

\* rejected: ended before the POST.  posting: the POST is out.  acked: the adapter
\* has passed on the CS's ACK.  sent, failed: the API has answered 202, 500.
Pub == [pc: {"none", "rejected", "posting", "acked", "sent", "failed"},
        catalog: Catalog \cup {None}]

\* out: the CS has the catalog and its goroutine has not called back yet.
CsState == {"none", "out", "lost", "over"}

\* made are the catalogs of the draft published since the last click, catalog
\* and pub the ones in progress.
Wizard == [pc: {"edit", "saving", "creating", "created", "publishing", "success", "error"},
           made: SUBSET Catalog, catalog: Catalog \cup {None}, pub: Publication \cup {None}]

TypeOK ==
    /\ catalogs \in 0..MaxCatalogs
    /\ results \in Seq(Result)
    /\ pub \in [Publication -> Pub]
    /\ cs \in [Publication -> CsState]
    /\ wizard \in Wizard

--------------------------------------------------------------------------------
(* Helpers *)

RowsOf(c) == {i \in DOMAIN results : results[i].catalog = c}

LatestRow(c) == CHOOSE i \in RowsOf(c) : \A j \in RowsOf(c) : j <= i

\* ListCatalogs: the status of the catalog's row with the highest id.
Listed(c) == IF RowsOf(c) = {} THEN "UNPUBLISHED" ELSE results[LatestRow(c)].status

\* The CS has been sent catalog c.
Received(c) == \E p \in Publication : pub[p].catalog = c /\ cs[p] # "none"

Page(pc) == [pc |-> pc, made |-> {}, catalog |-> None, pub |-> None]

Init ==
    /\ catalogs = 0
    /\ results = << >>
    /\ pub = [p \in Publication |-> [pc |-> "none", catalog |-> None]]
    /\ cs = [p \in Publication |-> "none"]
    /\ wizard = Page("edit")

--------------------------------------------------------------------------------
(* PublishCatalog *)

\* The catalog is read and its message built and posted; no such row, or a
\* query that fails, ends the call.
Start(p, c) ==
    /\ pub[p].pc = "none" /\ \A q \in 1..(p - 1) : pub[q].pc # "none"
    /\ \/ /\ c <= catalogs
          /\ pub' = [pub EXCEPT ![p] = [pc |-> "posting", catalog |-> c]]
       \/ pub' = [pub EXCEPT ![p] = [pc |-> "rejected", catalog |-> None]]

\* Any client with a token.
ApiPublish(p, c) ==
    /\ Start(p, c)
    /\ UNCHANGED <<catalogs, results, cs, wizard>>

\* Variant: a status of 400 and above is not an error.
PostFailsUnseen(p) ==
    /\ pub[p].pc = "posting"
    /\ pub' = [pub EXCEPT ![p].pc = "acked"]
    /\ UNCHANGED <<catalogs, results, cs, wizard>>

\* Variant: the adapter waits for the CS however long it takes.
PostFailsAnswered(p) ==
    /\ pub[p].pc = "posting" /\ cs[p] # "none"
    /\ pub' = [pub EXCEPT ![p].pc = "failed"]
    /\ UNCHANGED <<catalogs, results, cs, wizard>>

\* The adapter cannot be reached, refuses, or gives up waiting for the CS.
PostFails(p) ==
    /\ pub[p].pc = "posting"
    /\ pub' = [pub EXCEPT ![p].pc = "failed"]
    /\ UNCHANGED <<catalogs, results, cs, wizard>>

PostAcked(p) ==
    /\ pub[p].pc = "posting" /\ cs[p] # "none"
    /\ pub' = [pub EXCEPT ![p].pc = "acked"]
    /\ UNCHANGED <<catalogs, results, cs, wizard>>

\* Variant: one row per catalog, overwritten by the next publication.
InsertOrReset(p) ==
    /\ pub[p].pc = "acked"
    /\ results' =
           IF RowsOf(pub[p].catalog) = {}
           THEN Append(results, [catalog |-> pub[p].catalog, status |-> "PENDING", by |-> p])
           ELSE [i \in DOMAIN results |->
                    IF i \in RowsOf(pub[p].catalog)
                    THEN [results[i] EXCEPT !.status = "PENDING"] ELSE results[i]]
    /\ pub' = [pub EXCEPT ![p].pc = "sent"]
    /\ UNCHANGED <<catalogs, cs, wizard>>

InsertPending(p) ==
    /\ pub[p].pc = "acked"
    /\ results' =
           Append(results, [catalog |-> pub[p].catalog, status |-> "PENDING", by |-> p])
    /\ pub' = [pub EXCEPT ![p].pc = "sent"]
    /\ UNCHANGED <<catalogs, cs, wizard>>

\* The statement fails, or the client is gone and the request's context with it.
InsertFails(p) ==
    /\ pub[p].pc = "acked"
    /\ pub' = [pub EXCEPT ![p].pc = "failed"]
    /\ UNCHANGED <<catalogs, results, cs, wizard>>

--------------------------------------------------------------------------------
(* The catalog service and HandleOnPublish *)

\* The CS acknowledges and starts its goroutine; the request may reach it after
\* the adapter has given up.
CsReceive(p) ==
    /\ cs[p] = "none" /\ pub[p].pc \in {"posting", "failed"}
    /\ cs' = [cs EXCEPT ![p] = "out"]
    /\ UNCHANGED <<catalogs, results, pub, wizard>>

\* Variants: the UPDATE has no WHERE; the status it writes is not in the table.
AcceptAll(c) ==
    [i \in DOMAIN results |-> [results[i] EXCEPT !.status = "ACCEPTED"]]
AcceptAsAck(c) ==
    [i \in DOMAIN results |->
        IF results[i].catalog = c THEN [results[i] EXCEPT !.status = "ACK"] ELSE results[i]]
\* Variant: the message is logged and the rows are left alone.
AcceptNothing(c) == results

\* UPDATE ... WHERE catalog_id: all rows of the catalog, of whichever publication.
Accept(c) ==
    [i \in DOMAIN results |->
        IF results[i].catalog = c THEN [results[i] EXCEPT !.status = "ACCEPTED"] ELSE results[i]]

OnPublish(p) ==
    /\ cs[p] = "out"
    /\ results' = Accept(pub[p].catalog)
    /\ cs' = [cs EXCEPT ![p] = "over"]
    /\ UNCHANGED <<catalogs, pub, wizard>>

\* The callback is made once: the insurer cannot be reached or its UPDATE fails
\* (which is acknowledged all the same), or the CS is restarted.
OnPublishLost(p) ==
    /\ cs[p] = "out"
    /\ cs' = [cs EXCEPT ![p] = "lost"]
    /\ UNCHANGED <<catalogs, results, pub, wizard>>

\* The insurer's backend is restarted.
Restart ==
    /\ \E p \in Publication : pub[p].pc \in {"posting", "acked"}
    /\ pub' = [p \in Publication |->
           IF pub[p].pc \in {"posting", "acked"} THEN [pub[p] EXCEPT !.pc = "failed"]
                                                 ELSE pub[p]]
    /\ UNCHANGED <<catalogs, results, cs, wizard>>

--------------------------------------------------------------------------------
(* handlePublish of the frontend *)

\* The button is disabled while a publish is running; after an error it starts
\* again from the beginning.
WizardClick ==
    /\ wizard.pc \in {"edit", "error"}
    /\ wizard' = Page("saving")
    /\ UNCHANGED <<catalogs, results, pub, cs>>

\* Providers, resources and offers are saved.
WizardSaved ==
    /\ wizard.pc = "saving"
    /\ wizard' = [wizard EXCEPT !.pc = "creating"]
    /\ UNCHANGED <<catalogs, results, pub, cs>>

\* A new catalog row, also for a catalog saved by an earlier click.
WizardCreate ==
    /\ wizard.pc = "creating" /\ catalogs < MaxCatalogs
    /\ catalogs' = catalogs + 1
    /\ wizard' = [wizard EXCEPT !.pc = "created", !.catalog = catalogs']
    /\ UNCHANGED <<results, pub, cs>>

WizardPublish(p) ==
    /\ wizard.pc = "created"
    /\ Start(p, wizard.catalog)
    /\ wizard' = [wizard EXCEPT !.pc = "publishing", !.pub = p]
    /\ UNCHANGED <<catalogs, results, cs>>

\* Variant: the call to publish is not awaited.
WizardPublishedEarly ==
    /\ wizard.pc = "publishing"
    /\ LET made == wizard.made \cup {wizard.catalog} IN
       wizard' = [Page(IF Cardinality(made) = DraftSize THEN "success" ELSE "creating")
                     EXCEPT !.made = made]
    /\ UNCHANGED <<catalogs, results, pub, cs>>

WizardPublished ==
    /\ wizard.pc = "publishing" /\ pub[wizard.pub].pc = "sent"
    /\ LET made == wizard.made \cup {wizard.catalog} IN
       wizard' = [Page(IF Cardinality(made) = DraftSize THEN "success" ELSE "creating")
                     EXCEPT !.made = made]
    /\ UNCHANGED <<catalogs, results, pub, cs>>

WizardRefused ==
    /\ wizard.pc = "publishing" /\ pub[wizard.pub].pc \in {"rejected", "failed"}
    /\ wizard' = Page("error")
    /\ UNCHANGED <<catalogs, results, pub, cs>>

\* Another call fails, or the connection does; what was saved stays saved.
WizardFails ==
    /\ wizard.pc \in {"saving", "creating", "created", "publishing"}
    /\ wizard' = Page("error")
    /\ UNCHANGED <<catalogs, results, pub, cs>>

\* "Publish Another", or the page is loaded anew and forgets what it was doing.
WizardReset ==
    /\ wizard.pc # "edit"
    /\ wizard' = Page("edit")
    /\ UNCHANGED <<catalogs, results, pub, cs>>

--------------------------------------------------------------------------------

PublishStep(p) ==
    \/ \E c \in Catalog : ApiPublish(p, c)
    \/ PostFails(p)
    \/ PostAcked(p)
    \/ InsertPending(p)
    \/ InsertFails(p)

CsStep(p) ==
    \/ CsReceive(p)
    \/ OnPublish(p)
    \/ OnPublishLost(p)

WizardStep ==
    \/ WizardClick
    \/ WizardSaved
    \/ WizardCreate
    \/ \E p \in Publication : WizardPublish(p)
    \/ WizardPublished
    \/ WizardRefused
    \/ WizardFails
    \/ WizardReset

Next ==
    \/ \E p \in Publication : PublishStep(p) \/ CsStep(p)
    \/ WizardStep
    \/ Restart

\* The CS's goroutine ends.  The adapter answers or gives up and the statement
\* after it ends; the browser goes on with what it is told.
Fairness ==
    /\ \A p \in Publication :
           /\ WF_vars(OnPublish(p) \/ OnPublishLost(p))
           /\ WF_vars(PostAcked(p) \/ PostFails(p))
           /\ WF_vars(InsertPending(p) \/ InsertFails(p))
    /\ WF_vars(WizardPublished \/ WizardRefused)

SafeSpec == Init /\ [][Next]_vars
Spec == SafeSpec /\ Fairness

--------------------------------------------------------------------------------
(* Properties *)

\* A catalog is listed as published only when the CS acknowledged it: each row
\* was inserted for a publication that the CS has received and the API has
\* reported as sent.  A POST that failed leaves no row.
RowsAcknowledged ==
    \A i \in DOMAIN results :
        /\ pub[results[i].by] = [pc |-> "sent", catalog |-> results[i].catalog]
        /\ cs[results[i].by] # "none"

\* A row is ACCEPTED only when the CS has called back for its catalog: another
\* catalog's on_publish does not decide it.
AcceptedByCs ==
    \A i \in DOMAIN results : results[i].status = "ACCEPTED" =>
        \E p \in Publication : pub[p].catalog = results[i].catalog /\ cs[p] = "over"

\* The success page is honest: every catalog of the draft has reached the CS and
\* is listed, whatever failed in earlier attempts.
SuccessIsPublished ==
    wizard.pc = "success" =>
        \A c \in wizard.made : Received(c) /\ Listed(c) # "UNPUBLISHED"

\* Rows are only appended and a decided row stays decided; an ACCEPTED catalog
\* is listed as PENDING again only by a later publication of that catalog.
AcceptedStays ==
    [][/\ \A i \in DOMAIN results :
             /\ i \in DOMAIN results'
             /\ results[i].status = "ACCEPTED" => results'[i].status = "ACCEPTED"
       /\ \A c \in Catalog : Listed(c) = "ACCEPTED" /\ Listed(c)' # "ACCEPTED" =>
             \E p \in Publication : pub[p].catalog = c /\ pub[p].pc = "acked"]_vars

\* A PENDING row whose callback is still to come is decided, unless the callback
\* is lost: no step in between takes away what the callback needs.
PendingIsDecided ==
    \A p \in Publication :
        (cs[p] = "out" /\ \E i \in DOMAIN results : results[i].by = p) ~>
            (cs[p] = "lost" \/ \E i \in DOMAIN results :
                                  results[i].by = p /\ results[i].status = "ACCEPTED")

\* The page does not stay in "Publishing..." once it has called the API, whether
\* or not the CS ever gets the message.
PublishingEnds == wizard.pc = "publishing" ~> wizard.pc # "publishing"

--------------------------------------------------------------------------------
(* A statement of the repository that publishing does not keep *)

\* "Insert PENDING; on_publish callback from CS will update to
\* ACCEPTED/REJECTED" (catalog.go:444): as long as a row is PENDING the callback
\* for its publication is still to come, or was lost.
PendingIsAwaited ==
    \A i \in DOMAIN results : results[i].status = "PENDING" =>
        cs[results[i].by] \in {"out", "lost"}
=================================================================================
