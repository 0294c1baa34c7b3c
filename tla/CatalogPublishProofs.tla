-------------------------- MODULE CatalogPublishProofs --------------------------
(***************************************************************************)
(* Theorems about CatalogPublish for any number of catalogs and            *)
(* publications and drafts of any size.  They use no fairness.             *)
(***************************************************************************)
EXTENDS CatalogPublish, WellFoundedInduction, TLAPS

(***************************************************************************)
(* The strengthening.  A row vouches for its publication, and a            *)
(* publication reported as sent for its row; both were acknowledged by the *)
(* CS before.  The wizard counts a catalog as made only on such a report,  *)
(* and nobody takes a report or a row back.                                *)
(***************************************************************************)
Posted == {"posting", "acked", "sent", "failed"}

CallSound(p) ==
    /\ pub[p].pc \in Posted => pub[p].catalog \in Catalog
    /\ cs[p] # "none" => pub[p].pc \in Posted
    /\ pub[p].pc \in {"acked", "sent"} => cs[p] # "none"
    /\ pub[p].pc = "sent" => \E i \in DOMAIN results : results[i].by = p

MadeIsSent ==
    \A c \in wizard.made : \E p \in Publication : pub[p] = [pc |-> "sent", catalog |-> c]

WizardSound ==
    /\ wizard.pc \in {"created", "publishing"} => wizard.catalog \in Catalog
    /\ wizard.pc = "publishing" =>
           /\ wizard.pub \in Publication
           /\ pub[wizard.pub].pc = "rejected" \/
              (pub[wizard.pub].pc \in Posted /\ pub[wizard.pub].catalog = wizard.catalog)

IInv ==
    /\ TypeOK
    /\ RowsAcknowledged
    /\ AcceptedByCs
    /\ \A p \in Publication : CallSound(p)
    /\ MadeIsSent
    /\ WizardSound

\* How a call moves while the table and the CS do not.
Moves(u, v, s) ==
    \/ u.pc = "none" /\ (v.pc = "rejected" \/ (v.pc = "posting" /\ v.catalog \in Catalog))
    \/ /\ u.pc \in {"posting", "acked"} /\ v.catalog = u.catalog
       /\ v.pc = "failed" \/ (v.pc = "acked" /\ s # "none")

USE ConstantsAssumption DEF Catalog, Publication, None, Result, CdsStatus, Pub, CsState,
                            Wizard, Page, Posted

--------------------------------------------------------------------------------
(* Steps *)

LEMMA InitIInv == Init => IInv
BY DEF Init, IInv, TypeOK, RowsAcknowledged, AcceptedByCs, CallSound, MadeIsSent, WizardSound

\* What a row says.
LEMMA RowFacts ==
    ASSUME IInv
    PROVE  /\ DOMAIN results = 1..Len(results) /\ Len(results) \in Nat
           /\ \A i \in DOMAIN results :
                 /\ results[i] \in Result
                 /\ results[i].by \in Publication
                 /\ pub[results[i].by].pc = "sent"
                 /\ pub[results[i].by] = [pc |-> "sent", catalog |-> results[i].catalog]
                 /\ cs[results[i].by] # "none"
<1>1. results \in Seq(Result)
  BY DEF IInv, TypeOK
<1>2. DOMAIN results = 1..Len(results) /\ Len(results) \in Nat
  BY <1>1
<1>3. \A i \in DOMAIN results : results[i] \in Result
  <2> HIDE DEF Result
  <2> QED
    BY <1>1, <1>2
<1> QED
  BY <1>2, <1>3 DEF IInv, RowsAcknowledged

\* Calls move, the tables and the CS stay.
LEMMA CallsMove ==
    ASSUME IInv, UNCHANGED <<results, cs>>,
           pub' \in [Publication -> Pub],
           \A p \in Publication : pub'[p] = pub[p] \/ Moves(pub[p], pub'[p], cs[p])
    PROVE  /\ RowsAcknowledged'
           /\ AcceptedByCs'
           /\ \A p \in Publication : CallSound(p)'
           /\ \A p \in Publication :
                 /\ pub[p].pc \in Posted =>
                        pub'[p].pc \in Posted /\ pub'[p].catalog = pub[p].catalog
                 /\ pub[p].pc = "sent" => pub'[p] = pub[p]
                 /\ pub[p].pc = "rejected" => pub'[p].pc = "rejected"
<1>1. \A p \in Publication :
          /\ pub[p].pc \in Posted =>
                 pub'[p].pc \in Posted /\ pub'[p].catalog = pub[p].catalog
          /\ pub[p].pc = "sent" => pub'[p] = pub[p]
          /\ pub[p].pc = "rejected" => pub'[p].pc = "rejected"
  BY DEF IInv, TypeOK, Moves
<1>2. \A p \in Publication : CallSound(p)'
  BY SMTT(60) DEF IInv, TypeOK, Moves, CallSound
<1>3. RowsAcknowledged'
  <2> SUFFICES ASSUME NEW i \in DOMAIN results
               PROVE  /\ pub'[results[i].by] = [pc |-> "sent", catalog |-> results[i].catalog]
                      /\ cs[results[i].by] # "none"
    BY DEF RowsAcknowledged
  <2>1. /\ results[i].by \in Publication
        /\ pub[results[i].by] = [pc |-> "sent", catalog |-> results[i].catalog]
        /\ pub[results[i].by].pc = "sent"
        /\ cs[results[i].by] # "none"
    BY RowFacts
  <2> QED
    BY <2>1, <1>1
<1>4. AcceptedByCs'
  <2> SUFFICES ASSUME NEW i \in DOMAIN results, results[i].status = "ACCEPTED"
               PROVE  \E p \in Publication : pub'[p].catalog = results[i].catalog /\ cs[p] = "over"
    BY DEF AcceptedByCs
  <2>1. PICK p \in Publication : pub[p].catalog = results[i].catalog /\ cs[p] = "over"
    BY DEF IInv, AcceptedByCs
  <2>2. pub[p].pc \in Posted
    BY <2>1 DEF IInv, CallSound
  <2> QED
    BY <2>1, <2>2, <1>1
<1> QED
  BY <1>1, <1>2, <1>3, <1>4

\* ... and the wizard, too, stays.
LEMMA CallsMoveAlone ==
    ASSUME IInv, UNCHANGED <<catalogs, results, cs, wizard>>,
           pub' \in [Publication -> Pub],
           \A p \in Publication : pub'[p] = pub[p] \/ Moves(pub[p], pub'[p], cs[p])
    PROVE  IInv'
<1>1. TypeOK'
  BY DEF IInv, TypeOK
<1>2. MadeIsSent'
  BY CallsMove DEF IInv, MadeIsSent, TypeOK
<1>3. WizardSound'
  BY CallsMove DEF IInv, WizardSound
<1> QED
  BY CallsMove, <1>1, <1>2, <1>3 DEF IInv

\* What Start does to the calls.
LEMMA StartMoves ==
    ASSUME IInv, NEW p \in Publication, NEW c \in Catalog, Start(p, c)
    PROVE  /\ pub' \in [Publication -> Pub]
           /\ \A q \in Publication : pub'[q] = pub[q] \/ Moves(pub[q], pub'[q], cs[q])
           /\ pub'[p].pc = "rejected" \/ (pub'[p].pc \in Posted /\ pub'[p].catalog = c)
<1>1. /\ pub \in [Publication -> Pub]
      /\ pub[p].pc = "none"
  BY DEF IInv, TypeOK, Start
<1>2. CASE pub' = [pub EXCEPT ![p] = [pc |-> "posting", catalog |-> c]]
  <2>1. [pc |-> "posting", catalog |-> c] \in Pub
    OBVIOUS
  <2>2. /\ pub' \in [Publication -> Pub]
        /\ \A q \in Publication \ {p} : pub'[q] = pub[q]
        /\ pub'[p].pc = "posting" /\ pub'[p].catalog = c
    <3> HIDE DEF Pub
    <3> QED
      BY <1>1, <1>2, <2>1
  <2>3. Moves(pub[p], pub'[p], cs[p])
    BY <1>1, <2>2 DEF Moves
  <2> QED
    BY <2>2, <2>3
<1>3. CASE pub' = [pub EXCEPT ![p] = [pc |-> "rejected", catalog |-> None]]
  <2>1. [pc |-> "rejected", catalog |-> None] \in Pub
    OBVIOUS
  <2> QED
    BY <1>1, <1>3, <2>1 DEF Moves
<1> QED
  BY <1>2, <1>3 DEF Start

LEMMA PublishStepKeeps ==
    ASSUME IInv, NEW p \in Publication, PublishStep(p)
    PROVE  IInv'
<1>1. CASE \E c \in Catalog : ApiPublish(p, c)
  <2>1. PICK c \in Catalog : ApiPublish(p, c)
    BY <1>1
  <2>2. Start(p, c) /\ UNCHANGED <<catalogs, results, cs, wizard>>
    BY <2>1 DEF ApiPublish
  <2>3. /\ pub' \in [Publication -> Pub]
        /\ \A q \in Publication : pub'[q] = pub[q] \/ Moves(pub[q], pub'[q], cs[q])
    BY <2>2, StartMoves
  <2> QED
    BY <2>2, <2>3, CallsMoveAlone
<1>2. CASE PostFails(p) \/ PostAcked(p) \/ InsertFails(p)
  <2>1. /\ pub' \in [Publication -> Pub]
        /\ \A q \in Publication : pub'[q] = pub[q] \/ Moves(pub[q], pub'[q], cs[q])
    <3>1. pub \in [Publication -> Pub]
      BY DEF IInv, TypeOK
    <3>2. CASE pub[p].pc = "posting" /\ cs[p] # "none" /\ pub' = [pub EXCEPT ![p].pc = "acked"]
      BY <3>1, <3>2 DEF Moves
    <3>3. CASE pub[p].pc \in {"posting", "acked"} /\ pub' = [pub EXCEPT ![p].pc = "failed"]
      <4>1. /\ pub'[p] = [pub[p] EXCEPT !.pc = "failed"]
            /\ \A q \in Publication \ {p} : pub'[q] = pub[q]
        BY <3>1, <3>3
      <4>2. pub'[p] \in Pub /\ pub'[p].pc = "failed" /\ pub'[p].catalog = pub[p].catalog
        BY <3>1, <4>1
      <4>3. pub' \in [Publication -> Pub]
        BY <3>1, <3>3
      <4>4. Moves(pub[p], pub'[p], cs[p])
        BY <3>3, <4>2 DEF Moves
      <4> QED
        BY <4>1, <4>3, <4>4
    <3> QED
      BY <1>2, <3>2, <3>3 DEF PostFails, PostAcked, InsertFails
  <2>2. UNCHANGED <<catalogs, results, cs, wizard>>
    BY <1>2 DEF PostFails, PostAcked, InsertFails
  <2> QED
    BY <2>1, <2>2, CallsMoveAlone
<1>3. CASE InsertPending(p)
  <2> DEFINE row == [catalog |-> pub[p].catalog, status |-> "PENDING", by |-> p]
  <2>1. /\ pub[p].catalog \in Catalog /\ cs[p] # "none" /\ pub[p].pc = "acked"
        /\ results' = Append(results, row)
        /\ UNCHANGED <<catalogs, cs, wizard>>
    BY <1>3 DEF InsertPending, IInv, CallSound
  <2>2. pub' = [pub EXCEPT ![p].pc = "sent"]
    BY <1>3 DEF InsertPending
  <2>3. /\ pub'[p] = [pc |-> "sent", catalog |-> pub[p].catalog]
        /\ \A q \in Publication \ {p} : pub'[q] = pub[q]
        /\ pub' \in [Publication -> Pub]
    BY <2>2, <2>1 DEF IInv, TypeOK
  <2>4. row \in Result
    BY <2>1
  <2>5. /\ results' \in Seq(Result)
        /\ DOMAIN results' = DOMAIN results \cup {Len(results) + 1}
        /\ \A i \in DOMAIN results : results'[i] = results[i]
        /\ results'[Len(results) + 1] = row
    <3> HIDE DEF row
    <3> QED
      BY SMTT(60), <2>1, <2>4 DEF IInv, TypeOK
  <2>6. TypeOK'
    BY <2>1, <2>3, <2>5 DEF IInv, TypeOK
  <2>7. RowsAcknowledged'
    <3> SUFFICES ASSUME NEW i \in DOMAIN results'
                 PROVE  /\ pub'[results'[i].by] = [pc |-> "sent", catalog |-> results'[i].catalog]
                        /\ cs[results'[i].by] # "none"
      BY <2>1 DEF RowsAcknowledged
    <3>1. CASE i \in DOMAIN results
      <4>1. /\ results[i].by \in Publication \ {p}
            /\ pub[results[i].by] = [pc |-> "sent", catalog |-> results[i].catalog]
            /\ cs[results[i].by] # "none"
        BY <3>1, <2>1, RowFacts
      <4> QED
        BY <3>1, <4>1, <2>3, <2>5
    <3>2. CASE i = Len(results) + 1
      BY <3>2, <2>1, <2>3, <2>5
    <3> QED
      BY <3>1, <3>2, <2>5
  <2>8. AcceptedByCs'
    <3> SUFFICES ASSUME NEW i \in DOMAIN results', results'[i].status = "ACCEPTED"
                 PROVE  \E q \in Publication :
                            pub'[q].catalog = results'[i].catalog /\ cs[q] = "over"
      BY <2>1 DEF AcceptedByCs
    <3>1. i \in DOMAIN results /\ results'[i] = results[i]
      BY <2>5
    <3>2. PICK q \in Publication : pub[q].catalog = results[i].catalog /\ cs[q] = "over"
      BY <3>1 DEF IInv, AcceptedByCs
    <3>3. pub'[q].catalog = pub[q].catalog
      BY <2>3
    <3> QED
      BY <3>1, <3>2, <3>3
  <2>9. \A q \in Publication : CallSound(q)'
    <3> SUFFICES ASSUME NEW q \in Publication PROVE CallSound(q)'
      OBVIOUS
    <3>1. CASE q = p
      <4>1. Len(results) + 1 \in DOMAIN results' /\ results'[Len(results) + 1].by = p
        BY <2>5
      <4> QED
        BY <3>1, <4>1, <2>1, <2>3 DEF CallSound
    <3>2. CASE q # p
      <4>1. pub'[q] = pub[q] /\ CallSound(q)
        BY <3>2, <2>3 DEF IInv
      <4>2. \A i \in DOMAIN results : i \in DOMAIN results' /\ results'[i] = results[i]
        BY <2>5
      <4> QED
        BY <4>1, <4>2, <2>1 DEF CallSound
    <3> QED
      BY <3>1, <3>2
  <2>10. MadeIsSent'
    BY <2>1, <2>3 DEF IInv, MadeIsSent
  <2>11. WizardSound'
    <3>1. \A q \in Publication : pub'[q].catalog = pub[q].catalog
              /\ (pub[q].pc = "rejected" => pub'[q].pc = "rejected")
              /\ (pub[q].pc \in Posted => pub'[q].pc \in Posted)
      BY <2>1, <2>3
    <3> QED
      BY <3>1, <2>1 DEF IInv, WizardSound
  <2> QED
    BY <2>6, <2>7, <2>8, <2>9, <2>10, <2>11 DEF IInv
<1> QED
  BY <1>1, <1>2, <1>3 DEF PublishStep

\* A step of the CS that leaves the table alone.
LEMMA CsMoves ==
    ASSUME IInv, NEW p \in Publication, NEW s \in CsState,
           UNCHANGED <<catalogs, results, pub, wizard>>,
           cs' = [cs EXCEPT ![p] = s], s # "none", cs[p] # "over",
           pub[p].pc \in Posted
    PROVE  IInv'
<1>1. /\ cs' \in [Publication -> CsState]
      /\ cs'[p] = s
      /\ \A q \in Publication \ {p} : cs'[q] = cs[q]
  BY DEF IInv, TypeOK
<1>2. TypeOK'
  BY <1>1 DEF IInv, TypeOK
<1>3. \A q \in Publication : (cs[q] # "none" => cs'[q] # "none") /\ (cs[q] = "over" => cs'[q] = "over")
  BY <1>1
<1>4. RowsAcknowledged'
  BY <1>3, RowFacts DEF RowsAcknowledged
<1>5. AcceptedByCs'
  BY <1>3 DEF IInv, AcceptedByCs
<1>6. \A q \in Publication : CallSound(q)'
  BY <1>1, <1>3 DEF IInv, CallSound
<1>7. MadeIsSent' /\ WizardSound'
  BY DEF IInv, MadeIsSent, WizardSound
<1> QED
  BY <1>2, <1>4, <1>5, <1>6, <1>7 DEF IInv

\* What the UPDATE of HandleOnPublish does to the table.
LEMMA AcceptFacts ==
    ASSUME IInv, NEW c, results' = Accept(c)
    PROVE  /\ results' \in Seq(Result)
           /\ DOMAIN results' = DOMAIN results
           /\ \A i \in DOMAIN results :
                 /\ results'[i].by = results[i].by
                 /\ results'[i].catalog = results[i].catalog
                 /\ results[i].catalog = c => results'[i].status = "ACCEPTED"
                 /\ results[i].catalog # c => results'[i] = results[i]
<1>1. DOMAIN results' = 1..Len(results) /\ Len(results) \in Nat
  BY RowFacts DEF Accept
<1>2. \A i \in DOMAIN results :
          results'[i] = IF results[i].catalog = c
                        THEN [results[i] EXCEPT !.status = "ACCEPTED"] ELSE results[i]
  BY DEF Accept
<1>3. \A i \in DOMAIN results : results'[i] \in Result
  <2> SUFFICES ASSUME NEW i \in DOMAIN results
               PROVE  results'[i] \in Result
    OBVIOUS
  <2>1. results[i] \in Result
    BY RowFacts
  <2>2. "ACCEPTED" \in CdsStatus
    BY DEF CdsStatus
  <2>3. [results[i] EXCEPT !.status = "ACCEPTED"] \in Result
    BY <2>1, <2>2
  <2> HIDE DEF Result
  <2> QED
    BY <1>2, <2>1, <2>3
<1>4. \A i \in DOMAIN results :
          /\ results'[i].by = results[i].by
          /\ results'[i].catalog = results[i].catalog
          /\ results[i].catalog = c => results'[i].status = "ACCEPTED"
          /\ results[i].catalog # c => results'[i] = results[i]
  BY <1>2, RowFacts
<1>5. results' \in Seq(Result)
  <2>1. results' = [i \in 1..Len(results) |-> results'[i]]
    BY <1>1, RowFacts DEF Accept
  <2> HIDE DEF Result
  <2> QED
    BY <2>1, <1>1, <1>3, RowFacts
<1> QED
  BY <1>1, <1>4, <1>5, RowFacts

LEMMA OnPublishKeeps ==
    ASSUME IInv, NEW p \in Publication, OnPublish(p)
    PROVE  IInv'
<1>1. /\ cs[p] = "out" /\ results' = Accept(pub[p].catalog)
      /\ UNCHANGED <<catalogs, pub, wizard>>
  BY DEF OnPublish
<1>2. /\ cs' \in [Publication -> CsState]
      /\ cs'[p] = "over"
      /\ \A q \in Publication \ {p} : cs'[q] = cs[q]
  BY DEF OnPublish, IInv, TypeOK
<1>3. \A q \in Publication : (cs[q] # "none" => cs'[q] # "none") /\ (cs[q] = "over" => cs'[q] = "over")
  BY <1>1, <1>2
<1>4. /\ results' \in Seq(Result)
      /\ DOMAIN results' = DOMAIN results
      /\ \A i \in DOMAIN results :
            /\ results'[i].by = results[i].by
            /\ results'[i].catalog = results[i].catalog
            /\ results[i].catalog # pub[p].catalog => results'[i] = results[i]
  BY <1>1, AcceptFacts
<1>5. TypeOK'
  <2> HIDE DEF Result
  <2> QED
    BY <1>1, <1>2, <1>4 DEF IInv, TypeOK
<1>6. RowsAcknowledged'
  <2> SUFFICES ASSUME NEW i \in DOMAIN results'
               PROVE  /\ pub'[results'[i].by] = [pc |-> "sent", catalog |-> results'[i].catalog]
                      /\ cs'[results'[i].by] # "none"
    BY DEF RowsAcknowledged
  <2>1. i \in DOMAIN results
    BY <1>4
  <2>2. results'[i].by = results[i].by /\ results'[i].catalog = results[i].catalog
    BY <2>1, <1>4
  <2>3. /\ results[i].by \in Publication /\ cs[results[i].by] # "none"
        /\ pub[results[i].by] = [pc |-> "sent", catalog |-> results[i].catalog]
    BY <2>1, RowFacts
  <2> QED
    BY <2>2, <2>3, <1>1, <1>3
<1>7. AcceptedByCs'
  <2> SUFFICES ASSUME NEW i \in DOMAIN results', results'[i].status = "ACCEPTED"
               PROVE  \E q \in Publication :
                          pub'[q].catalog = results'[i].catalog /\ cs'[q] = "over"
    BY DEF AcceptedByCs
  <2> SUFFICES \E q \in Publication : pub[q].catalog = results[i].catalog /\ cs'[q] = "over"
    BY <1>1, <1>4
  <2> i \in DOMAIN results
    BY <1>4
  <2>1. CASE results[i].catalog = pub[p].catalog
    BY <2>1, <1>2
  <2>2. CASE results[i].catalog # pub[p].catalog
    <3>1. results[i].status = "ACCEPTED"
      BY <2>2, <1>4
    <3>2. PICK q \in Publication : pub[q].catalog = results[i].catalog /\ cs[q] = "over"
      BY <3>1 DEF IInv, AcceptedByCs
    <3> QED
      BY <3>2, <1>3
  <2> QED
    BY <2>1, <2>2
<1>8. \A q \in Publication : CallSound(q)'
  <2>1. cs[p] # "none"
    BY <1>1
  <2>2. \A q \in Publication : cs'[q] # "none" <=> cs[q] # "none"
    BY <1>2, <2>1
  <2>3. \A q \in Publication :
            (\E i \in DOMAIN results : results[i].by = q)
                => (\E i \in DOMAIN results' : results'[i].by = q)
    BY <1>4
  <2> QED
    BY <1>1, <2>2, <2>3 DEF IInv, CallSound
<1>9. MadeIsSent' /\ WizardSound'
  BY <1>1 DEF IInv, MadeIsSent, WizardSound
<1> QED
  BY <1>5, <1>6, <1>7, <1>8, <1>9 DEF IInv

LEMMA CsStepKeeps ==
    ASSUME IInv, NEW p \in Publication, CsStep(p)
    PROVE  IInv'
<1>1. CASE CsReceive(p)
  <2>1. pub[p].pc \in Posted /\ cs[p] # "over"
    BY <1>1 DEF CsReceive
  <2> QED
    BY <1>1, <2>1, CsMoves DEF CsReceive
<1>2. CASE OnPublishLost(p)
  <2>1. pub[p].pc \in Posted /\ cs[p] # "over"
    BY <1>2 DEF OnPublishLost, IInv, CallSound
  <2> QED
    BY <1>2, <2>1, CsMoves DEF OnPublishLost
<1> QED
  BY <1>1, <1>2, OnPublishKeeps DEF CsStep

\* The wizard moves, the calls, the table and the CS stay.
LEMMA WizardMoves ==
    ASSUME IInv, UNCHANGED <<results, pub, cs>>,
           catalogs' \in 0..MaxCatalogs, wizard' \in Wizard, MadeIsSent', WizardSound'
    PROVE  IInv'
<1>1. TypeOK'
  BY DEF IInv, TypeOK
<1>2. RowsAcknowledged' /\ AcceptedByCs' /\ \A p \in Publication : CallSound(p)'
  BY DEF IInv, RowsAcknowledged, AcceptedByCs, CallSound
<1> QED
  BY <1>1, <1>2 DEF IInv

LEMMA WizardStepKeeps ==
    ASSUME IInv, WizardStep
    PROVE  IInv'
<1> USE DEF IInv, TypeOK, MadeIsSent, WizardSound
<1>1. CASE WizardClick \/ WizardRefused \/ WizardFails \/ WizardReset
  <2>1. PICK pc \in {"saving", "error", "edit"} :
            wizard' = [pc |-> pc, made |-> {}, catalog |-> None, pub |-> None]
    BY <1>1 DEF WizardClick, WizardRefused, WizardFails, WizardReset
  <2>2. UNCHANGED <<catalogs, results, pub, cs>>
    BY <1>1 DEF WizardClick, WizardRefused, WizardFails, WizardReset
  <2>3. wizard' \in Wizard /\ wizard'.pc = pc /\ wizard'.made = {}
    BY <2>1
  <2> QED
    BY <2>2, <2>3, WizardMoves
<1>2. CASE WizardSaved
  BY <1>2, WizardMoves DEF WizardSaved
<1>3. CASE WizardCreate
  <2>1. /\ catalogs' = catalogs + 1 /\ catalogs' \in Catalog
        /\ wizard' = [wizard EXCEPT !.pc = "created", !.catalog = catalogs']
        /\ UNCHANGED <<results, pub, cs>>
    BY <1>3 DEF WizardCreate
  <2>2. /\ wizard' \in Wizard /\ wizard'.pc = "created" /\ wizard'.made = wizard.made
        /\ wizard'.catalog \in Catalog
    BY <2>1
  <2> QED
    BY SMTT(60), <2>1, <2>2, WizardMoves
<1>4. CASE \E p \in Publication : WizardPublish(p)
  <2>1. PICK p \in Publication : WizardPublish(p)
    BY <1>4
  <2>2. /\ wizard.pc = "created" /\ Start(p, wizard.catalog) /\ wizard.catalog \in Catalog
        /\ wizard' = [wizard EXCEPT !.pc = "publishing", !.pub = p]
        /\ UNCHANGED <<catalogs, results, cs>>
    BY <2>1 DEF WizardPublish
  <2>3. PICK c \in Catalog : c = wizard.catalog
    BY <2>2
  <2>4. /\ pub' \in [Publication -> Pub]
        /\ \A q \in Publication : pub'[q] = pub[q] \/ Moves(pub[q], pub'[q], cs[q])
        /\ pub'[p].pc = "rejected" \/ (pub'[p].pc \in Posted /\ pub'[p].catalog = c)
    BY <2>2, <2>3, StartMoves
  <2>5. /\ wizard' \in Wizard /\ wizard'.pc = "publishing" /\ wizard'.pub = p
        /\ wizard'.catalog = c /\ wizard'.made = wizard.made
    BY <2>2, <2>3
  <2>6. TypeOK'
    BY <2>2, <2>4, <2>5
  <2>7. /\ RowsAcknowledged' /\ AcceptedByCs'
        /\ \A q \in Publication : CallSound(q)'
        /\ \A q \in Publication : pub[q].pc = "sent" => pub'[q] = pub[q]
    BY <2>2, <2>4, CallsMove
  <2>8. MadeIsSent' /\ WizardSound'
    BY <2>4, <2>5, <2>7
  <2> QED
    BY <2>6, <2>7, <2>8
<1>5. CASE WizardPublished
  <2> DEFINE made == wizard.made \cup {wizard.catalog}
             pc == IF Cardinality(made) = DraftSize THEN "success" ELSE "creating"
  <2>1. /\ wizard.pc = "publishing" /\ pub[wizard.pub].pc = "sent"
        /\ wizard' = [pc |-> pc, made |-> made, catalog |-> None, pub |-> None]
        /\ UNCHANGED <<catalogs, results, pub, cs>>
    BY <1>5 DEF WizardPublished
  <2>2. /\ wizard.catalog \in Catalog /\ wizard.pub \in Publication
        /\ pub[wizard.pub] = [pc |-> "sent", catalog |-> wizard.catalog]
    BY <2>1
  <2>3. wizard' \in Wizard /\ wizard'.made = made /\ wizard'.pc \notin {"created", "publishing"}
    BY <2>1, <2>2
  <2>4. MadeIsSent' /\ WizardSound'
    BY <2>1, <2>2, <2>3
  <2> QED
    BY <2>1, <2>3, <2>4, WizardMoves
<1> QED
  BY <1>1, <1>2, <1>3, <1>4, <1>5 DEF WizardStep

LEMMA RestartKeeps ==
    ASSUME IInv, Restart
    PROVE  IInv'
<1>1. pub \in [Publication -> Pub] /\ UNCHANGED <<catalogs, results, cs, wizard>>
  BY DEF Restart, IInv, TypeOK
<1>2. \A p \in Publication :
          pub'[p] = IF pub[p].pc \in {"posting", "acked"}
                    THEN [pub[p] EXCEPT !.pc = "failed"] ELSE pub[p]
  BY DEF Restart
<1>3. \A p \in Publication :
          pub'[p] \in Pub /\ (pub'[p] = pub[p] \/ Moves(pub[p], pub'[p], cs[p]))
  BY <1>1, <1>2 DEF Moves
<1>4. pub' \in [Publication -> Pub]
  <2>1. pub' = [p \in Publication |-> pub'[p]]
    BY DEF Restart
  <2> QED
    BY <2>1, <1>3
<1> QED
  BY <1>1, <1>3, <1>4, CallsMoveAlone

LEMMA NextIInv == IInv /\ [Next]_vars => IInv'
<1> SUFFICES ASSUME IInv, [Next]_vars PROVE IInv'
  OBVIOUS
<1>1. CASE UNCHANGED vars
  BY <1>1 DEF vars, IInv, TypeOK, RowsAcknowledged, AcceptedByCs, CallSound, MadeIsSent,
              WizardSound
<1> QED
  BY <1>1, PublishStepKeeps, CsStepKeeps, WizardStepKeeps, RestartKeeps DEF Next
LEMMA Invariance == Spec => []IInv
BY InitIInv, NextIInv, PTL DEF Spec, SafeSpec

--------------------------------------------------------------------------------
(* Theorems *)

\* Tables, calls, CS and wizard keep their types.
THEOREM TypeCorrect == Spec => []TypeOK
<1>1. IInv => TypeOK
  BY DEF IInv
<1> QED
  BY <1>1, Invariance, PTL

\* No row without a publication that the CS acknowledged and the API reported.
THEOREM RowsAreAcknowledged == Spec => []RowsAcknowledged
<1>1. IInv => RowsAcknowledged
  BY DEF IInv
<1> QED
  BY <1>1, Invariance, PTL

\* No row is ACCEPTED without an on_publish for its catalog.
THEOREM AcceptedIsBacked == Spec => []AcceptedByCs
<1>1. IInv => AcceptedByCs
  BY DEF IInv
<1> QED
  BY <1>1, Invariance, PTL

--------------------------------------------------------------------------------
(* The row ListCatalogs shows *)

LEMMA LessThanWellFounded == IsWellFoundedOn({ss \in Nat \X Nat : ss[1] < ss[2]}, Nat)
BY NatLessThanWellFounded DEF OpToRel

\* A nonempty set of numbers up to n has a greatest one: its distance to n is
\* least.
LEMMA HasGreatest ==
    ASSUME NEW n \in Nat, NEW T, T \subseteq 1..n, T # {}
    PROVE  \E x \in T : \A y \in T : y <= x
<1> DEFINE R == {ss \in Nat \X Nat : ss[1] < ss[2]}
           D == {m \in Nat : \E x \in T : m = n - x}
<1>1. D # {} /\ D \subseteq Nat
  <2>1. PICK x \in T : TRUE
    OBVIOUS
  <2>2. n - x \in D
    BY <2>1
  <2> QED
    BY <2>2
<1>2. \E d \in D : \A e \in D : <<e, d>> \notin R
  <2>1. IsWellFoundedOn(R, Nat)
    BY LessThanWellFounded
  <2> HIDE DEF D, R
  <2> QED
    BY <1>1, <2>1, WFMin
<1>3. PICK d \in D : \A e \in D : <<e, d>> \notin R
  BY <1>2
<1>4. PICK x \in T : d = n - x
  BY <1>3
<1>5. ASSUME NEW y \in T PROVE y <= x
  <2>1. n - y \in D
    OBVIOUS
  <2>2. <<n - y, d>> \notin R
    BY <1>3, <2>1
  <2> QED
    BY <2>1, <2>2, <1>4
<1> QED
  BY <1>5

\* A catalog with rows has a latest one.
LEMMA LatestRowIsRow ==
    ASSUME IInv, NEW c, RowsOf(c) # {}
    PROVE  LatestRow(c) \in RowsOf(c)
<1>1. RowsOf(c) \subseteq 1..Len(results) /\ Len(results) \in Nat
  BY RowFacts DEF RowsOf
<1>2. \E i \in RowsOf(c) : \A j \in RowsOf(c) : j <= i
  <2> HIDE DEF RowsOf
  <2> QED
    BY <1>1, HasGreatest
<1> QED
  BY <1>2 DEF LatestRow

\* The success page is honest, whatever failed before.
THEOREM SuccessIsHonest == Spec => []SuccessIsPublished
<1>1. IInv => SuccessIsPublished
  <2> SUFFICES ASSUME IInv, NEW c \in wizard.made
               PROVE  Received(c) /\ Listed(c) # "UNPUBLISHED"
    BY DEF SuccessIsPublished
  <2>1. PICK p \in Publication : pub[p] = [pc |-> "sent", catalog |-> c]
    BY DEF IInv, MadeIsSent
  <2>2. Received(c)
    BY <2>1 DEF Received, IInv, CallSound
  <2>3. PICK i \in DOMAIN results : results[i].by = p
    BY <2>1 DEF IInv, CallSound
  <2>4. results[i].catalog = c
    <3>1. pub[p] = [pc |-> "sent", catalog |-> results[i].catalog]
      BY <2>3, RowFacts
    <3> QED
      BY <3>1, <2>1
  <2>5. RowsOf(c) # {}
    BY <2>3, <2>4 DEF RowsOf
  <2>6. LatestRow(c) \in DOMAIN results
    BY <2>5, LatestRowIsRow DEF RowsOf
  <2>7. results[LatestRow(c)].status \in CdsStatus
    BY <2>6, RowFacts
  <2> QED
    BY <2>2, <2>5, <2>7 DEF Listed
<1> QED
  BY <1>1, Invariance, PTL

\* What a step does to the table.
LEMMA TableSteps ==
    ASSUME IInv, [Next]_vars
    PROVE  \/ results' = results
           \/ \E p \in Publication :
                 /\ pub[p].pc = "acked"
                 /\ results' = Append(results, [catalog |-> pub[p].catalog,
                                                status |-> "PENDING", by |-> p])
           \/ \E p \in Publication : results' = Accept(pub[p].catalog)
<1>1. CASE UNCHANGED vars \/ WizardStep \/ Restart
  BY <1>1 DEF vars, WizardStep, WizardClick, WizardSaved, WizardCreate, WizardPublish,
              WizardPublished, WizardRefused, WizardFails, WizardReset, Restart
<1>2. ASSUME NEW p \in Publication, PublishStep(p)
      PROVE  results' = results \/ /\ pub[p].pc = "acked"
                                   /\ results' = Append(results, [catalog |-> pub[p].catalog,
                                                         status |-> "PENDING", by |-> p])
  BY <1>2 DEF PublishStep, ApiPublish, PostFails, PostAcked, InsertFails, InsertPending
<1>3. ASSUME NEW p \in Publication, CsStep(p)
      PROVE  results' = results \/ results' = Accept(pub[p].catalog)
  BY <1>3 DEF CsStep, CsReceive, OnPublish, OnPublishLost
<1> QED
  BY <1>1, <1>2, <1>3 DEF Next

\* The rows of c, and the latest of them, when none is added to them.
LEMMA LatestRowKept ==
    ASSUME IInv, NEW c, RowsOf(c)' = RowsOf(c), Listed(c) = "ACCEPTED",
           \A i \in RowsOf(c) : results[i].status = "ACCEPTED" => results'[i].status = "ACCEPTED"
    PROVE  Listed(c)' = "ACCEPTED"
<1>1. RowsOf(c) # {} /\ results[LatestRow(c)].status = "ACCEPTED"
  BY DEF Listed
<1>2. LatestRow(c)' = LatestRow(c) /\ LatestRow(c) \in RowsOf(c)
  BY <1>1, LatestRowIsRow DEF LatestRow
<1>3. results'[LatestRow(c)'].status = "ACCEPTED"
  BY <1>1, <1>2
<1> QED
  BY <1>1, <1>3 DEF Listed

\* Rows stay, decided rows stay decided, and only a later publication of a
\* catalog makes it PENDING again in the list.
THEOREM AcceptedIsKept == Spec => AcceptedStays
<1> DEFINE Kept ==
        /\ \A i \in DOMAIN results :
              /\ i \in DOMAIN results'
              /\ results[i].status = "ACCEPTED" => results'[i].status = "ACCEPTED"
        /\ \A c \in Catalog : Listed(c) = "ACCEPTED" /\ Listed(c)' # "ACCEPTED" =>
              \E p \in Publication : pub[p].catalog = c /\ pub[p].pc = "acked"
<1>1. IInv /\ [Next]_vars => Kept
  <2> SUFFICES ASSUME IInv, [Next]_vars PROVE Kept
    OBVIOUS
  <2>1. CASE results' = results
    BY <2>1 DEF Listed, LatestRow, RowsOf
  <2>2. ASSUME NEW p \in Publication, pub[p].pc = "acked",
               results' = Append(results, [catalog |-> pub[p].catalog,
                                           status |-> "PENDING", by |-> p])
        PROVE  Kept
    <3> DEFINE row == [catalog |-> pub[p].catalog, status |-> "PENDING", by |-> p]
    <3>1. row.catalog = pub[p].catalog /\ row \in Result
      BY <2>2 DEF IInv, CallSound
    <3>2. /\ DOMAIN results' = DOMAIN results \cup {Len(results) + 1}
          /\ \A i \in DOMAIN results : results'[i] = results[i]
          /\ results'[Len(results) + 1] = row
      <4>1. results \in Seq(Result) /\ results' = Append(results, row)
        BY <2>2 DEF IInv, TypeOK
      <4> HIDE DEF row, Result
      <4> QED
        BY <4>1, <3>1
    <3>3. ASSUME NEW c \in Catalog, Listed(c) = "ACCEPTED", c # pub[p].catalog
          PROVE  Listed(c)' = "ACCEPTED"
      <4>1. RowsOf(c)' = RowsOf(c)
        BY <3>1, <3>2, <3>3 DEF RowsOf
      <4>2. \A i \in RowsOf(c) :
                results[i].status = "ACCEPTED" => results'[i].status = "ACCEPTED"
        BY <3>2 DEF RowsOf
      <4> QED
        BY <4>1, <4>2, <3>3, LatestRowKept
    <3> QED
      BY <2>2, <3>2, <3>3
  <2>3. ASSUME NEW p \in Publication, results' = Accept(pub[p].catalog)
        PROVE  Kept
    <3>1. PICK d : d = pub[p].catalog
      OBVIOUS
    <3>2. /\ DOMAIN results' = DOMAIN results
          /\ \A i \in DOMAIN results :
                /\ results'[i].catalog = results[i].catalog
                /\ results[i].catalog = d => results'[i].status = "ACCEPTED"
                /\ results[i].catalog # d => results'[i] = results[i]
      BY <2>3, <3>1, AcceptFacts
    <3>3. \A i \in DOMAIN results :
              results[i].status = "ACCEPTED" => results'[i].status = "ACCEPTED"
      BY <3>2
    <3>4. ASSUME NEW c \in Catalog, Listed(c) = "ACCEPTED"
          PROVE  Listed(c)' = "ACCEPTED"
      <4>1. RowsOf(c)' = RowsOf(c)
        BY <3>2 DEF RowsOf
      <4>2. \A i \in RowsOf(c) :
                results[i].status = "ACCEPTED" => results'[i].status = "ACCEPTED"
        BY <3>3 DEF RowsOf
      <4> QED
        BY <4>1, <4>2, <3>4, LatestRowKept
    <3> QED
      BY <3>2, <3>3, <3>4
  <2> QED
    BY <2>1, <2>2, <2>3, TableSteps
<1> QED
  BY <1>1, Invariance, PTL DEF AcceptedStays, Spec, SafeSpec

--------------------------------------------------------------------------------
(* The safety core of PendingIsDecided and PublishingEnds *)

\* HandleOnPublish: while the callback for a row is to come the row stays where the
\* callback will look for it, until the callback has decided it or was lost.
CallbackKept ==
    [][\A p \in Publication : \A i \in DOMAIN results :
          cs[p] = "out" /\ results[i].by = p =>
              /\ i \in DOMAIN results' /\ results'[i].by = p
              /\ cs'[p] \in {"out", "lost"} \/ results'[i].status = "ACCEPTED"]_vars

\* Statements of PublishCatalog before its answer.
Due(pc) == CASE pc = "none" -> 3 [] pc = "posting" -> 2 [] pc = "acked" -> 1 [] OTHER -> 0

\* handlePublish: the page that says "Publishing..." waits for a call that was made.
PublishingAwaits == wizard.pc = "publishing" => Due(pub[wizard.pub].pc) < 3

\* PublishCatalog: the page goes on, or waits for the same call, which never has
\* more before it than it had.
PublishingRunsOut ==
    [][wizard.pc = "publishing" =>
          \/ wizard'.pc # "publishing"
          \/ /\ wizard'.pub = wizard.pub
             /\ Due(pub'[wizard.pub].pc) <= Due(pub[wizard.pub].pc)]_vars

\* A row goes on, as it was, or decided.
LEMMA RowsGoOn ==
    ASSUME IInv, [Next]_vars, NEW i \in DOMAIN results
    PROVE  i \in DOMAIN results' /\ results'[i].by = results[i].by
<1>1. CASE results' = results
  BY <1>1
<1>2. ASSUME NEW p \in Publication, pub[p].pc = "acked",
             results' = Append(results, [catalog |-> pub[p].catalog,
                                         status |-> "PENDING", by |-> p])
      PROVE  i \in DOMAIN results' /\ results'[i].by = results[i].by
  <2> DEFINE row == [catalog |-> pub[p].catalog, status |-> "PENDING", by |-> p]
  <2>1. row \in Result
    BY <1>2 DEF IInv, CallSound
  <2>2. results \in Seq(Result) /\ results' = Append(results, row)
    BY <1>2 DEF IInv, TypeOK
  <2> HIDE DEF row, Result
  <2> QED
    BY <2>1, <2>2
<1>3. ASSUME NEW p \in Publication, results' = Accept(pub[p].catalog)
      PROVE  i \in DOMAIN results' /\ results'[i].by = results[i].by
  <2>1. PICK d : d = pub[p].catalog
    OBVIOUS
  <2> QED
    BY <1>3, <2>1, AcceptFacts
<1> QED
  BY <1>1, <1>2, <1>3, TableSteps

\* The callback of a publication ends by being made or lost.
LEMMA CallbackComes ==
    ASSUME IInv, [Next]_vars, NEW p \in Publication, cs[p] = "out"
    PROVE  cs'[p] \in {"out", "lost"} \/ OnPublish(p)
<1>1. cs \in [Publication -> CsState]
  BY DEF IInv, TypeOK
<1>2. CASE UNCHANGED cs
  BY <1>2
<1>3. ASSUME NEW q \in Publication, CsReceive(q)
      PROVE  cs'[p] = "out"
  BY <1>1, <1>3 DEF CsReceive
<1>4. ASSUME NEW q \in Publication, OnPublishLost(q)
      PROVE  cs'[p] \in {"out", "lost"}
  BY <1>1, <1>4 DEF OnPublishLost
<1>5. ASSUME NEW q \in Publication, OnPublish(q), q # p
      PROVE  cs'[p] = "out"
  BY <1>1, <1>5 DEF OnPublish
<1> QED
  BY <1>2, <1>3, <1>4, <1>5
     DEF Next, vars, PublishStep, CsStep, ApiPublish, PostFails, PostAcked, InsertPending,
         InsertFails, WizardStep, WizardClick, WizardSaved, WizardCreate, WizardPublish,
         WizardPublished, WizardRefused, WizardFails, WizardReset, Restart

\* The callback finds the row it is for, wherever the table has gone since: the
\* row says the catalog of its publication.
THEOREM CallbackFindsRow == Spec => CallbackKept
<1>1. ASSUME IInv, [Next]_vars, NEW p \in Publication, NEW i \in DOMAIN results,
             cs[p] = "out", results[i].by = p
      PROVE  /\ i \in DOMAIN results' /\ results'[i].by = p
             /\ cs'[p] \in {"out", "lost"} \/ results'[i].status = "ACCEPTED"
  <2>1. CASE OnPublish(p)
    <3>1. pub[p] = [pc |-> "sent", catalog |-> results[i].catalog]
      BY <1>1, RowFacts
    <3>2. PICK d : d = pub[p].catalog
      OBVIOUS
    <3>3. results[i].catalog = d
      BY <3>1, <3>2
    <3>4. results'[i].status = "ACCEPTED"
      BY <1>1, <2>1, <3>2, <3>3, AcceptFacts DEF OnPublish
    <3> QED
      BY <1>1, <3>4, RowsGoOn
  <2> QED
    BY <1>1, <2>1, RowsGoOn, CallbackComes
<1>2. IInv /\ [Next]_vars =>
          \A p \in Publication : \A i \in DOMAIN results :
              cs[p] = "out" /\ results[i].by = p =>
                  /\ i \in DOMAIN results' /\ results'[i].by = p
                  /\ cs'[p] \in {"out", "lost"} \/ results'[i].status = "ACCEPTED"
  BY <1>1
<1> QED
  BY <1>2, Invariance, PTL DEF Spec, SafeSpec, CallbackKept

\* The page never waits for a call that was not made.
THEOREM PublishingIsOfACall == Spec => []PublishingAwaits
<1>1. IInv => PublishingAwaits
  BY DEF IInv, WizardSound, PublishingAwaits, Due
<1> QED
  BY <1>1, Invariance, PTL

\* No call goes back.
LEMMA CallsGoOn ==
    ASSUME IInv, [Next]_vars, NEW p \in Publication
    PROVE  Due(pub'[p].pc) <= Due(pub[p].pc)
<1>1. pub \in [Publication -> Pub] /\ pub[p] \in Pub
  BY DEF IInv, TypeOK
<1>2. CASE pub' = pub
  BY <1>1, <1>2 DEF Due
<1>3. ASSUME NEW q \in Publication, NEW c \in Catalog, Start(q, c)
      PROVE  Due(pub'[p].pc) <= Due(pub[p].pc)
  <2>1. pub'[p] = pub[p] \/ (pub[p].pc = "none" /\ pub'[p].pc \in {"posting", "rejected"})
    BY <1>1, <1>3 DEF Start
  <2> QED
    BY <1>1, <2>1 DEF Due
<1>4. ASSUME NEW q \in Publication,
             PostFails(q) \/ PostAcked(q) \/ InsertPending(q) \/ InsertFails(q)
      PROVE  Due(pub'[p].pc) <= Due(pub[p].pc)
  <2>1. \/ pub'[p].pc = pub[p].pc
        \/ pub[p].pc \in {"posting", "acked"} /\ pub'[p].pc = "failed"
        \/ pub[p].pc = "posting" /\ pub'[p].pc = "acked"
        \/ pub[p].pc = "acked" /\ pub'[p].pc = "sent"
    BY <1>1, <1>4 DEF PostFails, PostAcked, InsertPending, InsertFails
  <2> QED
    BY <1>1, <2>1 DEF Due
<1>5. CASE Restart
  <2>1. \/ pub'[p].pc = pub[p].pc
        \/ pub[p].pc \in {"posting", "acked"} /\ pub'[p].pc = "failed"
    BY <1>1, <1>5 DEF Restart
  <2> QED
    BY <1>1, <2>1 DEF Due
<1>6. ASSUME NEW q \in Publication, WizardPublish(q), wizard.catalog \in Catalog
      PROVE  Due(pub'[p].pc) <= Due(pub[p].pc)
  BY <1>3, <1>6 DEF WizardPublish
<1>7. wizard.pc = "created" => wizard.catalog \in Catalog
  BY DEF IInv, WizardSound
<1> QED
  BY <1>2, <1>3, <1>4, <1>5, <1>6, <1>7
     DEF Next, vars, PublishStep, CsStep, ApiPublish, CsReceive, OnPublish, OnPublishLost,
         WizardStep, WizardClick, WizardSaved, WizardCreate, WizardPublish,
         WizardPublished, WizardRefused, WizardFails, WizardReset

\* The page that waits is left, or its call runs to its end: with the fairness of
\* the adapter and the browser it does not stay.
THEOREM PublishingIsLeft == Spec => PublishingRunsOut
<1>1. ASSUME IInv, [Next]_vars, wizard.pc = "publishing", wizard'.pc = "publishing"
      PROVE  wizard'.pub = wizard.pub /\ Due(pub'[wizard.pub].pc) <= Due(pub[wizard.pub].pc)
  <2>1. wizard' = wizard
    <3>1. CASE WizardPublished
      <4>1. PICK pc \in {"success", "creating"} :
                \E made : wizard' = [Page(pc) EXCEPT !.made = made]
        BY <3>1 DEF WizardPublished
      <4>2. wizard'.pc = pc
        BY <4>1
      <4> QED
        BY <1>1, <4>1, <4>2
    <3>2. CASE WizardRefused \/ WizardFails \/ WizardReset
      BY <1>1, <3>2 DEF WizardRefused, WizardFails, WizardReset
    <3>3. ~ (WizardClick \/ WizardSaved \/ WizardCreate \/ \E p \in Publication : WizardPublish(p))
      BY <1>1 DEF WizardClick, WizardSaved, WizardCreate, WizardPublish
    <3>4. wizard' = wizard \/ WizardStep
      BY <1>1 DEF Next, vars, PublishStep, CsStep, ApiPublish, PostFails, PostAcked,
                  InsertPending, InsertFails, CsReceive, OnPublish, OnPublishLost, Restart
    <3> QED
      BY <3>1, <3>2, <3>3, <3>4 DEF WizardStep
  <2>2. wizard.pub \in Publication
    BY <1>1 DEF IInv, WizardSound
  <2> QED
    BY <1>1, <2>1, <2>2, CallsGoOn
<1>2. IInv /\ [Next]_vars =>
          (wizard.pc = "publishing" =>
              \/ wizard'.pc # "publishing"
              \/ /\ wizard'.pub = wizard.pub
                 /\ Due(pub'[wizard.pub].pc) <= Due(pub[wizard.pub].pc))
  BY <1>1
<1> QED
  BY <1>2, Invariance, PTL DEF Spec, SafeSpec, PublishingRunsOut
=================================================================================
