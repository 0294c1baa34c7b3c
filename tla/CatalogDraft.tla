------------------------------ MODULE CatalogDraft ------------------------------
(***************************************************************************)
(* The draft of the publishing wizard (PublishPage): four lists, each      *)
(* edited in a panel of its own with one form, a fifth panel to review and *)
(* publish them, and handlePublish, which saves what the lists held at the *)
(* click, one awaited request after the other.                             *)
(*                                                                         *)
(* The panel on the page lags behind the step: AnimatePresence lets the    *)
(* old panel leave (0.2 s) before the new one comes.  Until then its       *)
(* buttons work, with the lists it was last drawn with, while what they    *)
(* set is current.  The page is there from Init to its success; a second   *)
(* attempt that runs beside the first, which two clicks on Publish or      *)
(* leaving the page would start, is not modelled.                          *)
(***************************************************************************)
EXTENDS Integers, Sequences

CONSTANTS
    Typed,      \* Typed[k]: the ids a user may type, or Auto Fill make up, for k
    MaxItems,   \* MaxItems[k]: bound on the list of k
    MaxLinks,   \* bound on the resources linked to an offer
    MaxEdits    \* bound on the changes made to the lists of one draft

Kind == {"provider", "catalog", "resource", "offer"}

\* An id as it stands in the input: padded when blanks surround it.
Id == [name: STRING, padded: BOOLEAN]

ASSUME ConstantsAssumption ==
    /\ \A k \in Kind : Typed[k] \subseteq Id
    /\ \A k \in Kind : MaxItems[k] \in Nat
    /\ MaxLinks \in Nat /\ MaxEdits \in Nat

\* Panels 1 to 4 hold the lists and 5 is the review.  The bounds leave one panel
\* to either side, which a double click reaches and which shows no list.
Panel == <<"provider", "catalog", "resource", "offer">>
FirstPanel == 0
LastPanel == 6

\* Bound: the panels that the step may be ahead of the one on the page.
MaxLag == 2

VARIABLES
    step,    \* the wizard's step
    shown,   \* the step whose panel is on the page
    lists,   \* lists[k]: the items of kind k
    form,    \* the form of the panel shown
    drawn,   \* what the panel shown was last drawn with
    save,    \* handlePublish
    edits,   \* the changes counted by MaxEdits
    late     \* history: the kinds to whose list a panel with an old one has added

vars == <<step, shown, lists, form, drawn, save, edits, late>>

--------------------------------------------------------------------------------
(* Types *)

TypedIds == UNION {Typed[k] : k \in Kind}

\* links are the ids of the providers or resources that the item names.
Item == [id: TypedIds, links: Seq(TypedIds)]

Lists == [Kind -> Seq(Item)]

\* For an edit: the index and, as history, the item opened and whether the index
\* is of another item, from the start or since.
Form == [mode: {"closed", "new", "edit"}, idx: Nat, item: Item \cup {<< >>}, moved: BOOLEAN]

\* A request that has been answered: for item "of" of the lists at the click,
\* pointing to the row of item ref and carrying data of item emb (0: none).
Row == [kind: Kind \cup {"publish"}, of: Nat, ref: Nat, emb: Nat]

\* The props of a panel.
Props == [lists: Lists, loading: BOOLEAN]

\* snap: the lists at the click, late: the kinds as of then.  todo: the requests to
\* come, rows: those answered.
Save == [pc: {"idle", "saving", "success", "error"}, snap: Lists, late: SUBSET Kind,
         todo: Seq((Kind \cup {"publish"}) \X Nat), rows: Seq(Row)]

TypeOK ==
    /\ step \in FirstPanel..LastPanel
    /\ shown \in FirstPanel..LastPanel
    /\ lists \in Lists
    /\ form \in Form
    /\ drawn \in Props
    /\ save \in Save
    /\ edits \in 0..MaxEdits
    /\ late \subseteq Kind

--------------------------------------------------------------------------------
(* Helpers *)

Trim(id) == [id EXCEPT !.padded = FALSE]

Empty == [k \in Kind |-> << >>]
Closed == [mode |-> "closed", idx |-> 0, item |-> << >>, moved |-> FALSE]
NotSaving(pc) == [pc |-> pc, snap |-> Empty, late |-> {}, todo |-> << >>, rows |-> << >>]

IdsOf(list) == {list[i].id : i \in DOMAIN list}

\* The list is filtered: an index past its end takes nothing away.
RemoveIdx(list, i) ==
    IF i \in DOMAIN list THEN SubSeq(list, 1, i - 1) \o SubSeq(list, i + 1, Len(list)) ELSE list

\* Variant: Array.findIndex, which says -1.
FindIndex(list, id) ==
    IF id \notin IdsOf(list) THEN -1
    ELSE CHOOSE i \in DOMAIN list :
             list[i].id = id /\ \A j \in 1..(i - 1) : list[j].id # id

\* Array.find: the first item with the id, 0 if there is none.
Find(list, id) ==
    IF id \notin IdsOf(list) THEN 0
    ELSE CHOOSE i \in DOMAIN list :
             list[i].id = id /\ \A j \in 1..(i - 1) : list[j].id # id

\* What the items of a kind are linked to.
Target(k) == IF k = "offer" THEN "resource" ELSE "provider"

CurrentProps == [lists |-> lists, loading |-> save.pc = "saving"]

\* A panel is drawn anew after each change, but not while it leaves; one that is
\* called back is.
Draw == drawn' = IF shown' = step' THEN CurrentProps' ELSE drawn

Init ==
    /\ step = 1 /\ shown = 1
    /\ lists = Empty
    /\ form = Closed
    /\ save = NotSaving("idle")
    /\ drawn = CurrentProps
    /\ edits = 0
    /\ late = {}

OnPage == save.pc # "success"

--------------------------------------------------------------------------------
(* The panels: ProvidersStep, CatalogsStep, ResourcesStep, OffersStep *)

OpenForm ==
    /\ OnPage /\ form.mode = "closed"
    /\ form' = [Closed EXCEPT !.mode = "new"]
    /\ UNCHANGED <<step, shown, lists, save, edits, late>>

StartEdit(i) ==
    /\ OnPage
    /\ LET k == Panel[shown] IN
       form' = [mode |-> "edit", idx |-> i, item |-> drawn.lists[k][i],
                moved |-> drawn.lists[k] # lists[k]]
    /\ UNCHANGED <<step, shown, lists, save, edits, late>>

CancelForm ==
    /\ OnPage /\ form.mode # "closed"
    /\ form' = Closed
    /\ UNCHANGED <<step, shown, lists, save, edits, late>>

\* The ids a form may be linked to: the options it offers, and those the item
\* being edited has already, whether or not they are still there.
Kept == IF form.mode = "edit" THEN {form.item.links[i] : i \in DOMAIN form.item.links} ELSE {}
Linkable(k) == IdsOf(drawn.lists[k]) \cup Kept

\* What the form can hold when its button is clicked, blank ids left out, which
\* keep the button disabled.
ProviderDrafts == [id: Typed.provider, links: {<< >>}]

\* A catalog needs a provider.
CatalogDrafts == [id: Typed.catalog, links: {<<id>> : id \in Linkable("provider")}]

ResourceDrafts ==
    [id: Typed.resource, links: {<< >>} \cup {<<id>> : id \in Linkable("provider")}]

\* A resource that is gone has no box to untick; Auto Fill drops it.
OfferDrafts ==
    LET ticked == {s \in UNION {[1..n -> Linkable("resource")] : n \in 0..MaxLinks} :
                      /\ \A i, j \in DOMAIN s : s[i] = s[j] => i = j
                      /\ \A id \in Kept \ IdsOf(drawn.lists.resource) :
                             \E i \in DOMAIN s : s[i] = id}
        filled == IF drawn.lists.resource = << >> THEN << >>
                  ELSE <<drawn.lists.resource[1].id>>
    IN [id: Typed.offer, links: ticked \cup {filled}]

\* Variant: the check is made for new items only.
TakenWhenNew(list, id) == form.mode = "new" /\ Trim(id) \in IdsOf(list)

\* An id is compared without its blanks with ids that may have theirs; the index
\* being edited does not count.
Taken(list, id) == \E i \in DOMAIN list : list[i].id = Trim(id) /\ i # form.idx

\* The list is mapped: an index past its end changes nothing.
ReplaceIdx(list, idx, draft) ==
    [i \in DOMAIN list |-> IF i = idx THEN draft ELSE list[i]]

\* The check is made on the list drawn, the change to the current one.
HandleAdd(draft) ==
    /\ OnPage /\ form.mode # "closed"
    /\ LET k == Panel[shown] IN
       /\ ~ Taken(drawn.lists[k], draft.id)
       /\ late' = IF drawn.lists[k] = lists[k] THEN late ELSE late \cup {k}
       /\ \/ /\ form.mode = "edit"
             /\ lists' = [lists EXCEPT ![k] = ReplaceIdx(@, form.idx, draft)]
          \/ /\ form.mode = "new" /\ Len(lists[k]) < MaxItems[k]
             /\ lists' = [lists EXCEPT ![k] = Append(@, draft)]
    /\ form' = Closed
    /\ edits < MaxEdits /\ edits' = edits + 1
    /\ UNCHANGED <<step, shown, save>>

\* The form stays open with the index it was opened with.
Remove(i) ==
    /\ OnPage
    /\ lists' = [lists EXCEPT ![Panel[shown]] = RemoveIdx(@, i)]
    /\ form' = [form EXCEPT !.moved = form.mode = "edit" /\ (@ \/ i <= form.idx)]
    /\ edits < MaxEdits /\ edits' = edits + 1
    /\ UNCHANGED <<step, shown, save, late>>

EditList(drafts) ==
    \/ OpenForm
    \/ CancelForm
    \/ \E i \in DOMAIN drawn.lists[Panel[shown]] : StartEdit(i) \/ Remove(i)
    \/ \E draft \in drafts : HandleAdd(draft)

ProvidersStep == shown = 1 /\ EditList(ProviderDrafts) /\ Draw
CatalogsStep == shown = 2 /\ EditList(CatalogDrafts) /\ Draw
ResourcesStep == shown = 3 /\ EditList(ResourceDrafts) /\ Draw
OffersStep == shown = 4 /\ EditList(OfferDrafts) /\ Draw

--------------------------------------------------------------------------------
(* PublishPage *)

\* canAdvance as the panel on the page was rendered.
CanAdvance == shown \in DOMAIN Panel => drawn.lists[Panel[shown]] # << >>

NextStep ==
    /\ OnPage /\ shown < 5 /\ CanAdvance /\ step < LastPanel /\ step < shown + MaxLag
    /\ step' = step + 1
    /\ UNCHANGED <<shown, lists, form, save, edits, late>>
    /\ Draw

BackStep ==
    /\ OnPage /\ shown # 1 /\ step > FirstPanel /\ step > shown - MaxLag
    /\ step' = step - 1
    /\ UNCHANGED <<shown, lists, form, save, edits, late>>
    /\ Draw

\* Variant: the panels are one component, which keeps its state.
SettleKeepsForm ==
    /\ OnPage /\ shown # step
    /\ shown' = step
    /\ UNCHANGED <<step, lists, form, save, edits, late>>
    /\ Draw

\* The old panel has left and its form with it.
Settle ==
    /\ OnPage /\ shown # step
    /\ shown' = step
    /\ form' = Closed
    /\ UNCHANGED <<step, lists, save, edits, late>>
    /\ Draw

\* Variant: the offers go before the resources they need.
OffersFirst(snap) ==
    LET All(k) == [i \in DOMAIN snap[k] |-> <<k, i>>] IN
    All("provider") \o All("offer") \o All("resource") \o
    [i \in 1..(2 * Len(snap.catalog)) |->
        <<IF i % 2 = 1 THEN "catalog" ELSE "publish", (i + 1) \div 2>>]

\* The requests of handlePublish: each catalog is created and then published.
Requests(snap) ==
    LET All(k) == [i \in DOMAIN snap[k] |-> <<k, i>>] IN
    All("provider") \o All("resource") \o All("offer") \o
    [i \in 1..(2 * Len(snap.catalog)) |->
        <<IF i % 2 = 1 THEN "catalog" ELSE "publish", (i + 1) \div 2>>]

\* The button is disabled when it was drawn during an attempt; the lists are those
\* it was drawn with.
Publish ==
    /\ shown >= 5 /\ ~ drawn.loading /\ save.pc \in {"idle", "error"}
    /\ save' = [pc |-> "saving", snap |-> drawn.lists, late |-> late,
                todo |-> Requests(drawn.lists), rows |-> << >>]
    /\ UNCHANGED <<step, shown, lists, form, edits, late>>
    /\ Draw

\* Variant: the map of row ids is kept by trimmed ids.
TrimmedRow(k, id) ==
    LET of == {n \in DOMAIN save.rows : save.rows[n].kind = k
                                        /\ Trim(save.snap[k][save.rows[n].of].id) = Trim(id)}
    IN IF of = {} THEN 0
       ELSE save.rows[CHOOSE n \in of : \A m \in of : m <= n].of

\* providerDbIdMap and resourceIdMap: the item whose row was entered last under
\* the id, 0 if there is none.
MappedRow(k, id) ==
    LET of == {n \in DOMAIN save.rows :
                  save.rows[n].kind = k /\ save.snap[k][save.rows[n].of].id = id}
    IN IF of = {} THEN 0
       ELSE save.rows[CHOOSE n \in of : \A m \in of : m <= n].of

\* The body of a request.  An offer counts only with its first resource; a
\* resource whose provider is not found goes with the first one.
RowOf(k, i) ==
    LET snap == save.snap
        links == IF k = "publish" THEN << >> ELSE snap[k][i].links
        found == IF links = << >> THEN 0 ELSE Find(snap[Target(k)], links[1])
    IN [kind |-> k, of |-> i,
        ref |-> IF k \in {"offer", "catalog"} /\ links # << >>
                THEN MappedRow(Target(k), links[1]) ELSE 0,
        emb |-> IF k = "resource" /\ found = 0 /\ snap.provider # << >> THEN 1 ELSE found]

\* No request is made for an offer without a row for its resource.
Skipped(row) == row.kind = "offer" /\ row.ref = 0

\* One request is answered, or left out; after the last one the page shows its
\* success and the panels are gone.
SaveNext ==
    /\ save.pc = "saving"
    /\ IF save.todo = << >>
       THEN /\ save' = [save EXCEPT !.pc = "success"]
            /\ form' = Closed
       ELSE /\ LET row == RowOf(Head(save.todo)[1], Head(save.todo)[2]) IN
               save' = [save EXCEPT !.todo = Tail(@),
                                    !.rows = IF Skipped(row) THEN @ ELSE Append(@, row)]
            /\ UNCHANGED form
    /\ UNCHANGED <<step, shown, lists, edits, late>>
    /\ Draw

\* A request fails: the loop ends and what is saved stays saved.
SaveFails ==
    /\ save.pc = "saving" /\ save.todo # << >>
    /\ save' = NotSaving("error")
    /\ UNCHANGED <<step, shown, lists, form, edits, late>>
    /\ Draw

\* "Publish Another".
ResetAll ==
    /\ save.pc = "success"
    /\ step' = 1 /\ shown' = 1
    /\ lists' = Empty
    /\ save' = NotSaving("idle")
    /\ edits' = 0 /\ late' = {}
    /\ UNCHANGED form
    /\ Draw

--------------------------------------------------------------------------------

Next ==
    \/ ProvidersStep
    \/ CatalogsStep
    \/ ResourcesStep
    \/ OffersStep
    \/ NextStep
    \/ BackStep
    \/ Settle
    \/ Publish
    \/ SaveNext
    \/ SaveFails
    \/ ResetAll

Spec == Init /\ [][Next]_vars

--------------------------------------------------------------------------------
(* Properties *)

\* The duplicate check (handleAdd) does what its message says for ids typed
\* without blanks: however items were added, edited through a stale index and
\* removed, no two items of a list have the same one, unless a leaving panel has
\* added to the list after checking an older one.
IdsDistinct ==
    \A k \in Kind \ late : \A i, j \in DOMAIN lists[k] :
        lists[k][i].id = lists[k][j].id /\ ~ lists[k][i].id.padded => i = j

\* "Save Changes" writes to the item that was opened (startEdit, editIdx), unless
\* a leaving panel opened it from an older list, or that item or one before it was
\* removed while the form was open.
EditFindsItsItem ==
    form.mode = "edit" /\ ~ form.moved =>
        /\ form.idx \in DOMAIN lists[Panel[shown]]
        /\ lists[Panel[shown]][form.idx] = form.item

\* An offer's row id and its tariff and rates, a catalog's provider_id and the
\* provider in its body, come from two lookups of one id (handlePublish: a map
\* that the last item wins and a find that the first one wins): they are of one
\* item unless the id has blanks or its list was added to by a leaving panel.
OneSource ==
    \A n \in DOMAIN save.rows :
        LET row == save.rows[n] IN
        /\ row.kind \in {"offer", "catalog"} /\ row.ref # row.emb
        /\ Target(row.kind) \notin save.late
        => save.snap[row.kind][row.of].links[1].padded

\* What "Published successfully!" stands for: everything on the lists at the
\* click has a row and every catalog was published, each once, but for the
\* offers without resource or whose first resource was gone.
SuccessSavesLinked ==
    save.pc = "success" =>
        \A k \in Kind \cup {"publish"} :
            LET list == save.snap[IF k = "publish" THEN "catalog" ELSE k]
                rowsOf(i) == {n \in DOMAIN save.rows :
                                 save.rows[n].kind = k /\ save.rows[n].of = i}
            IN \A i \in DOMAIN list :
                   \/ \E n \in DOMAIN save.rows : rowsOf(i) = {n}
                   \/ /\ k = "offer" /\ rowsOf(i) = {}
                      /\ list[i].links = << >>
                         \/ list[i].links[1] \notin IdsOf(save.snap.resource)
=================================================================================
