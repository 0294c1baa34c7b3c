# A verification development for the Beckn motor insurance demo

The repository is a two-sided insurance marketplace on the Beckn v2 protocol: a
buyer's application (BAP), an insurer's application (BPP), a payment service
(ION) that is the only merchant of the DOKU gateway, a mock of the catalog
service (CS), two React frontends and two external protocol adapters (ONIX).
The modules in this directory model the parts of it where order, failure and
time matter, check them with TLC on small instances and prove their central
properties with TLAPS for every value of the constants.

Paths below are relative to the repository; `beckn.go` is
`bpp-application/internal/service/beckn.go`, `client.go` and `callback.go` are
those of `bap-application/internal/service/`, `main.go` is that of
`ion-service/`, and the `.jsx` files are those of the two frontends.

## 1. Inventory

### 1.1 Components

| component | state it keeps | operations | module |
|---|---|---|---|
| Insurer's policy handlers (`beckn.go`, `http/handlers.go` of the BPP) | Postgres tables `policies` (one row per transaction) and `payments`; goroutines in flight | init, confirm, status, cancel, reconcile, payment notification, sandbox payment, payment status | `PolicyLifecycle`, `CoverContract` |
| Buyer's callback bridge (`callback.go`, `forwardAndWait` and `Publish` of the BAP) | Redis keys `callback:<route>:<txn>` with a TTL, pub/sub channels, goroutines that wait | register, forward, wait, publish, delete | `CallbackBridge`, `RequestReply` |
| Buyer's transaction service (`client.go`, `http/handlers.go`) | `transactions` (status, DOKU fields), `snapshots`, `messages` | discover, select, init, confirm, status, cancel, rate, support; the ten `on_*` webhooks; payment received; policy and order lists | `TransactionService` |
| Purchase wizard (`PolicyFlowPage.jsx` of the BAP) | a browser tab: step, transaction, answers so far, spinner, polls under way | five steps, three requests, two polls, the link back from DOKU | `PurchaseWizard` |
| Catalog publishing (`catalog.go`, `WebhookOnPublish`, `cs-mock/main.go`, `handlePublish` of `PublishPage.jsx`) | `catalogs`, `catalog_publish_results`, the publish page | create, publish, on_publish, list | `CatalogPublish` |
| Catalog draft (`PublishPage.jsx` of the BPP) | four lists, the form of the panel shown, the step, the requests of `handlePublish` | add, edit, remove, next, back, publish, publish another | `CatalogDraft` |
| Payment service (`main.go`) | nothing of its own but a cached B2B token; DOKU's view of a payment; `transactions.doku_checkout_request_id`, `policies.doku_request_id` | create checkout, DOKU webhook, notify-direct, notify the insurer, release; VA, QRIS, simulate | `IonPayment` |
| Login of the insurer's frontend (`api/client.js`, `App.jsx`, `Layout.jsx`, `LoginPage.jsx`, `RegisterPage.jsx`, the pages' loads) | `localStorage.bpp_token`, shared by the tabs; the age of a token | login, register, logout, protected routes, the two interceptors | `InsurerSession` |
| Premium calculation (`premium.go`) | none | `CalcPremium` | not modelled, see section 7 |
| Search, select, rate, support of the insurer | inventory tables, read; `ratings`, `support_tickets`, append only | `HandleSearch`, `HandleSelect`, `HandleRate`, `HandleSupport` | not modelled: no state another operation depends on |
| History and list pages, unused gateways (`xendit.go`, `doku.go`), adapters, infrastructure | none | | not modelled, see section 7 |

### 1.2 How they interact

```
 browser -> BAP handler -> forwardAndWait -> onix-bap -> onix-bpp -> BPP webhook
                |   ^                                                  | 200 ACK
          Redis key | channel                                          v
                |   |                                            go HandleX(...)
                v   |                                                  |
              Wait <+- Publish <- BAP webhook <- onix-bap <- onix-bpp <+ callOnixCaller

 DOKU -> ION handleDokuWebhook -> go notifyBPP -> BPP HandlePaymentReceived
 browser -> BAP NotifyPaymentReceived ----------> BPP HandlePaymentReceived
 BAP on_confirm(ACTIVE) -> go sendReconcile -> BPP HandleReconcile -> ION release
```

Every arrow between processes is an HTTP call that is made once. An ACK says
only that the request was read. No message carries a sequence number, answers
are matched to calls by route and transaction id, and both databases are updated
with single statements that are not grouped into SQL transactions.

### 1.3 What is hard

* **Insurer.** Each webhook runs in a goroutine of its own and works in several
  statements: a confirm reads the row, counts the active policies, updates the
  row without a condition on what it read, inserts a ledger row and sends the
  answer. Second inits, second confirms, a cancel, two notifications of one
  payment (gateway webhook and browser redirect) may fall between any two of
  them. Errors of several statements are dropped. Correct means: cover is only
  active for held money; the ledger never claims more than the policy rows; an
  answer that says ACTIVE is true; what was recorded stays recorded.
* **Bridge.** Registration, forwarding and subscription are three steps and the
  answer may come between any two of them. Key and channel are shared by all
  calls of a route and transaction (retries, polls of several tabs). Two
  durations, 35 s and 30 s, start at different moments. Correct means: each call
  ends; it ends with an answer about its own route and transaction or an error; the
  key lives as long as the wait unless the forward used up more than the 5 s between
  the two; no key is leaked.
* **Buyer's transaction service.** `transactions.status` is overwritten by
  whoever writes last: three handlers before they forward, the webhooks, and a
  goroutine that `on_confirm` starts. Two functions, one in Go and one in the
  frontend, make a stage of it. Correct means: the status never runs ahead of the
  insurer and never back, and both views say the same.
* **Wizard.** A step stays on the page while its animation runs, an answer may come
  to a step that has been left, polls overtake each other, a new select replaces
  the transaction under data of the old one. Correct means: only a paid transaction
  is confirmed; what is shown belongs to the transaction that is polled; no spinner
  turns for ever; the page shows what became of the policy.
* **Catalog publishing.** The publication is sent before its PENDING row exists,
  `on_publish` names the catalog, not the publication, and the page repeats
  everything after an error. Correct means: a row stands for a publication the
  CS acknowledged, ACCEPTED for an answer of the CS, the success page for
  catalogs that were received; a decision is not taken back.
* **Draft.** Items are edited by index while they may be removed, compared by
  trimmed id while ids are stored with their blanks, looked up in two ways, and
  changed while `handlePublish` runs over the lists of its click. A panel that is
  leaving still works, on the lists it was last drawn with. Correct means: an
  edit hits its item; no id twice; a row is made of one item; success means that
  everything linked was saved.
* **Payment service.** DOKU gets its 200 before the insurer is told, the insurer
  is told once, each `on_init` makes another checkout of the same invoice, a release
  that failed is repeated without splits. Nobody checks a report against DOKU.
  Correct means: a payment is recorded unless a report got lost; a release is of a
  policy that was issued and names no other invoice's checkout;
  "released" is said of money that went out, without splits only where DOKU refused
  them.
* **Login.** The token is read when a request leaves and removed when an answer of
  401 comes, whoever has logged in meanwhile; logging out ends neither the requests
  nor the pages of the tab. Correct means: pages show only what the backend has
  answered; a login that is alive ends only by a logout, another attempt, or
  the answer to a request sent with another token.

`PROJECT.json` lists these hazards at their lines with the properties that cover
them.

## 2. Modules

| module | extends / instantiates | what it is |
|---|---|---|
| `CoverContract` | | abstract: an init asks for a policy, its premium is held, a confirm gives a number and cover begins; each request does so once, premium and number are never taken back, cover ends only by another init |
| `PolicyLifecycle` | instantiates `CoverContract` | the insurer's handlers, statement by statement |
| `MCPolicyLifecycle` | extends `PolicyLifecycle` | symmetry for TLC |
| `PolicyLifecycleProofs` | extends `PolicyLifecycle` | inductive invariant, seven theorems |
| `RequestReply` | | abstract: a call ends once, with an answer about its subject or an error |
| `CallbackBridge` | instantiates `RequestReply` | the bridge, one Redis command or HTTP exchange at a time, on a clock |
| `MCCallbackBridge` | extends `CallbackBridge` | the durations, scaled down |
| `CallbackBridgeProofs` | extends `CallbackBridge` | inductive invariant, six theorems |
| `CatalogPublish` | | the insurer's publications, the catalog service and the publish page |
| `CatalogPublishProofs` | extends `CatalogPublish` | inductive invariant, eight theorems |
| `CatalogDraft` | | the lists, forms, panels and requests of the publishing wizard |
| `MCCatalogDraft` | extends `CatalogDraft` | a small draft |
| `CatalogDraftProofs` | extends `CatalogDraft` | inductive invariant, five theorems |
| `TransactionService` | | the buyer's backend and what the insurer answers, one request a trip |
| `PurchaseWizard` | extends `TransactionService` | the composition: browser tabs, DOKU's page and the backend |
| `MCPurchaseWizard` | extends `PurchaseWizard` | one tab, two transactions, two trips |
| `PurchaseWizardProofs` | extends `PurchaseWizard`, instantiates `CoverContract` | inductive invariant, nine theorems |
| `IonPayment` | | checkouts, reports and releases between the backends and DOKU |
| `MCIonPayment` | extends `IonPayment` | two invoices, two checkouts |
| `IonPaymentProofs` | extends `IonPayment` | inductive invariant, four theorems |
| `InsurerSession` | | tabs, token and interceptors of the insurer's frontend |
| `MCInsurerSession` | extends `InsurerSession` | two tabs, two logins, symmetry |
| `InsurerSessionProofs` | extends `InsurerSession` | inductive invariant, three theorems |

Definitions introduced by a comment that starts with *Variant* are plausible
mistakes in the code. No next-state relation uses them; each shows that the
property it belongs to can be broken by such a mistake.

### 2.1 `PolicyLifecycle`

| variable | code |
|---|---|
| `policies[t]` | the row of `policies` for transaction `t`: `status`, `payment_received` (`paid`), the running part of `policy_number` (`number`, 0 is NULL), `reconcile_status` |
| `payments[t]` | rows of `payments`, counted by writer: `hold` from `HandlePaymentReceived`, `issue` from `HandleConfirm` |
| `released[t]` | releases the payment service accepted |
| `handlers` | goroutines: which handler (`op`), for which transaction, at which statement (`pc`), with which local results (`code`, `number`) |

`Accept` is the webhook: acknowledge, then `go h.beckn.HandleX(...)`. A record
leaves `handlers` when its function returns.

| handler | actions, in the order of the code |
|---|---|
| `HandleInit` | `InitBadNik`, or `InitUpsert`, `SendReply` |
| `HandleConfirm` | `ConfirmUnknown`; or `ConfirmAgain`, `SendReply`; or `ConfirmUnpaid`, `SendReply`; or `ConfirmPaid`, `ConfirmCount`, `ConfirmIssue`, `ConfirmLedger`, `SendReply` |
| `HandlePaymentReceived`, `SimulatePayment` | `PaymentIgnored`, or `PaymentRead`, `PaymentHold`, `PaymentLedger` |
| `HandleCancel` | `CancelUpdate`, `SendReply` |
| `HandleReconcile` | `ReconcileRelease`, `ReconcileSettle`, `SendReply` |
| `HandleStatus` | `StatusRead`, `SendReply` |
| every statement whose error is returned | `StatementFails` |
| the process | `Restart`: tables stay, goroutines go |

Abstracted: the premium, the vehicle and the customer (no branch after the NIK
check depends on them); the year in the policy number; the checkout data and the
virtual account columns, which the seam does not read; the message log, whose
errors are ignored. `HandlePaymentReceived` runs in the request's goroutine; it
is accepted like the others since its caller is not modelled here.

`CoverContract` is what all this comes to: `known` are the transactions with a row,
`held` those with `payment_received`, `covered` those with a number, `inForce` the
ACTIVE ones; `inits` are the init handlers before their upsert and `confirms` the
confirm handlers before the UPDATE that issues (`UnderWay`). A step that ends cover must use
up an init, and one that begins it a confirm, so neither a cancel nor a
notification nor a second statement of the same handler can.

### 2.2 `CallbackBridge`

| variable | code |
|---|---|
| `slot[r]` | the pair of route and transaction id in `pendingKey` and in the channel name, which are the same string |
| `call[r]` | one execution of `forwardAndWait`: `pc`, ticks to the deadline of `Wait` (`left`), the first message of its subscription (`inbox`); history: the ticks the forward took (`forward`), a message before the subscription (`missed`) |
| `key[s]` | remaining TTL of the Redis key, 0 when absent |
| `answer[r]` | the execution of `HandleCallback` and `Publish` for the insurer's answer to call `r` |

`Register` (SET), `Forward` (POST to the adapter), `Subscribe`, `Receive`,
`TimeOut` and `HangUp` are the steps of a call; `Arrive`, `Check` (EXISTS),
`Publish` (PUBLISH) and `Delete` (DEL) those of an answer; `Abandon` is a Redis
error or a cancelled webhook. `Tick` is the clock of Redis and of
`context.WithTimeout`. `Restart` ends all calls and webhooks of the process and
keeps Redis.

A forward takes any number of ticks: `http.Post` has no timeout, and of the adapter only
single steps have one. `TimeOut` is held to its moment instead, since no tick passes a
timer that is due. `forward` and `missed` are read by no guard; `missed` says that something
was published on the channel between `Register` and `Subscribe`.

Abstracted: the payload of the answer (it is identified with the call it
answers); the database writes `HandleCallback` makes before it publishes, which
do not decide whether it publishes (they are in `TransactionService`).

### 2.3 `CatalogPublish`

| variable | code |
|---|---|
| `catalogs` | rows of `catalogs`; their ids are serial, so their number says which exist |
| `results` | `catalog_publish_results` in the order of its ids: catalog, `cds_status`, and, as a history variable, the publication that inserted the row |
| `pub[p]` | one execution of `PublishCatalog` |
| `cs[p]` | the catalog service: has it received `p`, has its goroutine called back |
| `wizard` | `handlePublish`: step, catalogs published since the click, the call it awaits |

`PublishCatalog` is `ApiPublish` or `WizardPublish` (reads and POST), then
`PostAcked`, `PostFails`, then `InsertPending`, `InsertFails`. The mock of the catalog
service is `CsReceive`, `OnPublish` (with `HandleOnPublish`, which runs inside
that HTTP request) and `OnPublishLost`; its verdict is always ACCEPTED, so
REJECTED does not occur. The request may reach it after the adapter has given up.
The wizard's loops over providers, resources and offers are one step, `WizardSaved`,
since no publication is made before they are done.

Abstracted: the content of a catalog. It is read when it is published, and no
step depends on it.

### 2.4 `CatalogDraft`

| variable | code |
|---|---|
| `step`, `shown` | the wizard's step; the step whose panel `AnimatePresence` still shows |
| `lists[k]` | `providers`, `catalogs`, `resources`, `offers` |
| `form` | the form of the panel shown: closed, new, or editing an index (`editIdx`) |
| `drawn` | the props the panel shown was last drawn with: the lists, and whether an attempt runs |
| `save` | `handlePublish`: its lists, its requests still to come, those answered |

The panels share `EditList` (`startEdit`, `handleAdd`, remove, cancel) and differ in what
their forms can hold (`ProviderDrafts` ... `OfferDrafts`). An id is a name with or
without surrounding blanks, since the code trims in one place and not in the others.
`form.moved` and `late` are history.

`AnimatePresence` keeps the old panel on the page until its exit animation has ended and
does not draw it anew: what it shows, offers, compares with and decides by
(`StartEdit`, `Linkable`, `Taken`, `CanAdvance`, `Publish`) are the lists of `drawn`,
while its setters are functional and work on the current `lists`. `Draw`, part of each action,
draws the panel anew unless it is leaving. `form.moved` says that an edit's index is of
another item, since one was removed or because the panel opened it from a list that had
changed; `late` names the kinds to whose list a panel has added or saved after checking
another list than the current one.

The row ids handed from one request to the next
(`providerDbIdMap`, `resourceIdMap`) are `MappedRow`, the lookup of the embedded data
is `Find`. `SaveNext` is one awaited request; `CatalogPublish` models what the last
two kinds of them do, and takes the others as done. A second attempt beside the
first, by two clicks on Publish before the button is drawn anew or by leaving the page, is
not modelled.

### 2.5 `TransactionService` and `PurchaseWizard`

| variable | code |
|---|---|
| `row[t]` | the row of `transactions`, its `status`, the last snapshot's action (`onAction`), whether a checkout link is there; `asked` and `again` are history |
| `pol[t]` | the insurer's policy, as far as its answers tell of it; `issued` is history |
| `trips[c]` | one request on its way to the insurer and back, with the page that waits |
| `pages[p]` | one tab: `currentStep`, the step shown, the props that one was rendered with, spinner, polls under way; of the page `actualTxnId` and the transactions that quote, init and confirm data are of; `stray` is history |
| `doku` | the transactions paid on DOKU's page |

`Request` is `Select`, `Init` and `Confirm` up to the forward: the status first.
`OnSelect`, `OnInit` with `OnInitDone`, `OnConfirm`, `OnReconcile` are the branches of
`HandleCallback`, where `OnInit` waits for the checkout between its two writes and
`OnConfirm` starts `SendReconcile`. `InsurerAnswers` is `PolicyLifecycle` seen through its
answers: an init resets the policy, a confirm is refused while no payment is recorded.
Both implement `CoverContract`, the one statement by statement and the other in one step
per request, so what the buyer is shown rests on the same promise. `Answer` composes a
branch with the pages that hear it: any set of those who wait for the operation and
transaction, since `CallbackBridge` shows that an answer may be lost to any of them.
`GiveUp` is the 30 s of the wait or a failed forward, `Lose` a lost message or a restart.

`Settle` ends the animation: the new step starts with the page's props.
`Answered` is `onNext`, which moves the page wherever it is by then.
`PollPayment` and `PollStage` send a poll, `PollAnswered` answers any of those under
way. `OpenLink` is the tab DOKU opens with `?payment=done`. Polls that say the same are
one element of a set.

Assumed of DOKU: it sends a customer back only after a payment. Not modelled: a page
of a linked transaction has no `initData`, so its payment step offers no way to DOKU
(`PolicyFlowPage.jsx:234`), which is why `DataIsOfTransaction` makes an exception of it.

### 2.6 `IonPayment`

| variable | code |
|---|---|
| `checkouts[c]` | the checkout with Request-Id `c`: its invoice, who has it, the money at DOKU, its webhook |
| `stored[i]` | `transactions.doku_checkout_request_id` |
| `posts` | goroutines `notifyBPP` |
| `row[i]` | `policies`: `payment_received`, `doku_request_id`, ACTIVE; and whether an `on_confirm` went out (`told`). There is none before the first on_init (`Entered`) |
| `call[i]`, `requests` | `HandleReconcile`'s call of `handleRelease`, and release requests at DOKU |
| `lost`, `refused` | history: a report about a paid invoice got lost, DOKU refused splits |

No report needs a payment. `HandleDokuWebhook` passes on whatever DOKU notifies of an
invoice: `main.go` never looks at `transaction.status` and takes a post without Client-Id
unsigned. `PaymentNotified` is the notification of a payment; `OtherNotified` is
one of a failed or expired attempt, one sent again, or the one `handleSimulateDoku`
makes. The Request-Id a webhook carries is that of the checkout or one of the
notification's own (`Other`). `HandleNotifyDirect` is `payment-received` of the buyer's backend,
which may be called at any time and reports the id it has stored, or none. Assumed of DOKU's
notifications is that they name an invoice for which there is a checkout, and a
Request-Id of their own or of a checkout of that invoice that has been shown.

DOKU itself (`Pay`, `DokuReleases`) is external and modelled from how `main.go` calls it: it
holds what was paid under Request-Id and invoice, releases it once, does not know an
account, or fails. An answer that comes in time is handled in the step that makes it;
`ReleaseTimesOut` leaves the request at DOKU, where it may still be carried out.
`CreateCheckout` may leave `stored` as it was: the 15 s of the caller end just then, or
its UPDATE fails.

Virtual accounts and QRIS have no caller left in the repository and the cached token
serves only them; none is modelled. Of `/simulate` only its notification is.

### 2.7 `InsurerSession`

| variable | code |
|---|---|
| `token` | `localStorage.bpp_token`, one for all tabs |
| `issued`, `expired` | what `AuthMiddleware` accepts: signed and younger than 24 h |
| `tab[t]` | the page shown, what it shows, how many of its requests were accepted, and whether `window.location.href` has been set |
| `requests` | requests under way, with the token the interceptor gave them |

Moving by the router and a full load are different actions: `Navigate` leaves requests under
way whose answers still pass the interceptor, `Open` drops them. `ProtectedRoute`
looks at the token when it is mounted only. `SaveAnswered` is one round of
`handlePublish`, `LoadAnswered` one promise of a `Promise.all`. The list pages with one
request are one page, the overview. `accepted` is history.

Not modelled: `PolicyDetailPage` when only the id in its URL changes, where an
older answer may come last; the table of accounts; the signature.

## 3. Runs

| run | instance | what it shows |
|---|---|---|
| `policy_lifecycle` | 1 transaction, 3 handlers at a time, rows counted to 2 | type invariant; `IssuedOnlyWhenPaid`; `LedgerBacked`; `AnnouncedCoverIsReal`; `NothingForgotten`; `CoverEndsOnlyByInit`; the handlers implement `CoverContract` |
| `callback_bridge` | 2 calls, 2 slots, TTL 3, wait 2 ticks, forwards of any length | type invariant; `KeyCoversWait`; `PublishedMeansDelivered`; `EveryCallReturns`; `NoKeyForever`; the bridge implements `RequestReply`, its liveness included |
| `catalog_publish` | 3 catalog rows, 2 publications, a draft of 2 catalogs | type invariant; `RowsAcknowledged`; `AcceptedByCs`; `SuccessIsPublished`; `AcceptedStays`; `PendingIsDecided`; `PublishingEnds` |
| `catalog_draft` | 1 provider, 1 catalog, 2 resources, 1 offer; padded ids; 5 edits; leaving panels | type invariant; `IdsDistinct`; `EditFindsItsItem`; `OneSource`; `SuccessSavesLinked` |
| `purchase` | 1 tab, 2 transactions, 2 trips, 2 polls, 5 requests | type invariant; `ConfirmOnlyPaid`; `DataIsOfTransaction`; `ConfirmedIsIssued`; `ViewsAgree`; `StatusRunsForward`; `PageCatchesUp`; `SpinnerEnds` |
| `ion_payment` | 2 invoices of which 1 is confirmed, 2 checkouts, 1 report and 1 late release at a time | type invariant; `ReleaseIsDue`; `ReleaseDoesWhatItSays`; `PaymentReachesInsurer` |
| `insurer_session` | 2 tabs, 2 logins, 2 requests | type invariant; `ShownIsAccepted`; `LiveLoginStays` |
| `subscriber_ready` | as `callback_bridge` | violated: `callback.go:42-43` |
| `payment_idempotent` | 1 transaction, 2 handlers | violated: `beckn.go:515` |
| `settled_released` | 1 transaction, 2 handlers | violated: `beckn.go:705` |
| `issued_once` | 1 transaction, 2 handlers | violated: `beckn.go:386` |
| `pending_awaited` | 2 catalog rows, 2 publications, a draft of 1 | violated: `catalog.go:444` |

### 3.1 Bounds

* **One transaction.** Handlers of different transactions meet in one place, the
  `COUNT(*)` of `ConfirmCount`. With one transaction it yields 0 or 1, which is
  all the properties distinguish (a number exists or it does not). The theorems
  hold for any finite set of transactions.
* **Three handlers at a time.** Every hazard listed for this component is a
  race of two handlers; the third is the second attempt or the observer (a
  status, a cancel). Each handler may be followed by any number of others, so
  sequences of requests are unbounded.
* **`MaxRows = 2`.** Rows are counted as 0, 1, "more". `OneMore` saturates, no
  guard blocks an insertion.
* **Two calls, two slots.** The calls may share a slot or not, which covers a
  retry after a timeout, two polls at once, and interference between slots. The
  channel and the key treat all calls of a slot alike.
* **Keys of 3 ticks, waits of 2.** What matters of 35 s and 30 s is that the key lives
  longer and by how much: one tick here. A forward may take less than that margin, exactly
  that, or so much more that the key expires during the wait or before it. `Tick` is any
  moment between the other steps, so steps at the same tick still interleave. `KeyOutlivesWait`
  holds for any two durations.
* **Three catalogs, two publications.** Two publications are one of each of two
  catalogs of a draft, or two of one catalog, which is where rows and callbacks
  get mixed up. The third catalog row lets a first attempt fail after creating one
  and a second attempt succeed.
* **A draft of five items, five edits.** Two resources are needed for two items with
  one id, for an edit by an index that has moved, and for two lookups to differ; one
  item of the other kinds is what they point to. One id may come with blanks. Five
  edits enter one item of each kind and change one of them, or fill the list of
  resources and change it thrice; that is also what a history with a leaving panel and an old
  list takes. `MaxLag = 2` lets the step get two panels away from the one on the page, which
  is a double click on Next or Back.
* **One tab, two transactions, two trips.** A tab is left and opened again, also by
  DOKU's link, so one `Page` goes through the lives of several. Two transactions are an
  old and a new one on the same page. Two trips at a time are a request and its
  repetition, a request and the reconcile of the purchase before, or a late answer beside
  a new request; slots are freed and taken again. Five requests are a purchase of three and
  two more: a repeated init or confirm, or a second select and init. Two polls that differ
  are enough to answer in the wrong order.
* **Two invoices, two checkouts.** Either one each, where ids could be mixed up, or both
  of one invoice, where the stored id and the one that is paid differ. One `notifyBPP` at a
  time (`MaxPosts`) still lets reports overtake each other: a notification waits at DOKU
  while others are handled. One release that has timed out (`MaxLate`) runs beside its
  successor. One invoice goes on to be confirmed (`Completed`); the other lends its checkouts,
  reports and ids. `Accounts` is TRUE: without accounts the retry does not exist.
* **Two tabs, two logins, two requests.** One tab ends or replaces the login of the
  other while that one has requests under way. `Saves` is 2 so that a publication can lose its
  token in the middle; `InventoryPage` is 3 in the code and 2 in the run, the
  least with a request that is neither the first nor alone. Symmetry of tabs and of
  logins is sound: invariants and an action property are checked, no liveness.
* The runs of `CallbackBridge`, `CatalogPublish`, `IonPayment` and `InsurerSession` check
  no deadlock: calls, checkouts and logins are numbered, and when all are used up
  nothing may be left to do.

### 3.2 Fairness

`PolicyLifecycle` has none: nothing it is asked is a liveness property, and the
code promises none (a handler that fails is not run again).

`CallbackBridge` assumes weak fairness of two things. Time passes (`Tick`). And a
call that can take its own next step takes one: an HTTP exchange that was started
ends (`Forward` with success or error), a goroutine that is ready runs
(`Subscribe`, `Receive`, `TimeOut`). The first is the Go runtime and Redis. The second
relies on the adapter for the exchange: each of its steps has a timeout
(`config/insurance-bap.yaml`: 5 s for the header of the upstream's answer, lines 46 and 103, 10 s
for the registry, line 112, 30 s for a schema download, line 128), which come one after the
other and on top of what has none, so that it ends but at no stated moment. `http.Post` in
`callOnixCaller` has no timeout of its own: an adapter that never answers hangs the call. No
fairness is given to the frontend's calls, to the insurer's answers, to the processing of an
answer or to a restart: calls return although answers are lost.

`CatalogPublish` assumes weak fairness of the goroutine of the catalog service (it
calls back or fails to), of the adapter (its exchange ends, as above), of the statement
after the POST, and of the page's reaction to the answer of its call. Nothing makes the
catalog service receive a publication, which is why `PublishingEnds` needs the adapter to give
up.

`PurchaseWizard` assumes weak fairness of four things. A wait ends (`GiveUp`, for each
trip: the 30 s of `Wait`, or the answer that ended it before). Animations end (`Settle`).
`setInterval` fires (`PollStage`). A poll that was sent is answered (`PollAnswered`):
`GetStatus` and the payment status are single queries to a database of one's own. No
fairness is given to the insurer, to the network, to the customer or to the reconcile
goroutine, so `PageCatchesUp` speaks only of a status that has become SETTLED.

`IonPayment` assumes weak fairness of DOKU's webhook, which is handled or dropped, and of
each `notifyBPP`, which succeeds or fails. That either may fail every time is why
`PaymentReachesInsurer` has `lost` among its outcomes.

`CatalogDraft` and `InsurerSession` have no fairness: nothing asked of them is a
liveness property.

## 4. Proofs

All theorems are proved by TLAPS for arbitrary constants under the assumptions of the
module they are about (`ConstantsAssumption` but for the purchase): finitely many
transactions and a positive `MaxRows`; for the bridge, a positive TTL and a natural
timeout, whatever their relation, and outcomes that are not calls; for publishing, natural
bounds and a draft that is not empty; for payments, `None` is no invoice and no checkout,
`Other` is neither `None` nor a checkout, `Completed` are invoices, and the accounts are
set or not; for the login, `None` is no token and a page that loads or saves makes at
least one request; for drafts, what can be typed is ids and the bounds are natural; for
the purchase, `None` is no transaction, no page (`NoneAssumption`) and no request
(`TripAssumption`), trips and transactions are numbered (`OrderAssumption`) and the bounds
are natural (`BoundsAssumption`). The number of handlers, calls, slots, checkouts,
releases, tabs, trips, requests and items is arbitrary.

**`PolicyLifecycleProofs`.** `IssuedOnlyWhenPaid` is not inductive: `ConfirmIssue`
makes the row ACTIVE without looking at it. What makes the step harmless is
that the handler has looked earlier and that what it saw cannot be undone. `IInv` says
so: `StillTrue(h)` lists for each handler and statement what is still true of the
row it read (a confirm past its check has a paid row, one past its UPDATE a
numbered row, a payment past its check an existing row, an ACTIVE answer a paid and numbered
row), `RowSound(t)` relates the columns of a row, `LedgerBacked` and `TypeOK`
complete it. Every step is shown to be `Monotone` (no payment, number,
settlement or row is taken back), which carries `StillTrue` over to all the
other handlers at once; so each action needs an argument about its own
handler only. From `IInv` follow `TypeCorrect`, `PaidBeforeIssue`,
`LedgerIsBacked` and `AnswersAreReal`; from `Monotone` and the shape of the row
updates `RecordsAreKept` and `CoverKept`. `Refinement` maps the acknowledgement of an init
or confirm to `Come`, the upsert of an init to `Request`, `PaymentHold` to `Hold`,
`ConfirmIssue` to `Issue`, a refused, failed or cut off handler to `Fail` and every other
statement to a stutter. That `Issue` finds the premium held is `StillTrue` of the confirm.
That a request is used up by what it does needs two facts of its own: handlers have
identities of their own (`OwnIds`), and none comes back to a statement it has carried out
(`HandlerGoesOn`).

**`CallbackBridgeProofs`.** The property `KeyCoversWait` compares two clocks only
through whether the key is there. Its strengthening compares them directly
(`KeyLasts`): while nothing was published for a call alone on its slot, its key has at least
what forwarding and waiting have not used up of the TTL (`Spare`). `Register` makes the two
equal, `Subscribe` changes neither, `Tick` lowers both. In the wait, `Spare` is positive
as long as more is `left` than the forward exceeded the margin by, which is
`KeyOutlivesWait`; nothing is assumed of how long a forward takes. For
`PublishedMeansDelivered` the invariant follows the call's own answer (`Noticed`): only after
it is published may the key be deleted.
`TypeCorrect`, `KeyOutlivesWait`, `PublishedIsDelivered` follow. `Refinement` proves
the safety part of `RequestReply`, from the invariant that a message in an inbox
answers a call of the same slot. For what liveness rests on, `CallsEnd` says that a call goes
through its stages (`Stage`) in one direction only and that once it waits, no step of anybody puts
off its deadline, which each tick brings nearer; `KeysEnd` says the same of a key, which
gets time only from a call that is made, once.

**`CatalogPublishProofs`.** `CallSound` and `RowsAcknowledged` tie rows and calls to each
other in both directions: a row names a publication that is reported as sent and
acknowledged, and a publication reported as sent has its row. `MadeIsSent` says the
wizard counts only reported catalogs. `SuccessIsHonest` follows along the chain made, sent,
row, listed. The list shows the row with the greatest id; that there is one is
`HasGreatest`, proved from the well-foundedness of the naturals, and
`AcceptedIsKept` rests on it. `CallbackFindsRow` is what deciding a pending row rests
on: a row stays where it is and of the catalog its publication named (`RowsAcknowledged`),
and `HandleOnPublish` updates all rows of that catalog, so a callback that comes after
the row decides it, whatever other publications have written meanwhile. `PublishingIsOfACall` and `PublishingIsLeft` say that a page in
"Publishing..." waits for a call that was made, goes on waiting for the same one, and
that this call never has more statements before it than it had (`Due`).

**`CatalogDraftProofs`.** `IdsDistinct` is nearly inductive: a new or edited item
is compared with the list the panel was drawn with, which is the current one or else puts the
list among those of `late`; so its proof is about what removing, replacing
and appending do to a list. `EditFindsItsItem` needs that a form belongs to the panel
shown (`FormInv`), and `Publish` that the review shows the lists there are: a panel that is not
leaving does, and the review does even then, since no list changes while it is on the page
(`Shows`, `DrawKeeps`). `OneSource` and `SuccessSavesLinked` speak of what a loop has collected.
`Progress` counts: of the requests of a click, `Answered` are behind the attempt and the
others still to come, in order; every row answers a request behind it, no two rows the
same one, and a request behind it without a row is an offer that points to no
resource. To add one answer one must know which request it is: `RequestsAt` and the lemmas
before it give the position of every request in the sequence. That the map of rows and
the lookup in the list agree then follows from the ids of a click being distinct but for the kinds that were
late at the click, and
`SuccessIsWhole` from nothing being left to come.

**`IonPaymentProofs`.** `ReleaseIsDue` is made inductive by following the id through all
its places: stored, reported, recorded, read by a reconcile and sent to DOKU, an id that is a
checkout's is of the invoice it stands beside (`IdsSound`, `AllDue` with `Names`, and
`NamesStays`: what an id names it goes on naming). That the policy was issued is read once, when
the reconcile starts, and is not taken back; the policy itself may be. For
`ReleaseDoesWhatItSays` at most one release request of an invoice has a caller, it carries
the id the caller read, and a request without splits exists only once DOKU has refused
them (`OneCaller`, `RequestSound`). `AllOnTheirWay` is the safety core of
`PaymentReachesInsurer` and a theorem of its own, `PaymentOnItsWay`: a held payment
always has its webhook to come, a report under way, a record, or a lost report. Each
action is shown to be `Kept` (invoices, payments and refusals are never taken back),
which carries the parts over that an action does not touch.

**`InsurerSessionProofs`.** `LiveLoginStays` rests on two facts: a token in the storage was
signed by the backend (`TokenSigned`), so that a 401 in answer to a request with the
stored token means it has expired; and requests under way are told apart (`Numbered`), so
that the one that was answered is gone. `Send` and the router make new requests beside
old ones, hence the lemmas `SendKeeps` and `RouteKeeps`. `ShownIsAccepted` counts: what
was accepted of a load and what is under way make up the load together, and a save the
page waits for is its only one and knows how many went before it (`PageSound`). That needs
`SendCounts`: a page that asks for `k` requests gets exactly `k` new ones, which
`FirstsCount` shows of the first `k` free numbers by comparing them with `1..k`.

**`PurchaseWizardProofs`.** The status handlers write without looking, so nothing in a
single action says that a status may follow the one it replaces. `ServiceInv` says
what makes it so: as long as nothing was asked for again, at most one live request
concerns a transaction (`OneLive`), and the row still holds the status that request left
behind (`StatusOf`, in `TripSound`). The rest of `RowSound` and `TripSound` is a chain
of causes: a confirm under way has a payment, a payment was made on DOKU's page, that
needs a checkout link, the link an init, the init a quote. What the insurer was told is
never untold (`RowsKept`), which carries all other requests over each step. `PagesInv` ties a
request to the step that sent it (`CallSound`) and the data of a page to its transaction
(`PageSound`); a closed page has nobody waiting. `ConfirmOnlyPaid`,
`DataIsOfTransaction`, `ConfirmedIsIssued` and `ViewsAgree` follow from `IInv`;
`StatusRunsForward` from `Forward`, shown beside the invariant for each action.

The spinner is an invariant of its own on top of `IInv`: `Asking(p)` are the requests the
step shown waits for. `SpinnerSound` says that there is at most one and that it has a
spinner, and that a spinner of a page that has not strayed has one, unless the step is
about to leave. What makes it
inductive is that an answer which reaches some of the waiting pages leaves the others
waiting as they were. `OldAnswersEnd` says that while the status is SETTLED no poll
brings in an older answer, so those under way only get fewer. `Refinement` maps the
insurer's answer to an init to `Request`, to a confirm to `Issue`, a recorded payment
to `Hold`, a request that goes out to `Come` and one that is refused or lost to `Fail`, and all
the rest, of tabs, network and backend, to a stutter. The answer takes its request from those on
their way (`AnswerTakesRequest`), so no request begins or ends cover twice; `Issue` finds the
premium held because a confirm goes out only after a recorded payment (`TripSound`).

**Only model-checked.** Every safety invariant and every action property of a passing run
is a theorem. What is left to TLC is liveness, since fairness and ENABLED are beyond this
prover. For each such property a theorem states the safety core, what the system
may never do if the property is to hold; that fairness then brings the end is what
the run shows:

| property | its safety core |
|---|---|
| `EveryCallReturns`, the liveness part of `ImplementsRequestReply` | `CallsEnd` |
| `NoKeyForever` | `KeysEnd` |
| `PendingIsDecided` | `CallbackFindsRow` |
| `PublishingEnds` | `PublishingIsOfACall`, `PublishingIsLeft` |
| `SpinnerEnds` | `SpinnerHasCause` |
| `PageCatchesUp` | `OldAnswersEnd` |
| `PaymentReachesInsurer` | `PaymentOnItsWay` |

## 5. Findings

1. **The subscriber is not ready** (`subscriber_ready`). `Register` is said to make the
   subscriber ready before the request goes out; it only sets a key. An answer
   that is faster than the acknowledgement is published to nobody, its key is deleted
   and the call times out.
2. **A payment recorded twice** (`payment_idempotent`). The idempotence check looks at
   `status = 'ACTIVE'`, but a recorded payment leaves the row PENDING_ISSUANCE. The
   gateway's webhook and the browser's redirect leave two rows.
3. **Settled without release** (`settled_released`). The result of the release call is
   dropped; the row says SETTLED and the payment status "funds released".
4. **Issued twice** (`issued_once`). The check for an already issued policy is
   made on a row read before; two confirms in flight issue two numbers.
5. **Pending forever** (`pending_awaited`). The row is inserted after the catalog service was
   asked and has perhaps answered; an answer that comes first updates nothing.

Worth knowing, though no text of the repository says otherwise: two transactions
may get the same policy number (`COUNT(*) + 1` read apart from the update), an
init on an ACTIVE policy ends its cover silently, and a confirm revives a cancelled
policy. A forward that takes longer than the 5 s between the two durations lets the key
expire under the waiting call: the answer is dropped and the call times out. A payment is
recorded, and a policy issued, on a report that no payment stands behind: the webhook does
not look at `transaction.status` and takes an unsigned post without Client-Id, `notify-direct`
and `payment-received` check nothing. `policies.doku_request_id`, by which the release is asked for,
may be the webhook's own Request-Id rather than the checkout's. In the publishing wizard, while
a panel leaves, its form and its duplicate check go by old lists: Next on `[a, b, c]`, then
Remove on the first card, Edit on the second and Save leave `[b, b]`; Next on `[A, B]`, then
Remove and Edit on the first card open a form with A that saves over B.

## 6. What is left

1. That the insurer of `TransactionService` may do all that `PolicyLifecycle` does. Both
   are shown to keep `CoverContract`, which says less than either.
2. The buyer's cancel, rate and support with their forms, and the policy list, once the
   payloads they show are modelled.
3. A second attempt of `handlePublish` beside the first, which leaving the publish page
   while it runs starts.

## 7. Not modelled

* **Premium** (`premium.go`): one floating-point expression over the product, the zone and
  the insured value; no step depends on its result, and TLA+ has no floating-point
  numbers to show a rounding error with.
* **Rendering**: the history, support and rating pages of both frontends; they show
  lists and change nothing the protocol depends on.
* **Accounts of the insurer's frontend**: two queries and a signed token. A login succeeds
  with a new token or is refused.
* **`HandleSearch`, `HandleSelect`, `HandleRate`, `HandleSupport`** and the buyer's
  discover, search, rate and support: reads, or single appends nothing else reads.
* **The policy list of the buyer** (`ListPolicies`): a view over payloads. A refused
  `on_confirm` appears in it as ACTIVE by default, which the hazard list names.
* **Dashboard figures** (`GetDashboardStats`): the sum over `payments` counts hold and
  issue rows of the same premium; the rows are modelled, the query is not.
* **`xendit.go`, `doku.go`** of the insurer: nothing calls them.
* **Adapters, configuration, infrastructure**: external. The models take from
  them that an exchange ends and that a message may be lost or late.
