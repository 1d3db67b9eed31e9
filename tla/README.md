# A TLA+ model of the shopping cart system

The system is a shop in three parts: a React client (`client/`), a catalog API in .NET
(`server-catalog/`) over SQL Server, and an orders API in NestJS (`server-orders/`) over
Elasticsearch. This directory models the parts of it whose correctness depends on the order in
which things happen, checks them with TLC on small instances, and proves the most important
results for all instances with TLAPS.

`PROJECT.json` lists the components, the runs, for every definition the source lines it
stands for, the bug (mutant) each property was seen to catch, the hazards and the theorems.

## 1. Inventory

| component | state | operations | what is hard about it |
|---|---|---|---|
| cart slice (`cartSlice.ts`) and store (`store.ts`) | one cart per tab and what the tab last rendered of it; one localStorage key per browser | five reducers; load at module creation; a subscriber that writes the key, before React's | several tabs write one key; stored values are untrusted; the key is read only once; a write may throw, in the middle of a dispatch |
| checkout (`CheckoutPage.tsx`, `checkoutFormSlice.ts`, `ordersApi.ts`) | form (Redux); errors, loading, confirmation (component) | edit, submit, leave, return, reload, start anew | the submit's continuation runs after an await, on whatever the tab is by then; answers get lost |
| product card and catalog page | none of their own that matters here | stepper, way to the checkout | - |
| product image (`ProductImage.tsx`) | the stage of its fallback chain | error events; an effect that starts over for a new product | events, effects and queued updates against a changing product |
| orders API, pipeline (`concurrency-limit.middleware.ts`, throttler, pipe, filter) | an in-flight counter | admit, refuse, release on `finish` and on `close` | two events per response, in any order; disconnecting clients |
| orders API, store (`orders.repository.ts`, `orders.service.ts`, `cursor.util.ts`) | the orders index | create; keyset pages, newest first | refresh is asynchronous; paging while orders arrive; cursors and limits from outside |
| orders API, validation (`create-order.dto.ts`, `order-item.dto.ts`) | none | accept or 400 | differs from the client's validation, and from what the index can hold |
| orders API, start-up (`onModuleInit`) | the index exists or not | wait, check, create | two instances; Elasticsearch that comes and goes |
| catalog API, cache (`CachingCategoryRepository.cs`) | one entry with a deadline | get through the cache | concurrent misses, late writes |
| catalog API, pages (`CategoryRepository.cs`, `CategoriesController.cs`) | the database | keyset pages, total | two queries per page |
| catalog API, limiters (`RateLimitingExtensions.cs`) | permits of the global limiter; a sliding window per client | acquire both, release, slide | one granted, the other refused; handlers that throw or whose client is gone |
| catalog API, seeding (`CatalogSeeder.cs`) | the database | migrate, check, insert | two instances, a crash between steps |
| health, logging, documentation, language, theme, schema | - | output only | - |

How they interact: the product card and the checkout page dispatch into the cart slice; the
store's subscriber writes localStorage after each dispatch that changed the cart; the
checkout page posts to the orders API and goes on when the promise settles; a request to the
orders API passes the middleware, the guard and the pipe before the controller, service and
repository run, and the repository awaits Elasticsearch. The catalog API is only read by the
catalog page; the two services do not talk to each other.

What makes each correct:

* cart: lines are well formed whatever was stored; the key is the cart of the tab that wrote
  last, and that tab shows it; a reload of that tab loses nothing.
* checkout: an order is what was on screen when the button was pressed, at most once per
  submit; a confirmation is only shown of a stored order and over an empty cart; an answer the
  page still waits for is confirmed, even if the emptied cart cannot be saved; after an error
  the cart is what the failed submit tried to order; no submit hangs; under a patient
  shopper and a sound network, checking out is one atomic move of the basket into an order.
* product image: it comes to rest, at the first of the product's images that is there.
* pipeline and limiters: counters are exact, caps are kept, nobody is refused while a slot is
  free, slots come back on every way out.
* order pages: newest first, no repetition, no gap, the walk ends, an answered order is listed.
* catalog: a served catalog is not older than the cache allows; a walk over the pages is
  complete; the catalog is seeded once, as long as the starts of its instances do not overlap.

## 2. Modules

| module | models | state, as in the code |
|---|---|---|
| `CartStore` | the slice, its persistence and its tabs | `cart[t]` the slice of tab `t`; `screen[t]` what `t` last rendered; `storage` the localStorage value; `open` the tabs alive; `writer` (history) who wrote last |
| `Checkout` | screens, form, requests, orders; extends `CartStore` | `form[t]` the form slice; `page[t]` route and component state of the mounted page; `request[r]` what submit `r` captured, and how far server and tab are; `orders` the index |
| `Shop` | what checking out promises | `basket`, `placed` |
| `PatientCheckout` | no code: how `Checkout` is seen as `Shop` | the basket is the cart of the only tab, or of the storage while it is closed; it is empty from the store of its order on, before `clearCart` |
| `ProductImage` | one `<img>` and its chain | `product`, `stage` of the last commit; `queued` where the updates since then lead; `effect` pending or not; `load` of the browser; `good` the images there are; `hasty` (history) |
| `OrdersApi` | the middleware and what holds its slots | `inFlight` the counter; `released[c]` the closure's flag; `fired[c]` events the response emitted; `stage[c]` |
| `CatalogLimits` | a request's way through the global limiter, its client's window and the handler | `at[r]`; `lease`, `free` of the global limiter; `left[k]`, `spent[k]` of the window of client `k`; `aborted` |
| `SlotPool` | what both concurrency limiters promise | `holders`, `refused` |
| `OrdersIndex` | create and the pages of `GET /orders` over an index with refreshes | `create[i]`, `createdAt[i]`; `searchable` what a search sees; `seen`, `cursor`, `walk` of a client that follows `nextCursor` |
| `OrdersStartup` | `onModuleInit` of several instances over an Elasticsearch that comes and goes | `ordersBoot[i]` stage and ping; `index`, `reachable`; `trouble` (history) who was cut off or forestalled |
| `CatalogCache` | the cached `GET /categories` | `entry` the cache entry and the seconds it has left; `call[r]` how far a call is, what it read, how long it has awaited; `catalog`, `age` of the catalogs in the database |
| `CatalogPages` | the pages of one category's products and a client that walks them | `products` in the database; `total`, `cursor`, `shown` as the client has them; `steady`, `calm` (history) what was there all along, whether anything changed |
| `CatalogStartup` | `SeedAsync` of several instances | `catalogBoot[i]`; `schema`, `copies` of the demo catalog; `overlapped` (history) |
| `MC*` | instances for TLC; `MCBrowser`, `MCLimiters`, `MCCatalogReads` and `MCStartup` put two modules into one run | |
| `*_proofs` | theorems | |

Each module has one action per handler, and names it after the handler or what it does for
the user. Some choices that shape the models:

* **A submit is cut at its await.** `Submit` is `handleSubmit` up to `createOrder(...)`;
  `Store`, `Refuse`, `Answer` and `Break` are what happens meanwhile; `Succeed` and `Fail` are
  the rest of the handler. `setConfirmed` and `setSubmitError` act only if the component that
  submitted is still mounted (`page[t].loading = r` says it is); `dispatch(clearCart())` acts on
  the tab's store in any case.
* **A page that is mounted anew is a new component**: `Visit` resets all its local state and
  gives it a mutation hook that is not loading. The form slice survives, the error does not.
* **A storage that refuses** (`MayNotSave`). `setItem` throws out of `dispatch` when
  `previousCartState` is the new cart already, so nothing tries again; subscribers are called in
  order, so React is not told and the screen stays (`FailToSave`). Any later rendering of the tab
  shows the cart as it is (`Rerender`, which is part of every action that renders). What a shopper
  sees, and a submit captures, is `screen`. In `Succeed` the throw comes from `clearCart` inside
  the `try`, after `setConfirmed`, and the catch clause runs too.
* **Quantities are counted in parts**, `One` of which make one: a stored quantity may be a
  fraction. `IsIndexable` is what `@IsInt`, `@Min(1)` and the `integer` mapping of the index
  let through (`MaxIndexed`).
* **A dispatch is one step with its write to localStorage**, because both run synchronously.
  Whether the subscriber writes depends on whether Immer returned a new object, so the actions
  say so: removing an absent line writes nothing, clearing an empty cart does write.
* **A middleware slot is given back by two events.** `OnEvent` is the release closure; `Finish`
  may come once the response is written, `Close` at any time the connection goes.
* **Limits are counted in halves** in `OrdersIndex`, since `Number(limit)` is not a whole
  number in general and `slice` and Elasticsearch round where the comparison with the number
  of hits does not.
* **An answer of the database is of one moment.** A query of the catalog API is one step of the
  database, and one of the process that resumes. `CategoryRepository` counts and reads in two such
  queries without a transaction; `MigrateAsync` and `SaveChangesAsync` are one step each, since the
  first takes a lock and the second is a transaction.
* **React is modelled as far as `ProductImage` relies on it.** A commit sets `src` and leaves the
  effect to a later task; updates queue until the next render, before which a pending effect runs.
  An error event that comes while the effect or an update is pending acts on a stage that is not
  shown: `hasty` remembers it, since what is shown in the end may then be a failed image (the run `product_image`).
* **The catalog's limiters have no queue**, as configured, so a request is permitted or refused at
  once. The framework asks them a second time before it refuses, which is counted as the only time.
  A client that disconnects cancels the handler's awaits, but the permit is the handler's until it is
  out. A sliding window gives back, segment by segment, what was spent a window ago.
* **Modules that share nothing share a run.** In `MCBrowser`, `MCLimiters` and `MCCatalogReads` a
  behaviour is one of either module, as `part` says, and the other stays at its start;
  `MCStartup` runs the starts of the two services side by side.

Data is abstracted: prices, names and units are one `snapshot` value; forms are model values of
which some pass the client's validation and some the server's; ids are small integers, whose
order is unrelated to the order of creation.

Operators whose comment begins with "Bug" are not part of the model. Each is a plausible
mistake in the definition that follows it; substituting it makes a property fail.

## 3. Runs

| run | instance | what it shows |
|---|---|---|
| `browser` | 2 tabs, 2 products, quantities of a half and of 1, any stored value, a storage that may refuse; or an image with 2 paths and 2 urls, any of them missing | `CartTypeOK`, `PersistedCart`, `ReloadRestoresCart`; `FallbackIsExact`, `ImageSettles` |
| `checkout` | 1 tab, 1 product, quantities to 3 halves, largest indexable 1, 2 submits, 3 forms; leaving, breaking and a refusing storage allowed | `CheckoutTypeOK`, `OrdersAreSubmitted`, `ConfirmedIsPlacedAndCleared`, `ErrorShowsTheFailedCart`, `AnsweredIsConfirmed`, `SubmitEnds` |
| `patient_checkout` | 1 tab, 2 products, 2 snapshots, quantities to 3 halves, largest indexable 1; no leaving, no breaking, a storage that never refuses | `SnapshotIsKept`; `ImplementsShop`: the checkout refines `Shop` |
| `limiters` | 3 calls, 2 slots; or 3 requests of 2 clients, 2 permits, windows of 2 permits in 2 segments | `ApiTypeOK`, `InFlightCountsHolders`, `ImplementsSlotPool`, `SlotsReturn`; `HandlersAreCapped`, `ImplementsPermitPool`, `PermitsReturn` |
| `catalog_reads` | 3 calls, 3 catalogs, time to live 2, queries up to 2; or 5 ids, limits 0, 1, 5, page sizes 2 (default) and 3 (largest) | `CacheTypeOK`, `AnswersAreRecent`, `CacheCatchesUp`; `PagesTypeOK`, `WalkShowsAll`, `TotalIsOfTheCategory`, `NothingComesAgain`, `WalkComesToAnEnd` |
| `startup` | 2 instances of each service, 2 pings | `OrdersStartTypeOK`, `ServesOverIndex`, `StartsFailForCause`, `OrdersStartsEnd`; `CatalogStartTypeOK`, `SeededOnce`, `ServesSeeded` |
| `orders_index` | 3 orders, 2 clock values, limits 0, 1/2, 1, 3/2 | `IndexTypeOK`, `WalkIsOrdered`, `WalkIsComplete`, `AnsweredIsListed`, `WalkEnds` |
| `checkout_error` | as `checkout`, with whole quantities and a storage that never refuses | the code breaks `ErrorMeansNotPlaced` |
| `checkout_confirmation` | as `checkout_error` | the code breaks `SuccessShowsConfirmation` |
| `orders_api_work` | 3 calls, 2 slots | the code breaks `WorkIsCapped` |
| `orders_cursor` | as `orders_index` | the code breaks `MalformedCursorIsRejected` |
| `product_image` | 2 paths and 2 urls | the code breaks `FailedIsFollowed` |

The last five runs refute something that the repository says of itself:

* `en.json` 48 says the order could not be placed; it may have been (`Submit`, `Store`,
  `Break`, `Fail`). Trying again then orders a second time.
* The client's README says that a success shows the confirmation. A shopper who went back to
  the catalog meanwhile gets none, and loses what was put in the cart since (`Submit`,
  `Navigate`, `AddToCart`, `Store`, `Answer`, `Succeed`).
* The middleware's comment calls it the backstop against more in-flight work than the process
  should hold. A client that disconnects gives its slot back while its Elasticsearch call goes
  on, so the work is not capped, only the open responses are.
* Two tests say a malformed cursor is answered with 400. `decodeCursor` checks for an array of
  two elements only; other values go through to Elasticsearch and come back as 500.
* `ProductImage.tsx` 12 says each source is tried after the one before failed. An error event
  between the mount and the effect is overwritten by the effect, which sets the stage to the first
  one again: `src` does not change, no event follows, and the broken image stays.

**Bounds, and why they are enough.** Two submits are the least that let one interfere with
another; the third form is one only the client accepts, so that a refusal can be the server's.
Quantities of one half to three halves, of which only 1 can be indexed, are fractions below and
above 1 and a number too large, with room for `-` to reach zero from either.
Two snapshots, in `patient_checkout`, tell a kept price from a new one. Two tabs are enough for the
key, since a tab only ever meets it as last written by itself or by another. Two paths and two urls
let a product change to one with another image at the same stage, or the same image. Three calls
against two slots, or requests against two permits, reach the cap, a refusal, and a slot that is
reused while a disconnected call still works; two clients tell one window from another, two
segments a permit spent lately from one about to come back.
Three orders and a page size of at most two give walks of several pages with an order arriving
in front of and at the cursor's timestamp; two clock values give equal and different timestamps.
In `OrdersIndex` the walk begins once. Three calls of the cache let one hold an old read while two
others miss, set and hit; the bound `Ttl + QueryTime` of `AnswersAreRecent` is reached but for one
second. With five product ids a walk takes up to five pages, and edits fall in front of, at and
behind the cursor. Two instances are what a race takes; two pings are a first one and a last one.

The caps on what would otherwise grow: `MaxQuantity` (guard of `Increment`), `MaxClock` (guard of
`Tick` in `OrdersIndex`), `MaxCatalog` (guard of `Edit`), `MaxId` of the products; `age` stops at
`TooOld`, where nothing tells ages apart any more. Deadlock is checked everywhere: no model stops.

**Fairness.** `CheckoutFairness` assumes that every request comes to an end and that a promise's
continuation runs as long as its tab lives: the Elasticsearch client has a timeout and bounded
retries, and the browser reports a dead connection. `ImageFairness` assumes that React runs its
tasks and that the browser ends every load, with a picture or an error. `ApiFairness` assumes that
the guard, the pipe and the handler end, and that Node emits `close` for a response that is done.
`LimitsFairness` assumes that a permitted request asks its window, where nothing waits, and that a
handler ends, which is the database's command timeout. `WalkFairness` assumes a client that goes on
reading, with a whole limit now and then: a fractional limit below one never makes progress.
`CacheFairness` assumes that time passes and that awaited queries end; that they end within
`QueryTime` is again the command timeout. `PagesFairness` assumes a client that goes on and a page
query that does not fail for ever (strong fairness, since a lost answer makes the client ask
again). `OrdersStartFairness` assumes only that pauses and calls of Elasticsearch end: nobody need
start an instance. A run of two modules states the fairness of each for the part that runs. Nothing
is assumed of shoppers, of clients otherwise, or of the arrival of orders.

## 4. Theorems

All are proved from the named assumptions of the modules only, which say no more than that the
special values differ from the ordinary ones, and that bounds are natural numbers. Only the
theorems of `PatientCheckout_proofs` have hypotheses besides, which they state.

* `CartStore_proofs`: `CartTypes`, `StorageFollowsWriter`, `ReloadRestores`. The invariant `CartInv`
  adds that a written key holds a cart (so that reading it back drops no line). A dispatch either
  writes, and its tab is then the writer; or changed nothing; or could not write, and its tab is the
  writer no more.
* `Checkout_proofs`: `CheckoutTypes`, `OrdersAreWhatWasSubmitted`, `ConfirmationIsTrue`,
  `RetryOrdersTheSame`, `AnswerConfirms`, `LinesKeepTheirSnapshots`, `LoadingIsAwaited`,
  `CheckoutKeepsStorage`, `CheckoutReloadRestores`. The properties are not inductive: an answer is
  only given for a stored order (`RequestsAreSound`), a page that is loading awaits a submit of its
  own tab which captured the cart that is still shown, or another success emptied it, what the
  checkout page shows is the cart or the cart is empty, and the catalog page has no checkout state
  (`PagesAreSound`). `CheckoutInv` is the conjunction; there is one lemma per action, and one
  (`CatalogStepInv`, `ForgetInv`, `ServerStep`, `SettleStep`, `RerenderedScreens`) for what several
  actions share. The two action properties follow from it: `OnlySettleSettles` says that only the
  submit's own continuation settles it, and `ShopperKeepsSnapshots` that of the shopper's steps only
  a reload reads snapshots anew. That a page which is loading has something to wait for
  (`NoPageWaitsInVain`) is inductive beside it. The last two say of the checkout, which contains
  `CartStore` but empties carts after an await, what `CartStore_proofs` says of the cart alone.
* `PatientCheckout_proofs`: three theorems under hypotheses, each the negation of a cause.
  `ErrorsAreTrueOnASoundNetwork` assumes `~ MayBreak`: an error on screen is then of a submit that
  was refused before its order was stored (`NetworkInv`). `SuccessConfirmsWhoeverStays` assumes
  `~ MayLeave`: the page that submitted is then still there, and waits (`PatienceInv`). So a broken
  exchange is all that makes the run `checkout_error` possible, and a page left all that makes
  `checkout_confirmation`; tabs, storage and the rest may do as they like. `CheckoutImplementsShop`
  assumes both, one tab and `~ MayNotSave` (`Undisturbed`), since `Shop` has one basket: a second
  tab has a cart of its own that a reload replaces, an order whose answer is lost stays in the
  basket, what was put in the cart during a submit is cleared with it, and a cart that could not be
  saved comes back with a reload. `ShopInv` adds to the two invariants that the screen is the cart,
  the storage is the cart, and a submit still awaited captured exactly the cart (`AwaitsItsCart`).
  `Store` is `Place`; the steppers are `Pick`; whatever else there is leaves the basket, the
  clearing of a cart whose order is stored included (`SettlingMovesNothing`).
* `Limiters_proofs`: `ApiTypes`, `CounterIsExact`, `ApiImplementsPool` for the orders API,
  `WorkOfTheConnectedIsCapped`, and `LimitsTypes`, `HandlersStayCapped`, `LimitsImplementPool` for
  the catalog API. The counter is the cardinality of the set of calls that hold a slot: each action
  adds to that set, removes from it, or leaves it. The refinement maps `Admit` to `Acquire`, the
  first of a response's events to `Release`, and everything else to a stutter. In the catalog,
  `free` and the leases add up to the limit (`PermitsAdd`), and whoever works has a lease
  (`LeasesAreUsed`); `Permit` is the `Acquire`, `Limit` and `End` the `Release`. Events come in
  their time only (`EventsComeInTime`), so that work whose client is connected still holds its slot:
  only a disconnect can exceed the cap, as in the run `orders_api_work`.
* `OrdersIndex_proofs`: `IndexTypes`, `PagesAreInOrder`, `PagesAreComplete`, `CreatedIsListed`,
  `EveryPageAdvances`, `FollowedCursorsAreAnswered`. A search is the first hits in order
  (`FirstHits`), which is shown by ranks: ranks count from 0, are different for different hits, and
  so none is left out. A page without a cursor is the last (`FirstPage`), and a walk has shown
  everything newer than its cursor that was searchable when it began (`CursorIsSound`), whatever
  limits it asks with. A page with a cursor is not empty and its cursor is older than the one it was
  asked with; a page is refused only for a cursor no page gave or a limit between zero and one.
* `ProductImage_proofs`: `ImageTypes`, `FallbackShowsTheFirst`, `UnhurriedFailureIsFollowed`.
  `ImageInv` says that, without haste, the updates lead to a stage all of whose predecessors are
  missing (`Reached`), and that a failure on screen is followed already.
* `CatalogReads_proofs`, the cache: `CacheTypes`, `AnswersRecent`. That answers are recent is an
  action property; it follows from what is known of everything that may be answered: the age of an
  entry and the seconds it has left never exceed `TooOld` together (`EntryExpires`), and the age of
  what a call has read never exceeds its wait (`ReadsAreFresh`). A late `Set` turns the second into
  the first; every `Tick` adds to one summand what it takes from the other.
* `CatalogReads_proofs`, the pages: `PagesTypes`, `WalkIsWhole`, `TotalIsRight`, `NothingTwice`,
  `CursorAdvances`. The walk has shown ids up to its cursor only, and all of those that were there
  all along (`ShownUpToCursor`); two lemmas say what a page is, `FullPage` (the products up to the
  next cursor) and `LastPage` (all that are left), by counting.
* `Startup_proofs`: `OrdersStartTypes`, `OrdersServeOverIndex`, `OrdersStartsFailForCause`,
  `CatalogStartTypes`, `CatalogIsSeededOnce`, `CatalogServesSeeded`. Who is about to create the
  index although it exists, or is cut off, is known to be in `trouble`; of the instances that found
  no category each stands for one copy to come (`CopiesToCome`), and without an overlap there is at
  most one of them and no copy yet (`SeederIsAlone`).

Every invariant, action property and refinement the passing runs check is stated by a theorem.
Left to TLC is liveness (`SubmitEnds`, `ImageSettles`, `SlotsReturn`, `PermitsReturn`, `WalkEnds`,
`CacheCatchesUp`, `WalkComesToAnEnd`, `OrdersStartsEnd`), which is out of the prover's reach. What
it rests on is proved where it is a matter of safety: `LoadingIsAwaited` for `SubmitEnds`,
`EveryPageAdvances` for `WalkEnds`, `CursorAdvances` for `WalkComesToAnEnd`, the refinements of
`SlotPool` for `SlotsReturn` and `PermitsReturn`; that the steps named by the fairness are taken
then remains to TLC.

## 5. What is not modelled

* Rendering, wording, translation, layout, logging, documentation, health endpoints, generated
  migrations and demo data: output or constants.
* The name in the confirmation, which is the one in the form by then (`CheckoutPage.tsx` 106).
* How configuration is parsed: a `MAX_CONCURRENT_REQUESTS` that is no number, a
  `CategoriesTtlSeconds` that is not positive, queues of the limiters that are longer than 0.
* The grammar of the validation rules: which forms pass is the parameters `ClientValid` and
  `ServerValid`; names and ids of an order always come from the catalog.
* The choice of a category and the retry on the catalog page (`CatalogPage.tsx`): a retry is only
  offered while nothing was loaded, and a loaded catalog is not fetched again under the page, so
  that the choice cannot outlive the categories it was made from.
* How many requests the throttler counts, which is the package's; Elasticsearch, SQL Server,
  React and the browser beyond what the code relies on.

## 6. Plan

What is left to do, in this order: the catalog page's category and retry, if it comes to keep
state of its own; client and server validation compared over a grammar of fields, which needs them as operators of strings.
