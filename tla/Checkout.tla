------------------------------ MODULE Checkout ------------------------------
(***************************************************************************)
(* Checking out: the catalog and checkout screens of each tab, the cart    *)
(* they read and change (CartStore), the POST /api/v1/orders requests they *)
(* send, and the orders index those requests end up in.                    *)
(*                                                                         *)
(* A submit is one run of handleSubmit (CheckoutPage.tsx 64-97) that got   *)
(* past validation.  It captures the form and the cart, awaits the answer, *)
(* and goes on with whatever page and cart the tab has by then: leaving    *)
(* the page does not cancel it, and a new visit to the page is a new       *)
(* component, with a mutation hook of its own that is not loading.  What   *)
(* the shopper sees and a submit captures is the cart on the screen.       *)
(***************************************************************************)
EXTENDS CartStore

CONSTANTS
    Submits,      \* the submits of the behaviour; the order a submit places has
                  \* a random UUID, for which the submit's own name stands
    Forms,        \* contents of the three fields
    EmptyForm,    \* the form after a reload or "Start a new order"
    ClientValid,  \* forms validateCheckoutForm finds no error in
    ServerValid,  \* forms the ValidationPipe accepts as a CreateOrderDto
    MaxIndexed,   \* the largest quantity the mapping of the index holds
    None,         \* no submit
    Unused,       \* a submit that has not happened
    MayLeave,     \* the shopper may leave or reload the page during a submit
    MayBreak      \* an exchange may break: the answer is lost, or is an error
                  \* although the index call went (or is yet to go) through

VARIABLES
    form,     \* form[t]: the slice checkoutForm (not persisted)
    page,     \* page[t]: the route, and the local state of the mounted CheckoutPage
    request,  \* request[r]: what r captured, and how far server and tab are with it
    orders    \* documents of the orders index

checkoutVars == <<form, page, request, orders>>
vars == <<cartVars, checkoutVars>>

Items == PartialFunctions(Products, 1..MaxQuantity)

Pages == [at : {"catalog", "checkout"}, errors : BOOLEAN, submitError : BOOLEAN,
          loading : Submits \cup {None}, confirmed : Submits \cup {None}]

Requests == [tab : Tabs, form : Forms, items : Items,
             server : {"received", "refused", "stored"},
             reply : {"pending", "created", "error", "settled", "abandoned"}]

ASSUME CheckoutAssumption ==
    /\ EmptyForm \in Forms
    /\ ClientValid \subseteq Forms \ {EmptyForm}
    /\ MaxIndexed \in Nat
    /\ None \notin Submits
    /\ MayLeave \in BOOLEAN
    /\ MayBreak \in BOOLEAN
    /\ Unused \notin Requests

Orders == [id : Submits, form : Forms, items : Items]

(* A page just mounted. *)
Visit(route) == [at |-> route, errors |-> FALSE, submitError |-> FALSE,
                 loading |-> None, confirmed |-> None]

(* The items of the request body: cart lines without their prices. *)
OrderItems(c) == [p \in DOMAIN c |-> c[p].quantity]

(* Quantities are whole, at least 1, and fit an integer of the index. *)
IsIndexable(items) ==
    \A p \in DOMAIN items : items[p] % One = 0 /\ items[p] <= MaxIndexed * One

Sent == {r \in Submits : request[r] # Unused}

(* Submits of tab t whose continuation has still to run. *)
Awaiting(t) ==
    {r \in Sent : request[r].tab = t /\ request[r].reply \in {"pending", "created", "error"}}

FormShown(t) ==
    /\ t \in open
    /\ page[t].at = "checkout"
    /\ page[t].confirmed = None
    /\ ~ IsEmpty(screen[t])

(* The button is disabled while this component's mutation is loading. *)
CanSubmit(t) == FormShown(t) /\ page[t].loading = None

-----------------------------------------------------------------------------
CheckoutInit ==
    /\ CartInit
    /\ form = [t \in Tabs |-> EmptyForm]
    /\ page = [t \in Tabs |-> Visit("catalog")]
    /\ request = [r \in Submits |-> Unused]
    /\ orders = {}

(* Catalog screen: the stepper of a product card.  "-" is disabled at 0. *)
AddToCart(t, p, s) ==
    /\ page[t].at = "catalog"
    /\ Increment(t, p, s)
    /\ UNCHANGED checkoutVars

StepDown(t, p) ==
    /\ page[t].at = "catalog"
    /\ p \in DOMAIN screen[t]
    /\ Decrement(t, p)
    /\ UNCHANGED checkoutVars

(* Bug: the page's state outlives the component. *)
NavigateKeepingState(t, route) ==
    /\ t \in open
    /\ page[t].at # route
    /\ page' = [page EXCEPT ![t].at = route]
    /\ Rerender(t)
    /\ UNCHANGED <<form, request, orders>>

(* Leaving the tab's current page, by a button or the browser's history.   *)
(* "Back to catalog" is never disabled.  The mounted component goes, and   *)
(* with it its local state; its submits go on.                             *)
Navigate(t, route) ==
    /\ t \in open
    /\ page[t].at # route
    /\ MayLeave \/ Awaiting(t) = {}
    /\ page' = [page EXCEPT ![t] = Visit(route)]
    /\ Rerender(t)
    /\ UNCHANGED <<form, request, orders>>

(* A category is chosen, or a language. *)
Look(t) == Rerender(t) /\ UNCHANGED checkoutVars

(* Opening a tab, reloading or closing it: its memory is gone, and with it *)
(* the submits it awaits; their requests may be at the server already.     *)
Forget(t) ==
    /\ MayLeave \/ Awaiting(t) = {}
    /\ form' = [form EXCEPT ![t] = EmptyForm]
    /\ request' = [r \in Submits |->
           IF r \in Awaiting(t) THEN [request[r] EXCEPT !.reply = "abandoned"] ELSE request[r]]
    /\ UNCHANGED orders

Reload(t, route) ==
    /\ OpenTab(t)
    /\ Forget(t)
    /\ page' = [page EXCEPT ![t] = Visit(route)]

Close(t) ==
    /\ CloseTab(t)
    /\ Forget(t)
    /\ page' = [page EXCEPT ![t] = Visit("catalog")]

(* setCheckoutField; the fields stay enabled while a submit is awaited. *)
EditForm(t, f) ==
    /\ FormShown(t)
    /\ form' = [form EXCEPT ![t] = f]
    /\ Rerender(t)
    /\ UNCHANGED <<page, request, orders>>

(* handleSubmit up to its await. *)
SubmitInvalid(t) ==
    /\ CanSubmit(t)
    /\ form[t] \notin ClientValid
    /\ page' = [page EXCEPT ![t].errors = TRUE]
    /\ Rerender(t)
    /\ UNCHANGED <<form, request, orders>>

Submit(t, r) ==
    /\ CanSubmit(t)
    /\ form[t] \in ClientValid
    /\ request[r] = Unused
    /\ page' = [page EXCEPT ![t] =
           [@ EXCEPT !.errors = FALSE, !.submitError = FALSE, !.loading = r]]
    /\ request' = [request EXCEPT ![r] =
           [tab |-> t, form |-> form[t], items |-> OrderItems(screen[t]),
            server |-> "received", reply |-> "pending"]]
    /\ Rerender(t)
    /\ UNCHANGED <<form, orders>>

-----------------------------------------------------------------------------
(* server-orders.  A request is turned away before anything is stored, by  *)
(* validation (400), the limiters (429, 503) or Elasticsearch, which is    *)
(* not there or finds a number too large (500), or its document is indexed.*)
Refuse(r) ==
    /\ r \in Sent
    /\ request[r].server = "received"
    /\ request' = [request EXCEPT
           ![r].server = "refused",
           ![r].reply = IF @ = "pending" THEN "error" ELSE @]
    /\ UNCHANGED <<cartVars, form, page, orders>>

(* Bug: the body is put together when it is used, not when it is sent. *)
StoreCurrentCart(r) ==
    /\ r \in Sent
    /\ request[r].server = "received"
    /\ orders' = orders \cup {[id |-> r, form |-> form[request[r].tab],
                               items |-> OrderItems(cart[request[r].tab])]}
    /\ request' = [request EXCEPT ![r].server = "stored"]
    /\ UNCHANGED <<cartVars, form, page>>

Store(r) ==
    /\ r \in Sent
    /\ request[r].server = "received"
    /\ request[r].form \in ServerValid
    /\ IsIndexable(request[r].items)
    /\ orders' = orders \cup {[id |-> r, form |-> request[r].form, items |-> request[r].items]}
    /\ request' = [request EXCEPT ![r].server = "stored"]
    /\ UNCHANGED <<cartVars, form, page>>

(* Bug: the handler does not await the index call. *)
AnswerAtOnce(r) ==
    /\ r \in Sent
    /\ request[r].reply = "pending"
    /\ request' = [request EXCEPT ![r].reply = "created"]
    /\ UNCHANGED <<cartVars, form, page, orders>>

(* The 201 is back at the tab. *)
Answer(r) ==
    /\ r \in Sent
    /\ request[r].server = "stored"
    /\ request[r].reply = "pending"
    /\ request' = [request EXCEPT ![r].reply = "created"]
    /\ UNCHANGED <<cartVars, form, page, orders>>

(* The tab gets a connection error, or a 500 from an index call that       *)
(* failed after, or will take effect after, the caller gave up on it.      *)
Break(r) ==
    /\ MayBreak
    /\ r \in Sent
    /\ request[r].reply = "pending"
    /\ request' = [request EXCEPT ![r].reply = "error"]
    /\ UNCHANGED <<cartVars, form, page, orders>>

-----------------------------------------------------------------------------
(* handleSubmit after its await, in tab t: shown is what the setters make  *)
(* of the component that submitted, if it is still mounted.                *)
AfterAwait(t, r, shown) ==
    /\ page' = IF page[t].loading = r THEN [page EXCEPT ![t] = shown] ELSE page
    /\ request' = [request EXCEPT ![r].reply = "settled"]
    /\ UNCHANGED <<form, orders>>

(* Bug: the cart is cleared first, and a throw there skips setConfirmed. *)
SucceedClearingFirst(t, r) ==
    /\ r \in Awaiting(t)
    /\ request[r].reply = "created"
    /\ \/ /\ Save(t, EmptyCart, TRUE)
          /\ AfterAwait(t, r, [page[t] EXCEPT !.confirmed = r, !.loading = None])
       \/ /\ FailToSave(t, EmptyCart)
          /\ AfterAwait(t, r, [page[t] EXCEPT !.submitError = TRUE, !.loading = None])
          /\ screen' = [screen EXCEPT ![t] = EmptyCart]

(* setConfirmed, then clearCart, on the tab's cart of now.  If that throws *)
(* the catch clause goes on to setSubmitError; React, not told of the      *)
(* empty cart, shows it only where the setters render.                     *)
Succeed(t, r) ==
    /\ r \in Awaiting(t)
    /\ request[r].reply = "created"
    /\ \/ /\ Save(t, EmptyCart, TRUE)
          /\ AfterAwait(t, r, [page[t] EXCEPT !.confirmed = r, !.loading = None])
       \/ /\ FailToSave(t, EmptyCart)
          /\ AfterAwait(t, r, [page[t] EXCEPT !.confirmed = r, !.submitError = TRUE,
                                             !.loading = None])
          /\ screen' = [screen EXCEPT ![t] =
                           IF page[t].loading = r THEN EmptyCart ELSE cart[t]]

Fail(t, r) ==
    /\ r \in Awaiting(t)
    /\ request[r].reply = "error"
    /\ AfterAwait(t, r, [page[t] EXCEPT !.submitError = TRUE, !.loading = None])
    /\ Rerender(t)

(* "Start a new order", on the confirmation. *)
StartNewOrder(t) ==
    /\ t \in open
    /\ page[t].confirmed # None
    /\ form' = [form EXCEPT ![t] = EmptyForm]
    /\ page' = [page EXCEPT ![t] = Visit("catalog")]
    /\ Rerender(t)
    /\ UNCHANGED <<request, orders>>

-----------------------------------------------------------------------------
Shopper(t) ==
    \/ \E p \in Products : StepDown(t, p) \/ \E s \in Snapshots : AddToCart(t, p, s)
    \/ \E route \in {"catalog", "checkout"} : Navigate(t, route) \/ Reload(t, route)
    \/ Close(t)
    \/ Look(t)
    \/ \E f \in Forms : EditForm(t, f)
    \/ SubmitInvalid(t)
    \/ \E r \in Submits : Submit(t, r)
    \/ StartNewOrder(t)

Server(r) == Refuse(r) \/ Store(r) \/ Answer(r)

Settle(t, r) == Succeed(t, r) \/ Fail(t, r)

CheckoutNext ==
    \/ \E t \in Tabs : Shopper(t)
    \/ \E r \in Submits : Server(r) \/ Break(r)
    \/ \E t \in Tabs, r \in Submits : Settle(t, r)

CheckoutSpec == CheckoutInit /\ [][CheckoutNext]_vars

(* The server and the network bring every request to some end: the         *)
(* Elasticsearch client has a request timeout and a bounded number of      *)
(* retries, a dead connection is reported, and a promise's continuation    *)
(* runs as long as its tab lives.  The shopper owes nobody anything.       *)
CheckoutFairness ==
    /\ \A r \in Submits : WF_vars(Server(r) \/ Break(r))
    /\ \A t \in Tabs, r \in Submits : WF_vars(Settle(t, r))

FairCheckoutSpec == CheckoutSpec /\ CheckoutFairness

-----------------------------------------------------------------------------
CheckoutTypeOK ==
    /\ CartTypeOK
    /\ form \in [Tabs -> Forms]
    /\ page \in [Tabs -> Pages]
    /\ request \in [Submits -> Requests \cup {Unused}]
    /\ orders \subseteq Orders

(* However often exchanges break and pages are left, each submit places at *)
(* most one order, of exactly what the shopper saw when pressing the       *)
(* button, and only one that both validations and the index let through,   *)
(* whatever quantities were read back from storage: a late store never     *)
(* picks up the cart or the form of a later moment.                        *)
OrdersAreSubmitted ==
    /\ \A o \in orders :
          /\ o.id \in Sent
          /\ request[o.id].server = "stored"
          /\ o.form = request[o.id].form
          /\ o.items = request[o.id].items
          /\ o.form \in ClientValid \cap ServerValid
          /\ DOMAIN o.items # {} /\ IsIndexable(o.items)
    /\ \A o1, o2 \in orders : o1.id = o2.id => o1 = o2

(* While the confirmation of an order is on screen the order is in the     *)
(* index and the cart is empty, so that nothing of it can be ordered again *)
(* from this tab (CheckoutPage.tsx 88-89, 99-119).                         *)
ConfirmedIsPlacedAndCleared ==
    \A t \in Tabs : page[t].confirmed # None =>
        /\ \E o \in orders : o.id = page[t].confirmed
        /\ IsEmpty(cart[t])

(* While an error is shown, the cart on the screen is what the failed      *)
(* submit tried to order, so that trying again orders the same - or it is  *)
(* empty, when another submit of the tab succeeded meanwhile, or this one  *)
(* did and only its cart could not be saved (CheckoutPage.tsx 87-96).      *)
ErrorShowsTheFailedCart ==
    \A t \in Tabs : page[t].submitError =>
        \/ IsEmpty(screen[t])
        \/ \E r \in Sent : /\ request[r].tab = t
                           /\ request[r].reply = "settled"
                           /\ request[r].items = OrderItems(screen[t])

(* A submit whose answer came and whose page still waits for it ends       *)
(* confirmed there and over an empty cart, even when emptying the stored   *)
(* cart throws: never as an error, on which it would be tried again        *)
(* (CheckoutPage.tsx 75-97).                                               *)
AnsweredIsConfirmed ==
    [][\A t \in Tabs, r \in Submits :
          page[t].loading = r /\ r \in Awaiting(t) /\ request[r].reply = "created"
          /\ request'[r].reply = "settled"
          => page'[t].confirmed = r /\ IsEmpty(cart'[t]) /\ IsEmpty(screen'[t])]_vars

(* A snapshot taken when a line was added stays with it until the line     *)
(* goes or the tab is reloaded, so the summary shows what the shopper saw  *)
(* (cartSlice.ts 8-10, client/README.md "price the shopper actually saw"). *)
SnapshotIsKept ==
    [][\A t \in open, p \in Products :
          p \in DOMAIN cart[t] \cap DOMAIN cart'[t]
          => \/ cart'[t][p].snapshot = cart[t][p].snapshot
             \/ \E route \in {"catalog", "checkout"} : Reload(t, route)]_vars

(* The submit button does not stay disabled: every submit comes to an end  *)
(* the page shows, unless the shopper leaves it first.                     *)
SubmitEnds == \A t \in Tabs : page[t].loading # None ~> page[t].loading = None

-----------------------------------------------------------------------------
(* Claims the code does not keep. *)

(* client/src/i18n/locales/en.json 48: the error shown after a failed      *)
(* submit says that it did not place the order.                            *)
ErrorMeansNotPlaced ==
    \A t \in Tabs : FormShown(t) /\ page[t].submitError =>
        \E r \in Sent : /\ request[r].tab = t
                       /\ request[r].reply = "settled"
                       /\ \A o \in orders : o.id # r

(* client/README.md 17: on success the screen shows the confirmation with  *)
(* the new order's id and empties the cart.                                *)
SuccessShowsConfirmation ==
    [][\A t \in Tabs, r \in Submits : Succeed(t, r) => page'[t].confirmed = r]_vars
=============================================================================
