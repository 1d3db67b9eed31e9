--------------------------- MODULE Checkout_proofs ---------------------------
(***************************************************************************)
(* For any number of tabs and submits, whatever the shopper does and       *)
(* whatever the network loses: orders are exactly what was submitted, once *)
(* each, and a confirmation is only ever shown of an order that is stored  *)
(* and over a cart that is empty.                                          *)
(***************************************************************************)
EXTENDS Checkout, CartStore_proofs

(* What the requests know: a submit that was sent had a valid form and     *)
(* something in the cart; a stored one has its order; a 201 is only given  *)
(* for a stored one.                                                       *)
RequestsAreSound ==
    \A r \in Sent :
        /\ request[r].form \in ClientValid
        /\ DOMAIN request[r].items # {}
        /\ request[r].server = "stored" => \E o \in orders : o.id = r
        /\ request[r].reply = "created" => request[r].server = "stored"

(* What a page knows: only the mounted checkout page has local state; a    *)
(* page that is loading awaits a submit of its own tab, which captured the *)
(* cart that is still shown, unless another submit's success emptied it;   *)
(* and what the checkout page shows is the cart, unless that is empty by   *)
(* now and could not be saved.                                             *)
PagesAreSound ==
    \A t \in Tabs :
        /\ page[t].at = "catalog" => /\ page[t].loading = None
                                     /\ page[t].confirmed = None
                                     /\ ~ page[t].submitError
        /\ page[t].loading # None =>
              /\ page[t].loading \in Sent
              /\ request[page[t].loading].tab = t
              /\ \/ IsEmpty(screen[t])
                 \/ request[page[t].loading].items = OrderItems(screen[t])
        /\ page[t].at = "checkout" => screen[t] = cart[t] \/ IsEmpty(cart[t])

CheckoutInv ==
    /\ CartInv
    /\ CheckoutTypeOK
    /\ OrdersAreSubmitted
    /\ RequestsAreSound
    /\ PagesAreSound
    /\ ConfirmedIsPlacedAndCleared
    /\ ErrorShowsTheFailedCart

-----------------------------------------------------------------------------
(* The items of an order are the units of the cart. *)
LEMMA OrderItemsType ==
  ASSUME NEW c \in Carts
  PROVE  OrderItems(c) \in Items /\ DOMAIN OrderItems(c) = DOMAIN c
  <1>1. DOMAIN c \subseteq Products /\ c \in [DOMAIN c -> Lines]
    BY PartialFunctionElim DEF Carts
  <1>2. OrderItems(c) \in [DOMAIN c -> 1..MaxQuantity]
    BY <1>1 DEF OrderItems, Lines
  <1>3. DOMAIN c \in SUBSET Products
    BY <1>1
  <1>4. QED
    BY <1>2, <1>3, PartialFunctionIntro DEF Items

LEMMA CheckoutInitInv == CheckoutInit => CheckoutInv
  <1>1. SUFFICES ASSUME CheckoutInit PROVE CheckoutInv
    OBVIOUS
  <1>2. CartInv
    BY <1>1, CartInitInv DEF CheckoutInit
  <1>3. Sent = {}
    BY <1>1 DEF CheckoutInit, Sent
  <1>4. CheckoutTypeOK
    <2>1. Visit("catalog") \in Pages
      BY DEF Visit, Pages
    <2>2. QED
      BY <1>1, <1>2, <2>1, CheckoutAssumption DEF CartInv, CheckoutInit, CheckoutTypeOK
  <1>5. OrdersAreSubmitted /\ RequestsAreSound
    BY <1>1, <1>3 DEF CheckoutInit, OrdersAreSubmitted, RequestsAreSound
  <1>6. PagesAreSound /\ ConfirmedIsPlacedAndCleared /\ ErrorShowsTheFailedCart
    BY <1>1 DEF CheckoutInit, Visit, PagesAreSound, ConfirmedIsPlacedAndCleared,
                ErrorShowsTheFailedCart
  <1>7. QED
    BY <1>2, <1>4, <1>5, <1>6 DEF CheckoutInv

(* A step that leaves requests and orders alone leaves what is said of     *)
(* them. *)
LEMMA SameRequests ==
  ASSUME CheckoutInv, UNCHANGED <<request, orders>>
  PROVE  OrdersAreSubmitted' /\ RequestsAreSound'
  BY DEF CheckoutInv, OrdersAreSubmitted, RequestsAreSound, Sent

(* A step of the catalog page on its tab's cart. *)
LEMMA CatalogStepInv ==
  ASSUME CheckoutInv, NEW t \in Tabs, page[t].at = "catalog", CartInv',
         UNCHANGED checkoutVars,
         \A u \in Tabs \ {t} : cart'[u] = cart[u] /\ screen'[u] = screen[u]
  PROVE  CheckoutInv'
  <1>1. CheckoutTypeOK'
    BY DEF CheckoutInv, CheckoutTypeOK, checkoutVars, CartInv
  <1>2. OrdersAreSubmitted' /\ RequestsAreSound'
    BY SameRequests DEF checkoutVars
  <1>3. PagesAreSound'
    BY DEF CheckoutInv, PagesAreSound, checkoutVars, Sent
  <1>4. ConfirmedIsPlacedAndCleared' /\ ErrorShowsTheFailedCart'
    BY DEF CheckoutInv, PagesAreSound, ConfirmedIsPlacedAndCleared,
           ErrorShowsTheFailedCart, checkoutVars, Sent
  <1>5. QED
    BY <1>1, <1>2, <1>3, <1>4 DEF CheckoutInv

LEMMA AddToCartInv ==
  ASSUME CheckoutInv, NEW t \in Tabs, NEW p \in Products, NEW s \in Snapshots,
         AddToCart(t, p, s)
  PROVE  CheckoutInv'
  <1>1. CartInv'
    BY ReducerInv DEF CheckoutInv, AddToCart
  <1>2. \A u \in Tabs \ {t} : cart'[u] = cart[u] /\ screen'[u] = screen[u]
    BY DEF CheckoutInv, CartInv, CartTypeOK, AddToCart, Increment, Dispatch, Save, FailToSave
  <1>3. QED
    BY <1>1, <1>2, CatalogStepInv DEF AddToCart

LEMMA StepDownInv ==
  ASSUME CheckoutInv, NEW t \in Tabs, NEW p \in Products, StepDown(t, p)
  PROVE  CheckoutInv'
  <1>1. CartInv'
    BY ReducerInv DEF CheckoutInv, StepDown
  <1>2. \A u \in Tabs \ {t} : cart'[u] = cart[u] /\ screen'[u] = screen[u]
    BY DEF CheckoutInv, CartInv, CartTypeOK, StepDown, Decrement, Dispatch, Save, FailToSave
  <1>3. QED
    BY <1>1, <1>2, CatalogStepInv DEF StepDown

-----------------------------------------------------------------------------
(* Pages. *)

(* What a rendering changes: nothing, or an outdated cart gives way to an  *)
(* empty one.                                                              *)
LEMMA RerenderedScreens ==
  ASSUME CheckoutInv, NEW t \in Tabs, Rerender(t)
  PROVE  /\ CartInv' /\ cart' = cart
         /\ screen'[t] = cart[t]
         /\ \A u \in Tabs \ {t} : screen'[u] = screen[u]
         /\ \A u \in Tabs : page[u].at = "checkout" =>
               /\ screen'[u] = screen[u] \/ IsEmpty(screen'[u])
               /\ screen'[u] = cart'[u] \/ IsEmpty(cart'[u])
  <1>1. CartInv' /\ cart' = cart
    BY RerenderInv DEF CheckoutInv
  <1>2. screen'[t] = cart[t] /\ \A u \in Tabs \ {t} : screen'[u] = screen[u]
    BY DEF CheckoutInv, CartInv, CartTypeOK, Rerender
  <1>3. QED
    BY <1>1, <1>2 DEF CheckoutInv, PagesAreSound

LEMMA NavigateInv ==
  ASSUME CheckoutInv, NEW t \in Tabs, NEW route \in {"catalog", "checkout"},
         Navigate(t, route)
  PROVE  CheckoutInv'
  <1>1. CartInv' /\ cart' = cart /\ screen'[t] = cart[t]
        /\ \A u \in Tabs \ {t} : screen'[u] = screen[u]
    BY RerenderedScreens DEF Navigate
  <1>2. Visit(route) \in Pages
    BY DEF Visit, Pages
  <1>3. CheckoutTypeOK'
    BY <1>1, <1>2 DEF CheckoutInv, CheckoutTypeOK, CartInv, Navigate
  <1>4. OrdersAreSubmitted' /\ RequestsAreSound'
    BY SameRequests DEF Navigate
  <1>5. PagesAreSound' /\ ConfirmedIsPlacedAndCleared' /\ ErrorShowsTheFailedCart'
    BY <1>1 DEF CheckoutInv, CheckoutTypeOK, PagesAreSound, ConfirmedIsPlacedAndCleared,
                ErrorShowsTheFailedCart, Navigate, Visit, Sent
  <1>6. QED
    BY <1>1, <1>3, <1>4, <1>5 DEF CheckoutInv

(* Abandoning the submits a tab awaits changes nothing else of a request,  *)
(* and nothing at all of the submits of other tabs.                        *)
LEMMA ForgetRequests ==
  ASSUME CheckoutInv, NEW t \in Tabs, Forget(t)
  PROVE  /\ request' \in [Submits -> Requests \cup {Unused}]
         /\ Sent' = Sent
         /\ \A r \in Sent :
               /\ request'[r].tab = request[r].tab
               /\ request'[r].form = request[r].form
               /\ request'[r].items = request[r].items
               /\ request'[r].server = request[r].server
               /\ request'[r].reply \in {request[r].reply, "abandoned"}
               /\ request[r].tab # t => request'[r] = request[r]
  <1> USE DEF Awaiting
  <1>1. request \in [Submits -> Requests \cup {Unused}]
    BY DEF CheckoutInv, CheckoutTypeOK
  <1>2. ASSUME NEW r \in Sent
        PROVE  /\ request'[r] \in Requests
               /\ request'[r].tab = request[r].tab
               /\ request'[r].form = request[r].form
               /\ request'[r].items = request[r].items
               /\ request'[r].server = request[r].server
               /\ request'[r].reply \in {request[r].reply, "abandoned"}
               /\ request[r].tab # t => request'[r] = request[r]
    BY <1>1 DEF Forget, Sent, Requests
  <1>3. ASSUME NEW r \in Submits \ Sent PROVE request'[r] = Unused
    BY <1>1 DEF Forget, Sent
  <1>4. request' = [r \in Submits |-> request'[r]]
    BY DEF Forget
  <1>5. request' \in [Submits -> Requests \cup {Unused}]
    BY <1>2, <1>3, <1>4
  <1>6. Sent' = Sent
    BY <1>2, <1>3, CheckoutAssumption DEF Sent
  <1>7. QED
    BY <1>2, <1>5, <1>6

(* A reload or a closing, once the cart is seen to. *)
LEMMA ForgetInv ==
  ASSUME CheckoutInv, NEW t \in Tabs, NEW route \in {"catalog", "checkout"},
         Forget(t), page' = [page EXCEPT ![t] = Visit(route)],
         CartInv', screen'[t] = cart'[t],
         \A u \in Tabs \ {t} : cart'[u] = cart[u] /\ screen'[u] = screen[u]
  PROVE  CheckoutInv'
  <1>1. Visit(route) \in Pages
    BY DEF Visit, Pages
  <1>2. CheckoutTypeOK'
    BY <1>1, ForgetRequests, CheckoutAssumption
       DEF CheckoutInv, CheckoutTypeOK, CartInv, Forget
  <1>3. orders' = orders
    BY DEF Forget
  <1>4. OrdersAreSubmitted' /\ RequestsAreSound'
    BY <1>3, ForgetRequests DEF CheckoutInv, OrdersAreSubmitted, RequestsAreSound
  <1>5. ASSUME NEW u \in Tabs, u # t
        PROVE  page'[u] = page[u] /\ cart'[u] = cart[u] /\ screen'[u] = screen[u]
    BY <1>5 DEF CheckoutInv, CheckoutTypeOK
  <1>6. /\ page'[t].at = route /\ page'[t].loading = None
        /\ page'[t].confirmed = None /\ page'[t].submitError = FALSE
    BY DEF CheckoutInv, CheckoutTypeOK, Visit
  <1>7. PagesAreSound'
    BY <1>5, <1>6, ForgetRequests DEF CheckoutInv, PagesAreSound
  <1>8. ConfirmedIsPlacedAndCleared'
    BY <1>3, <1>5, <1>6 DEF CheckoutInv, ConfirmedIsPlacedAndCleared
  <1>9. ErrorShowsTheFailedCart'
    <2>1. SUFFICES ASSUME NEW u \in Tabs, page'[u].submitError, ~ IsEmpty(screen'[u])
                   PROVE  \E r \in Sent' : /\ request'[r].tab = u
                                           /\ request'[r].reply = "settled"
                                           /\ request'[r].items = OrderItems(screen'[u])
      BY DEF ErrorShowsTheFailedCart
    <2>2. u # t
      BY <1>6, <2>1
    <2>3. PICK r \in Sent : /\ request[r].tab = u
                            /\ request[r].reply = "settled"
                            /\ request[r].items = OrderItems(screen[u])
      BY <1>5, <2>1, <2>2 DEF CheckoutInv, ErrorShowsTheFailedCart
    <2>4. request'[r] = request[r] /\ r \in Sent'
      BY <2>2, <2>3, ForgetRequests
    <2>5. QED
      BY <1>5, <2>2, <2>3, <2>4
  <1>10. QED
    BY <1>2, <1>4, <1>7, <1>8, <1>9 DEF CheckoutInv

LEMMA ReloadInv ==
  ASSUME CheckoutInv, NEW t \in Tabs, NEW route \in {"catalog", "checkout"},
         Reload(t, route)
  PROVE  CheckoutInv'
  <1>1. CartInv'
    BY OpenTabInv DEF CheckoutInv, Reload
  <1>2. /\ screen'[t] = cart'[t]
        /\ \A u \in Tabs \ {t} : cart'[u] = cart[u] /\ screen'[u] = screen[u]
    BY DEF CheckoutInv, CartInv, CartTypeOK, Reload, OpenTab
  <1>3. QED
    BY <1>1, <1>2, ForgetInv DEF Reload

LEMMA CloseInv ==
  ASSUME CheckoutInv, NEW t \in Tabs, Close(t)
  PROVE  CheckoutInv'
  <1>1. CartInv'
    BY CloseTabInv DEF CheckoutInv, Close
  <1>2. /\ screen'[t] = cart'[t]
        /\ \A u \in Tabs \ {t} : cart'[u] = cart[u] /\ screen'[u] = screen[u]
    BY DEF CheckoutInv, CartInv, CartTypeOK, Close, CloseTab
  <1>3. QED
    BY <1>1, <1>2, ForgetInv DEF Close

(* Looking around, typing, a rejected submit, and the way out of a         *)
(* confirmation.                                                           *)
LEMMA FormStepInv ==
  ASSUME CheckoutInv, NEW t \in Tabs,
         Look(t) \/ SubmitInvalid(t) \/ StartNewOrder(t) \/ \E f \in Forms : EditForm(t, f)
  PROVE  CheckoutInv'
  <1> USE DEF Look, checkoutVars
  <1>1. /\ CartInv' /\ cart' = cart
        /\ screen'[t] = cart[t]
        /\ \A u \in Tabs : page[u].at = "checkout" =>
              /\ screen'[u] = screen[u] \/ IsEmpty(screen'[u])
              /\ screen'[u] = cart'[u] \/ IsEmpty(cart'[u])
    BY RerenderedScreens DEF SubmitInvalid, StartNewOrder, EditForm
  <1>2. Visit("catalog") \in Pages
    BY DEF Visit, Pages
  <1>3. CheckoutTypeOK'
    <2>1. form' \in [Tabs -> Forms]
      BY CheckoutAssumption
         DEF CheckoutInv, CheckoutTypeOK, SubmitInvalid, StartNewOrder, EditForm
    <2>2. page' \in [Tabs -> Pages]
      <3>1. CASE SubmitInvalid(t)
        BY <3>1 DEF CheckoutInv, CheckoutTypeOK, SubmitInvalid, Pages
      <3>2. CASE ~ SubmitInvalid(t)
        BY <1>2, <3>2 DEF CheckoutInv, CheckoutTypeOK, StartNewOrder, EditForm
      <3>3. QED
        BY <3>1, <3>2
    <2>3. QED
      BY <1>1, <2>1, <2>2 DEF CheckoutInv, CheckoutTypeOK, CartInv,
         SubmitInvalid, StartNewOrder, EditForm
  <1>4. OrdersAreSubmitted' /\ RequestsAreSound'
    BY SameRequests DEF SubmitInvalid, StartNewOrder, EditForm
  <1>5. /\ request' = request /\ orders' = orders
        /\ \A u \in Tabs : \/ /\ page'[u].at = page[u].at
                              /\ page'[u].loading = page[u].loading
                              /\ page'[u].confirmed = page[u].confirmed
                              /\ page'[u].submitError = page[u].submitError
                           \/ /\ page'[u].at = "catalog"
                              /\ page'[u].loading = None
                              /\ page'[u].confirmed = None
                              /\ page'[u].submitError = FALSE
    BY DEF CheckoutInv, CheckoutTypeOK, Pages, Visit, SubmitInvalid, StartNewOrder, EditForm
  <1>6. \A u \in Tabs : page[u].at \in {"catalog", "checkout"}
    BY DEF CheckoutInv, CheckoutTypeOK, Pages
  <1>7. PagesAreSound'
    BY <1>1, <1>5, <1>6 DEF CheckoutInv, PagesAreSound, Sent
  <1>8. ConfirmedIsPlacedAndCleared'
    BY <1>1, <1>5 DEF CheckoutInv, ConfirmedIsPlacedAndCleared
  <1>9. ErrorShowsTheFailedCart'
    BY <1>1, <1>5, <1>6 DEF CheckoutInv, PagesAreSound, ErrorShowsTheFailedCart, Sent
  <1>10. QED
    BY <1>1, <1>3, <1>4, <1>7, <1>8, <1>9 DEF CheckoutInv

-----------------------------------------------------------------------------
(* Submits. *)

(* The carts, as a step that leaves them alone finds them. *)
LEMMA SameCarts ==
  ASSUME CheckoutInv, UNCHANGED cartVars
  PROVE  CartInv'
  BY DEF CheckoutInv, CartInv, CartTypeOK, PersistedCart, WrittenIsCart, cartVars

LEMMA SubmitInv ==
  ASSUME CheckoutInv, NEW t \in Tabs, NEW r \in Submits, Submit(t, r)
  PROVE  CheckoutInv'
  <1> DEFINE new == [tab |-> t, form |-> form[t], items |-> OrderItems(screen[t]),
                     server |-> "received", reply |-> "pending"]
  <1>1. /\ CartInv' /\ cart' = cart /\ orders' = orders
        /\ \A u \in Tabs : page[u].at = "checkout" =>
              /\ screen'[u] = screen[u] \/ IsEmpty(screen'[u])
              /\ screen'[u] = cart'[u] \/ IsEmpty(cart'[u])
        /\ \A u \in Tabs \ {t} : screen'[u] = screen[u]
    BY RerenderedScreens DEF Submit
  <1>2. new \in Requests /\ new # Unused /\ DOMAIN new.items # {}
    <2>1. screen[t] \in Carts
      BY DEF CheckoutInv, CartInv, CartTypeOK
    <2>2. OrderItems(screen[t]) \in Items /\ DOMAIN OrderItems(screen[t]) # {}
      BY <2>1, OrderItemsType DEF Submit, CanSubmit, FormShown, IsEmpty
    <2>3. new \in Requests
      BY <2>2 DEF CheckoutInv, CheckoutTypeOK, Requests
    <2>4. QED
      BY <2>2, <2>3, CheckoutAssumption
  <1>3. /\ request' = [request EXCEPT ![r] = new]
        /\ request[r] = Unused
        /\ form[t] \in ClientValid
        /\ page[t].at = "checkout" /\ page[t].confirmed = None
        /\ form' = form
    BY DEF Submit, CanSubmit, FormShown
  <1>4. Sent' = Sent \cup {r} /\ r \notin Sent /\ request'[r] = new
    BY <1>2, <1>3 DEF CheckoutInv, CheckoutTypeOK, Sent
  <1>5. ASSUME NEW q \in Sent PROVE request'[q] = request[q]
    BY <1>3, <1>4, <1>5 DEF CheckoutInv, CheckoutTypeOK, Sent
  <1>6. /\ page' \in [Tabs -> Pages]
        /\ page'[t].at = "checkout" /\ page'[t].confirmed = None
        /\ page'[t].loading = r /\ page'[t].submitError = FALSE
        /\ \A u \in Tabs \ {t} : page'[u] = page[u]
    <2> DEFINE pg == [page[t] EXCEPT !.errors = FALSE, !.submitError = FALSE, !.loading = r]
    <2>1. page[t] \in Pages /\ page' = [page EXCEPT ![t] = pg]
      BY DEF CheckoutInv, CheckoutTypeOK, Submit
    <2>2. /\ pg \in Pages /\ pg.at = page[t].at /\ pg.confirmed = page[t].confirmed
          /\ pg.loading = r /\ pg.submitError = FALSE
      BY <2>1 DEF Pages
    <2>3. QED
      BY <1>3, <2>1, <2>2 DEF CheckoutInv, CheckoutTypeOK
  <1>7. CheckoutTypeOK'
    BY <1>1, <1>2, <1>3, <1>6 DEF CheckoutInv, CheckoutTypeOK, CartInv
  <1>8. OrdersAreSubmitted' /\ RequestsAreSound'
    BY <1>1, <1>2, <1>3, <1>4, <1>5 DEF CheckoutInv, OrdersAreSubmitted, RequestsAreSound
  <1>9. PagesAreSound'
    <2>1. IsEmpty(screen'[t]) \/ request'[r].items = OrderItems(screen'[t])
      BY <1>1, <1>3, <1>4
    <2>2. QED
      BY <1>1, <1>3, <1>4, <1>5, <1>6, <2>1 DEF CheckoutInv, PagesAreSound
  <1>10. ConfirmedIsPlacedAndCleared' /\ ErrorShowsTheFailedCart'
    BY <1>1, <1>4, <1>5, <1>6
       DEF CheckoutInv, ConfirmedIsPlacedAndCleared, ErrorShowsTheFailedCart
  <1>11. QED
    BY <1>1, <1>7, <1>8, <1>9, <1>10 DEF CheckoutInv

(* How the server and the network change a request: its reply and server   *)
(* fields only, and never of one the tab is done with.                     *)
LEMMA ServerStep ==
  ASSUME CheckoutInv, NEW r \in Submits, Server(r) \/ Break(r)
  PROVE  /\ request' \in [Submits -> Requests \cup {Unused}]
         /\ Sent' = Sent /\ r \in Sent
         /\ \A q \in Sent \ {r} : request'[q] = request[q]
         /\ request'[r].tab = request[r].tab
         /\ request'[r].form = request[r].form
         /\ request'[r].items = request[r].items
         /\ request[r].reply = "settled" => request'[r].reply = "settled"
         /\ page' = page /\ form' = form /\ UNCHANGED cartVars
  <1>1. request \in [Submits -> Requests \cup {Unused}] /\ r \in Sent /\ request[r] \in Requests
    BY DEF CheckoutInv, CheckoutTypeOK, Sent, Server, Refuse, Store, Answer, Break
  <1>2. /\ request'[r] \in Requests
        /\ request'[r].tab = request[r].tab
        /\ request'[r].form = request[r].form
        /\ request'[r].items = request[r].items
        /\ request[r].reply = "settled" => request'[r].reply = "settled"
        /\ request' = [request EXCEPT ![r] = request'[r]]
    BY <1>1 DEF Server, Refuse, Store, Answer, Break, Requests
  <1>3. \A q \in Submits \ {r} : request'[q] = request[q]
    BY <1>1, <1>2
  <1>4. Sent' = Sent
    BY <1>1, <1>2, <1>3, CheckoutAssumption DEF Sent
  <1>5. request' \in [Submits -> Requests \cup {Unused}]
    BY <1>1, <1>2
  <1>6. QED
    BY <1>1, <1>2, <1>3, <1>4, <1>5 DEF Server, Refuse, Store, Answer, Break, Sent

LEMMA ServerInv ==
  ASSUME CheckoutInv, NEW r \in Submits, Server(r) \/ Break(r)
  PROVE  CheckoutInv'
  <1>1. CartInv' /\ cart' = cart /\ screen' = screen
    BY ServerStep, SameCarts DEF cartVars
  <1>2. request \in [Submits -> Requests \cup {Unused}] /\ r \in Sent /\ request[r] \in Requests
    BY ServerStep DEF CheckoutInv, CheckoutTypeOK, Sent
  <1>3. ASSUME ~ Store(r)
        PROVE  /\ OrdersAreSubmitted' /\ RequestsAreSound'
               /\ CheckoutTypeOK' /\ ConfirmedIsPlacedAndCleared'
    <2>1. /\ orders' = orders
          /\ request'[r].server = "stored" <=> request[r].server = "stored"
          /\ request'[r].reply = "created" =>
                request[r].server = "stored" \/ request[r].reply = "created"
      BY <1>2, <1>3 DEF Server, Refuse, Answer, Break, Requests
    <2>2. OrdersAreSubmitted' /\ RequestsAreSound'
      BY <2>1, ServerStep DEF CheckoutInv, OrdersAreSubmitted, RequestsAreSound
    <2>3. CheckoutTypeOK'
      BY <1>1, <2>1, ServerStep DEF CheckoutInv, CheckoutTypeOK, CartInv
    <2>4. ConfirmedIsPlacedAndCleared'
      BY <1>1, <2>1, ServerStep DEF CheckoutInv, ConfirmedIsPlacedAndCleared
    <2>5. QED
      BY <2>2, <2>3, <2>4
  <1>4. ASSUME Store(r)
        PROVE  /\ OrdersAreSubmitted' /\ RequestsAreSound'
               /\ CheckoutTypeOK' /\ ConfirmedIsPlacedAndCleared'
    <2> DEFINE o == [id |-> r, form |-> request[r].form, items |-> request[r].items]
    <2>1. orders' = orders \cup {o} /\ request[r].form \in ServerValid
          /\ request[r].server = "received" /\ IsIndexable(request[r].items)
      BY <1>4 DEF Store
    <2>2. request'[r].server = "stored" /\ request'[r].reply = request[r].reply
      BY <1>2, <1>4 DEF Store, Requests
    <2>3. o \in Orders
      BY <1>2 DEF Requests, Orders
    <2>4. \A o1 \in orders : o1.id # r
      BY <2>1 DEF CheckoutInv, OrdersAreSubmitted
    <2>5. OrdersAreSubmitted'
      <3>1. ASSUME NEW o1 \in orders'
            PROVE  /\ o1.id \in Sent'
                   /\ request'[o1.id].server = "stored"
                   /\ o1.form = request'[o1.id].form
                   /\ o1.items = request'[o1.id].items
                   /\ o1.form \in ClientValid \cap ServerValid
                   /\ DOMAIN o1.items # {} /\ IsIndexable(o1.items)
        <4>1. CASE o1 = o
          BY <1>2, <2>1, <2>2, <4>1, ServerStep DEF CheckoutInv, RequestsAreSound
        <4>2. CASE o1 \in orders
          BY <2>4, <4>2, ServerStep DEF CheckoutInv, OrdersAreSubmitted
        <4>3. QED
          BY <2>1, <3>1, <4>1, <4>2
      <3>2. ASSUME NEW o1 \in orders', NEW o2 \in orders', o1.id = o2.id PROVE o1 = o2
        BY <2>1, <2>4, <3>2 DEF CheckoutInv, OrdersAreSubmitted
      <3>3. QED
        BY <3>1, <3>2 DEF OrdersAreSubmitted
    <2>6. RequestsAreSound'
      <3>1. ASSUME NEW q \in Sent, q # r
            PROVE  /\ request'[q].form \in ClientValid
                   /\ DOMAIN request'[q].items # {}
                   /\ request'[q].server = "stored" => \E o1 \in orders' : o1.id = q
                   /\ request'[q].reply = "created" => request'[q].server = "stored"
        BY <2>1, <3>1, ServerStep DEF CheckoutInv, RequestsAreSound
      <3>2. /\ request'[r].form \in ClientValid
            /\ DOMAIN request'[r].items # {}
            /\ \E o1 \in orders' : o1.id = r
        <4>1. request[r].form \in ClientValid /\ DOMAIN request[r].items # {}
          BY <1>2 DEF CheckoutInv, RequestsAreSound
        <4>2. o \in orders' /\ o.id = r
          BY <2>1
        <4>3. QED
          BY <4>1, <4>2, ServerStep
      <3>3. QED
        BY <2>2, <3>1, <3>2, ServerStep DEF RequestsAreSound
    <2>7. CheckoutTypeOK'
      BY <1>1, <2>1, <2>3, ServerStep DEF CheckoutInv, CheckoutTypeOK, CartInv
    <2>8. ConfirmedIsPlacedAndCleared'
      BY <1>1, <2>1, ServerStep DEF CheckoutInv, ConfirmedIsPlacedAndCleared
    <2>9. QED
      BY <2>5, <2>6, <2>7, <2>8
  <1>5. PagesAreSound'
    BY <1>1, ServerStep DEF CheckoutInv, PagesAreSound
  <1>6. ErrorShowsTheFailedCart'
    BY <1>1, ServerStep DEF CheckoutInv, ErrorShowsTheFailedCart
  <1>7. QED
    BY <1>1, <1>3, <1>4, <1>5, <1>6 DEF CheckoutInv

-----------------------------------------------------------------------------
(* The continuation of a submit. *)

(* Settling marks one awaited submit, and nothing else of any request. *)
LEMMA SettleStep ==
  ASSUME CheckoutInv, NEW t \in Tabs, NEW r \in Submits, Settle(t, r)
  PROVE  /\ request' \in [Submits -> Requests \cup {Unused}]
         /\ Sent' = Sent /\ r \in Sent /\ request[r].tab = t
         /\ \A q \in Sent :
               /\ request'[q].tab = request[q].tab
               /\ request'[q].form = request[q].form
               /\ request'[q].items = request[q].items
               /\ request'[q].server = request[q].server
               /\ request'[q].reply = IF q = r THEN "settled" ELSE request[q].reply
         /\ orders' = orders /\ form' = form
  <1>1. /\ request \in [Submits -> Requests \cup {Unused}]
        /\ r \in Sent /\ request[r] \in Requests /\ request[r].tab = t
        /\ request' = [request EXCEPT ![r].reply = "settled"]
        /\ orders' = orders /\ form' = form
    BY DEF CheckoutInv, CheckoutTypeOK, Settle, Succeed, Fail, AfterAwait, Awaiting, Sent
  <1>2. /\ request'[r] \in Requests
        /\ request'[r].tab = request[r].tab
        /\ request'[r].form = request[r].form
        /\ request'[r].items = request[r].items
        /\ request'[r].server = request[r].server
        /\ request'[r].reply = "settled"
        /\ request' = [request EXCEPT ![r] = request'[r]]
    BY <1>1 DEF Requests
  <1>3. \A q \in Submits \ {r} : request'[q] = request[q]
    BY <1>1
  <1>4. Sent' = Sent
    BY <1>1, <1>2, <1>3, CheckoutAssumption DEF Sent
  <1>5. request' \in [Submits -> Requests \cup {Unused}]
    BY <1>1, <1>2
  <1>6. QED
    BY <1>1, <1>2, <1>3, <1>4, <1>5

(* What is said of requests and orders does not speak of how a submit was  *)
(* settled.                                                                *)
LEMMA SettleRequests ==
  ASSUME CheckoutInv, NEW t \in Tabs, NEW r \in Submits, Settle(t, r)
  PROVE  OrdersAreSubmitted' /\ RequestsAreSound'
  BY SettleStep DEF CheckoutInv, OrdersAreSubmitted, RequestsAreSound

LEMMA SucceedInv ==
  ASSUME CheckoutInv, NEW t \in Tabs, NEW r \in Submits, Succeed(t, r)
  PROVE  CheckoutInv'
  <1> DEFINE pg(failed) == [page[t] EXCEPT !.confirmed = r, !.submitError = failed,
                                           !.loading = None]
  <1>1. Settle(t, r)
    BY DEF Settle
  <1>2. CartInv'
    <2>1. CASE Save(t, EmptyCart, TRUE)
      BY <2>1, SaveInv, EmptyCartIsCart DEF CheckoutInv
    <2>2. CASE ~ Save(t, EmptyCart, TRUE)
      <3> DEFINE d == IF page[t].loading = r THEN EmptyCart ELSE cart[t]
      <3>1. d \in Carts
        BY EmptyCartIsCart DEF CheckoutInv, CartInv, CartTypeOK
      <3>2. FailToSave(t, EmptyCart) /\ screen' = [screen EXCEPT ![t] = d]
        BY <2>2 DEF Succeed
      <3>3. QED
        BY <3>1, <3>2, FailToSaveInv, EmptyCartIsCart DEF CheckoutInv
    <2>3. QED
      BY <2>1, <2>2
  <1>3. /\ cart'[t] = EmptyCart /\ IsEmpty(cart'[t])
        /\ \A u \in Tabs \ {t} : cart'[u] = cart[u] /\ screen'[u] = screen[u]
        /\ IsEmpty(screen'[t]) \/ (screen'[t] = cart[t] /\ page[t].loading # r)
    BY DEF CheckoutInv, CartInv, CartTypeOK, Succeed, Save, FailToSave, IsEmpty, EmptyCart
  <1>4. \E o \in orders : o.id = r
    BY <1>1, SettleStep DEF CheckoutInv, RequestsAreSound, Succeed
  <1>5. page[t] \in Pages /\ pg(TRUE) \in Pages /\ pg(page[t].submitError) \in Pages
    BY DEF CheckoutInv, CheckoutTypeOK, Pages
  <1>6. /\ page' \in [Tabs -> Pages]
        /\ \A u \in Tabs \ {t} : page'[u] = page[u]
        /\ page'[t].at = page[t].at
        /\ page[t].loading # r => page'[t].submitError = page[t].submitError
        /\ page'[t].loading \in {page[t].loading, None}
        /\ page'[t].confirmed = IF page[t].loading = r THEN r ELSE page[t].confirmed
    <2>1. CASE page[t].loading = r
      <3>1. PICK failed \in {TRUE, page[t].submitError} : page' = [page EXCEPT ![t] = pg(failed)]
        <4>1. \/ AfterAwait(t, r, [page[t] EXCEPT !.confirmed = r, !.loading = None])
              \/ AfterAwait(t, r, pg(TRUE))
          BY DEF Succeed
        <4>2. [page[t] EXCEPT !.confirmed = r, !.loading = None] = pg(page[t].submitError)
          BY <1>5 DEF Pages
        <4>3. QED
          BY <2>1, <4>1, <4>2 DEF AfterAwait
      <3>2. pg(failed).at = page[t].at /\ pg(failed).loading = None /\ pg(failed).confirmed = r
        BY <1>5 DEF Pages
      <3>3. QED
        BY <1>5, <2>1, <3>1, <3>2 DEF CheckoutInv, CheckoutTypeOK
    <2>2. CASE page[t].loading # r
      <3>1. page' = page
        BY <2>2 DEF Succeed, AfterAwait
      <3>2. QED
        BY <2>2, <3>1 DEF CheckoutInv, CheckoutTypeOK
    <2>3. QED
      BY <2>1, <2>2
  <1>7. CheckoutTypeOK'
    BY <1>1, <1>2, <1>6, SettleStep DEF CheckoutInv, CheckoutTypeOK, CartInv
  <1>8. page[t].at = "checkout" => IsEmpty(screen'[t]) \/ screen'[t] = screen[t]
    BY <1>3 DEF CheckoutInv, PagesAreSound
  <1>9. page[t].at \in {"catalog", "checkout"}
    BY <1>5 DEF Pages
  <1>10. page[t].loading = r => page[t].at = "checkout"
    BY <1>9, CheckoutAssumption DEF CheckoutInv, PagesAreSound
  <1>11. PagesAreSound'
    <2>1. ASSUME NEW u \in Tabs, u # t
          PROVE  page'[u] = page[u] /\ cart'[u] = cart[u] /\ screen'[u] = screen[u]
      BY <1>3, <1>6, <2>1
    <2>2. page'[t].at = "catalog" => /\ page'[t].loading = None
                                     /\ page'[t].confirmed = None
                                     /\ ~ page'[t].submitError
      BY <1>6, <1>10 DEF CheckoutInv, PagesAreSound
    <2>3. page'[t].loading # None =>
              /\ page'[t].loading \in Sent'
              /\ request'[page'[t].loading].tab = t
              /\ \/ IsEmpty(screen'[t])
                 \/ request'[page'[t].loading].items = OrderItems(screen'[t])
      <3>1. SUFFICES ASSUME page'[t].loading # None
                     PROVE  /\ page'[t].loading \in Sent'
                            /\ request'[page'[t].loading].tab = t
                            /\ \/ IsEmpty(screen'[t])
                               \/ request'[page'[t].loading].items = OrderItems(screen'[t])
        OBVIOUS
      <3>2. page'[t].loading = page[t].loading
        BY <1>6, <3>1
      <3>3. /\ page[t].loading \in Sent
            /\ request[page[t].loading].tab = t
            /\ IsEmpty(screen[t]) \/ request[page[t].loading].items = OrderItems(screen[t])
            /\ page[t].at = "checkout"
        BY <1>9, <3>1, <3>2 DEF CheckoutInv, PagesAreSound
      <3>4. QED
        BY <1>1, <1>8, <3>2, <3>3, SettleStep
    <2>4. QED
      BY <1>1, <1>3, <2>1, <2>2, <2>3, SettleStep DEF CheckoutInv, PagesAreSound
  <1>12. ConfirmedIsPlacedAndCleared'
    BY <1>1, <1>3, <1>4, <1>6, SettleStep DEF CheckoutInv, ConfirmedIsPlacedAndCleared
  <1>13. ErrorShowsTheFailedCart'
    <2>1. SUFFICES ASSUME NEW u \in Tabs, page'[u].submitError, ~ IsEmpty(screen'[u])
                   PROVE  \E q \in Sent' : /\ request'[q].tab = u
                                           /\ request'[q].reply = "settled"
                                           /\ request'[q].items = OrderItems(screen'[u])
      BY DEF ErrorShowsTheFailedCart
    <2>2. page[u].submitError /\ screen'[u] = screen[u]
      <3>1. CASE u = t
        BY <1>3, <1>6, <1>8, <1>9, <2>1, <3>1 DEF CheckoutInv, PagesAreSound
      <3>2. CASE u # t
        BY <1>3, <1>6, <2>1, <3>2
      <3>3. QED
        BY <3>1, <3>2
    <2>3. PICK q \in Sent : /\ request[q].tab = u
                            /\ request[q].reply = "settled"
                            /\ request[q].items = OrderItems(screen[u])
      BY <2>1, <2>2 DEF CheckoutInv, ErrorShowsTheFailedCart
    <2>4. QED
      BY <1>1, <2>2, <2>3, SettleStep
  <1>14. QED
    BY <1>1, <1>2, <1>7, <1>11, <1>12, <1>13, SettleRequests DEF CheckoutInv

LEMMA FailInv ==
  ASSUME CheckoutInv, NEW t \in Tabs, NEW r \in Submits, Fail(t, r)
  PROVE  CheckoutInv'
  <1> DEFINE pg == [page[t] EXCEPT !.submitError = TRUE, !.loading = None]
  <1>1. Settle(t, r)
    BY DEF Settle
  <1>2. /\ CartInv' /\ cart' = cart
        /\ \A u \in Tabs \ {t} : screen'[u] = screen[u]
        /\ \A u \in Tabs : page[u].at = "checkout" =>
              /\ screen'[u] = screen[u] \/ IsEmpty(screen'[u])
              /\ screen'[u] = cart'[u] \/ IsEmpty(cart'[u])
    BY RerenderedScreens DEF Fail
  <1>3. page[t] \in Pages /\ pg \in Pages
    BY DEF CheckoutInv, CheckoutTypeOK, Pages
  <1>4. /\ page' \in [Tabs -> Pages]
        /\ \A u \in Tabs \ {t} : page'[u] = page[u]
        /\ page'[t].at = page[t].at
        /\ page'[t].confirmed = page[t].confirmed
        /\ page'[t].loading \in {page[t].loading, None}
        /\ page'[t].submitError = (page[t].loading = r \/ page[t].submitError)
    <2>1. CASE page[t].loading = r
      <3>1. page' = [page EXCEPT ![t] = pg]
        BY <2>1 DEF Fail, AfterAwait
      <3>2. /\ pg.at = page[t].at /\ pg.confirmed = page[t].confirmed
            /\ pg.loading = None /\ pg.submitError = TRUE
        BY <1>3 DEF Pages
      <3>3. QED
        BY <1>3, <2>1, <3>1, <3>2 DEF CheckoutInv, CheckoutTypeOK
    <2>2. CASE page[t].loading # r
      <3>1. page' = page
        BY <2>2 DEF Fail, AfterAwait
      <3>2. page[t].submitError \in BOOLEAN
        BY <1>3 DEF Pages
      <3>3. QED
        BY <2>2, <3>1, <3>2 DEF CheckoutInv, CheckoutTypeOK
    <2>3. QED
      BY <2>1, <2>2
  <1>5. CheckoutTypeOK'
    BY <1>1, <1>2, <1>4, SettleStep DEF CheckoutInv, CheckoutTypeOK, CartInv
  <1>6. PagesAreSound'
    <2>1. ASSUME NEW u \in Tabs, page'[u].at = "catalog"
          PROVE  page'[u].loading = None /\ page'[u].confirmed = None /\ ~ page'[u].submitError
      <3>1. CASE u = t
        <4>1. page[t].at = "catalog"
          BY <1>4, <2>1, <3>1
        <4>2. page[t].loading = None /\ page[t].confirmed = None /\ ~ page[t].submitError
          BY <4>1 DEF CheckoutInv, PagesAreSound
        <4>3. r # None
          BY CheckoutAssumption
        <4>4. QED
          BY <1>4, <3>1, <4>2, <4>3
      <3>2. CASE u # t
        BY <1>4, <2>1, <3>2 DEF CheckoutInv, PagesAreSound
      <3>3. QED
        BY <3>1, <3>2
    <2>2. ASSUME NEW u \in Tabs, page'[u].loading # None
          PROVE  /\ page'[u].loading \in Sent'
                 /\ request'[page'[u].loading].tab = u
                 /\ \/ IsEmpty(screen'[u])
                    \/ request'[page'[u].loading].items = OrderItems(screen'[u])
      <3>1. page'[u].loading = page[u].loading
        BY <1>4, <2>2
      <3>2. /\ page[u].loading \in Sent
            /\ request[page[u].loading].tab = u
            /\ IsEmpty(screen[u]) \/ request[page[u].loading].items = OrderItems(screen[u])
            /\ page[u].at = "checkout"
        BY <2>2, <3>1 DEF CheckoutInv, CheckoutTypeOK, Pages, PagesAreSound
      <3>3. QED
        BY <1>1, <1>2, <3>1, <3>2, SettleStep
    <2>3. ASSUME NEW u \in Tabs, page'[u].at = "checkout"
          PROVE  screen'[u] = cart'[u] \/ IsEmpty(cart'[u])
      BY <1>2, <1>4, <2>3
    <2>4. QED
      BY <2>1, <2>2, <2>3 DEF PagesAreSound
  <1>7. ConfirmedIsPlacedAndCleared'
    BY <1>1, <1>2, <1>4, SettleStep DEF CheckoutInv, ConfirmedIsPlacedAndCleared
  <1>8. ErrorShowsTheFailedCart'
    <2>1. SUFFICES ASSUME NEW u \in Tabs, page'[u].submitError, ~ IsEmpty(screen'[u])
                   PROVE  \E q \in Sent' : /\ request'[q].tab = u
                                           /\ request'[q].reply = "settled"
                                           /\ request'[q].items = OrderItems(screen'[u])
      BY DEF ErrorShowsTheFailedCart
    <2> screen'[u] = screen[u]
      <3>1. page[u].submitError \/ page[u].loading = r
        BY <1>4, <2>1
      <3>2. page[u].at = "checkout"
        BY <3>1, CheckoutAssumption DEF CheckoutInv, CheckoutTypeOK, Pages, PagesAreSound
      <3>3. QED
        BY <1>2, <2>1, <3>2
    <2>2. CASE page[u].submitError
      <3>1. PICK q \in Sent : /\ request[q].tab = u
                              /\ request[q].reply = "settled"
                              /\ request[q].items = OrderItems(screen[u])
        BY <1>2, <2>1, <2>2 DEF CheckoutInv, ErrorShowsTheFailedCart
      <3>2. QED
        BY <1>1, <1>2, <3>1, SettleStep
    <2>3. CASE ~ page[u].submitError
      <3>1. u = t /\ page[t].loading = r
        BY <1>4, <2>1, <2>3
      <3>2. request[r].items = OrderItems(screen[t])
        BY <1>2, <2>1, <3>1, CheckoutAssumption DEF CheckoutInv, PagesAreSound
      <3>3. QED
        BY <1>1, <1>2, <3>1, <3>2, SettleStep
    <2>4. QED
      BY <2>2, <2>3
  <1>9. QED
    BY <1>1, <1>2, <1>5, <1>6, <1>7, <1>8, SettleRequests DEF CheckoutInv

-----------------------------------------------------------------------------
(* Every step keeps the invariant. *)
LEMMA CheckoutNextInv == CheckoutInv /\ [CheckoutNext]_vars => CheckoutInv'
  <1>1. SUFFICES ASSUME CheckoutInv, [CheckoutNext]_vars PROVE CheckoutInv'
    OBVIOUS
  <1>2. CASE UNCHANGED vars
    <2>1. CartInv' /\ cart' = cart /\ screen' = screen
      BY <1>1, <1>2, SameCarts DEF vars, cartVars
    <2>2. OrdersAreSubmitted' /\ RequestsAreSound'
      BY <1>1, <1>2, SameRequests DEF vars, checkoutVars
    <2>3. QED
      BY <1>1, <1>2, <2>1, <2>2
         DEF vars, checkoutVars, CheckoutInv, CheckoutTypeOK, CartInv, PagesAreSound,
             ConfirmedIsPlacedAndCleared, ErrorShowsTheFailedCart, Sent
  <1>3. ASSUME NEW t \in Tabs, Shopper(t) PROVE CheckoutInv'
    BY <1>1, <1>3, AddToCartInv, StepDownInv, NavigateInv, ReloadInv, CloseInv,
       FormStepInv, SubmitInv DEF Shopper
  <1>4. ASSUME NEW r \in Submits, Server(r) \/ Break(r) PROVE CheckoutInv'
    BY <1>1, <1>4, ServerInv
  <1>5. ASSUME NEW t \in Tabs, NEW r \in Submits, Settle(t, r) PROVE CheckoutInv'
    BY <1>1, <1>5, SucceedInv, FailInv DEF Settle
  <1>6. QED
    BY <1>1, <1>2, <1>3, <1>4, <1>5 DEF CheckoutNext

(* Types. *)
THEOREM CheckoutTypes == CheckoutSpec => []CheckoutTypeOK
  <1>1. CheckoutInv => CheckoutTypeOK
    BY DEF CheckoutInv
  <1>2. QED
    BY <1>1, CheckoutInitInv, CheckoutNextInv, PTL DEF CheckoutSpec

(* Each submit places at most one order, of what it captured, and only one *)
(* both validations let through.                                           *)
THEOREM OrdersAreWhatWasSubmitted == CheckoutSpec => []OrdersAreSubmitted
  <1>1. CheckoutInv => OrdersAreSubmitted
    BY DEF CheckoutInv
  <1>2. QED
    BY <1>1, CheckoutInitInv, CheckoutNextInv, PTL DEF CheckoutSpec

(* A confirmation on screen is one of an order that is stored, over an     *)
(* empty cart.                                                             *)
THEOREM ConfirmationIsTrue == CheckoutSpec => []ConfirmedIsPlacedAndCleared
  <1>1. CheckoutInv => ConfirmedIsPlacedAndCleared
    BY DEF CheckoutInv
  <1>2. QED
    BY <1>1, CheckoutInitInv, CheckoutNextInv, PTL DEF CheckoutSpec

(* An error on screen stands over the cart whose submit failed, or over an *)
(* empty one.                                                              *)
THEOREM RetryOrdersTheSame == CheckoutSpec => []ErrorShowsTheFailedCart
  <1>1. CheckoutInv => ErrorShowsTheFailedCart
    BY DEF CheckoutInv
  <1>2. QED
    BY <1>1, CheckoutInitInv, CheckoutNextInv, PTL DEF CheckoutSpec

(* Only a continuation settles a submit, and a continuation has its own    *)
(* submit in mind.                                                         *)
LEMMA OnlySettleSettles ==
  ASSUME CheckoutInv, CheckoutNext, NEW r \in Sent,
         request[r].reply = "created", request'[r].reply = "settled"
  PROVE  \E u \in Tabs : Succeed(u, r)
  <1>1. request \in [Submits -> Requests \cup {Unused}] /\ request[r] \in Requests
    BY DEF CheckoutInv, CheckoutTypeOK, Sent
  <1>2. ASSUME NEW u \in Tabs, Shopper(u) PROVE FALSE
    <2>1. CASE \E route \in {"catalog", "checkout"} : Reload(u, route)
      BY <1>1, <2>1, ForgetRequests DEF Reload
    <2>2. CASE Close(u)
      BY <1>1, <2>2, ForgetRequests DEF Close
    <2>3. CASE \E q \in Submits : Submit(u, q)
      BY <1>1, <2>3 DEF Submit, Sent
    <2>4. CASE request' = request
      BY <2>4
    <2>5. QED
      BY <1>2, <2>1, <2>2, <2>3, <2>4
         DEF Shopper, StepDown, AddToCart, Navigate, Look, EditForm, SubmitInvalid,
             StartNewOrder, checkoutVars
  <1>3. ASSUME NEW q \in Submits, Server(q) \/ Break(q) PROVE FALSE
    <2>1. request'[r].reply \in {request[r].reply, "error", "created"}
      BY <1>1, <1>3 DEF Server, Refuse, Store, Answer, Break, Requests, Sent
    <2>2. QED
      BY <2>1
  <1>4. ASSUME NEW u \in Tabs, NEW q \in Submits, Settle(u, q) PROVE q = r
    BY <1>4, SettleStep
  <1>5. PICK u \in Tabs : Settle(u, r)
    BY <1>2, <1>3, <1>4 DEF CheckoutNext
  <1>6. QED
    BY <1>5 DEF Settle, Fail

(* An answer that the page still waits for ends confirmed there, over an   *)
(* empty cart, whether or not that could be saved.                         *)
THEOREM AnswerConfirms == CheckoutSpec => AnsweredIsConfirmed
  <1> DEFINE Confirmed ==
        \A t \in Tabs, r \in Submits :
          page[t].loading = r /\ r \in Awaiting(t) /\ request[r].reply = "created"
          /\ request'[r].reply = "settled"
          => page'[t].confirmed = r /\ IsEmpty(cart'[t]) /\ IsEmpty(screen'[t])
  <1>1. CheckoutInv /\ [CheckoutNext]_vars => [Confirmed]_vars
    <2>1. SUFFICES ASSUME CheckoutInv, CheckoutNext, NEW t \in Tabs, NEW r \in Submits,
                          page[t].loading = r, r \in Awaiting(t),
                          request[r].reply = "created", request'[r].reply = "settled"
                   PROVE  page'[t].confirmed = r /\ IsEmpty(cart'[t]) /\ IsEmpty(screen'[t])
      OBVIOUS
    <2>2. r \in Sent /\ request[r].tab = t
      BY <2>1 DEF Awaiting
    <2>3. PICK u \in Tabs : Succeed(u, r)
      BY <2>1, <2>2, OnlySettleSettles
    <2>4. Succeed(t, r)
      BY <2>2, <2>3 DEF Succeed, Awaiting
    <2>5. IsEmpty(cart'[t]) /\ IsEmpty(screen'[t])
      BY <2>1, <2>4
         DEF CheckoutInv, CartInv, CartTypeOK, Succeed, Save, FailToSave, IsEmpty, EmptyCart
    <2>6. page \in [Tabs -> Pages] /\ page[t] \in Pages
      BY <2>1 DEF CheckoutInv, CheckoutTypeOK
    <2>7. PICK shown : page' = [page EXCEPT ![t] = shown] /\ shown.confirmed = r
      BY <2>1, <2>4, <2>6 DEF Succeed, AfterAwait, Pages
    <2>8. QED
      BY <2>5, <2>6, <2>7
  <1>2. QED
    BY <1>1, CheckoutInitInv, CheckoutNextInv, PTL DEF CheckoutSpec, AnsweredIsConfirmed

-----------------------------------------------------------------------------
(* Snapshots. *)

(* Of two carts, the lines both have show the same. *)
ShowTheSame(c, d) ==
    \A p \in Products : p \in DOMAIN c \cap DOMAIN d => d[p].snapshot = c[p].snapshot

(* The stepper changes quantities only. *)
LEMMA StepperKeepsSnapshots ==
  ASSUME NEW c \in Carts, NEW p \in Products
  PROVE  /\ \A s \in Snapshots : ShowTheSame(c, IncrementItem(c, p, s))
         /\ ShowTheSame(c, DecrementItem(c, p))
  <1>1. \A q \in DOMAIN c : c[q] \in Lines
    BY LineOfCart
  <1>2. ASSUME NEW n, p \in DOMAIN c
        PROVE  ShowTheSame(c, With(c, p, [c[p] EXCEPT !.quantity = n]))
    <2>1. [c[p] EXCEPT !.quantity = n].snapshot = c[p].snapshot
      BY <1>1, <1>2 DEF Lines
    <2>2. QED
      BY <2>1 DEF ShowTheSame, With
  <1>3. ASSUME NEW s \in Snapshots PROVE ShowTheSame(c, IncrementItem(c, p, s))
    <2>1. CASE p \in DOMAIN c
      BY <1>2, <2>1 DEF IncrementItem
    <2>2. CASE p \notin DOMAIN c
      BY <2>2 DEF IncrementItem, With, ShowTheSame
    <2>3. QED
      BY <2>1, <2>2
  <1>4. ShowTheSame(c, DecrementItem(c, p))
    <2>1. CASE p \notin DOMAIN c
      BY <2>1 DEF DecrementItem, ShowTheSame
    <2>2. CASE p \in DOMAIN c /\ c[p].quantity <= One
      BY <2>2 DEF DecrementItem, Without, ShowTheSame
    <2>3. CASE p \in DOMAIN c /\ ~ c[p].quantity <= One
      <3>1. DecrementItem(c, p) = With(c, p, [c[p] EXCEPT !.quantity = @ - One])
        BY <2>3 DEF DecrementItem
      <3>2. QED
        BY <1>2, <2>3, <3>1
    <2>4. QED
      BY <2>1, <2>2, <2>3
  <1>5. QED
    BY <1>3, <1>4

(* What a dispatch makes of the carts, whether or not it can save. *)
LEMMA DispatchedCarts ==
  ASSUME CartInv, NEW t \in Tabs, NEW c, NEW fresh \in BOOLEAN, Dispatch(t, c, fresh)
  PROVE  cart'[t] = c /\ \A u \in Tabs \ {t} : cart'[u] = cart[u]
  BY DEF CartInv, CartTypeOK, Dispatch, Save, FailToSave

(* A shopper's step keeps the snapshots of the lines, in every tab.        *)
LEMMA ShopperKeepsSnapshots ==
  ASSUME CheckoutInv, NEW t \in Tabs, NEW u \in Tabs, Shopper(t), u \in open,
         ~ \E route \in {"catalog", "checkout"} : Reload(u, route)
  PROVE  ShowTheSame(cart[u], cart'[u])
  <1>1. CartInv /\ CartTypeOK /\ cart[t] \in Carts
    BY DEF CheckoutInv, CartInv, CartTypeOK
  <1>2. ASSUME NEW p \in Products, StepDown(t, p) PROVE ShowTheSame(cart[u], cart'[u])
    <2>1. Dispatch(t, DecrementItem(cart[t], p), p \in DOMAIN cart[t])
      BY <1>2 DEF StepDown, Decrement
    <2>2. cart'[t] = DecrementItem(cart[t], p) /\ \A v \in Tabs \ {t} : cart'[v] = cart[v]
      <3>1. (p \in DOMAIN cart[t]) \in BOOLEAN
        OBVIOUS
      <3>2. QED
        BY <1>1, <2>1, <3>1, DispatchedCarts
    <2>3. CASE u = t
      BY <1>1, <2>2, <2>3, StepperKeepsSnapshots
    <2>4. CASE u # t
      BY <2>2, <2>4 DEF ShowTheSame
    <2>5. QED
      BY <2>3, <2>4
  <1>3. ASSUME NEW p \in Products, NEW s \in Snapshots, AddToCart(t, p, s)
        PROVE  ShowTheSame(cart[u], cart'[u])
    <2>1. cart'[t] = IncrementItem(cart[t], p, s) /\ \A v \in Tabs \ {t} : cart'[v] = cart[v]
      BY <1>1, <1>3, DispatchedCarts DEF AddToCart, Increment
    <2>2. CASE u = t
      BY <1>1, <2>1, <2>2, StepperKeepsSnapshots
    <2>3. CASE u # t
      BY <2>1, <2>3 DEF ShowTheSame
    <2>4. QED
      BY <2>2, <2>3
  <1>4. ASSUME NEW route \in {"catalog", "checkout"}, Reload(t, route)
        PROVE  ShowTheSame(cart[u], cart'[u])
    <2>1. u # t
      BY <1>4
    <2>2. cart'[u] = cart[u]
      BY <1>1, <1>4, <2>1 DEF CartTypeOK, Reload, OpenTab
    <2>3. QED
      BY <2>2 DEF ShowTheSame
  <1>5. CASE Close(t)
    <2>1. cart'[u] \in {cart[u], EmptyCart}
      BY <1>1, <1>5 DEF CartTypeOK, Close, CloseTab
    <2>2. QED
      BY <2>1 DEF ShowTheSame, EmptyCart
  <1>6. CASE cart' = cart
    BY <1>6 DEF ShowTheSame
  <1>7. QED
    BY <1>2, <1>3, <1>4, <1>5, <1>6, Zenon
       DEF Shopper, Navigate, Look, EditForm, SubmitInvalid, Submit, StartNewOrder, Rerender

(* A line shows what the shopper saw when adding it until it goes, or the  *)
(* tab is reloaded.                                                        *)
THEOREM LinesKeepTheirSnapshots == CheckoutSpec => SnapshotIsKept
  <1> DEFINE Kept ==
        \A t \in open, p \in Products :
          p \in DOMAIN cart[t] \cap DOMAIN cart'[t]
          => \/ cart'[t][p].snapshot = cart[t][p].snapshot
             \/ \E route \in {"catalog", "checkout"} : Reload(t, route)
  <1>1. CheckoutInv /\ [CheckoutNext]_vars => [Kept]_vars
    <2>1. SUFFICES ASSUME CheckoutInv, CheckoutNext, NEW t \in open,
                          ~ \E route \in {"catalog", "checkout"} : Reload(t, route)
                   PROVE  ShowTheSame(cart[t], cart'[t])
      BY Zenon DEF ShowTheSame
    <2>2. t \in Tabs
      BY <2>1 DEF CheckoutInv, CartInv, CartTypeOK
    <2>3. ASSUME NEW u \in Tabs, Shopper(u) PROVE ShowTheSame(cart[t], cart'[t])
      BY <2>1, <2>2, <2>3, ShopperKeepsSnapshots
    <2>4. ASSUME NEW r \in Submits, Server(r) \/ Break(r) PROVE cart' = cart
      BY <2>4 DEF Server, Refuse, Store, Answer, Break, cartVars
    <2>5. ASSUME NEW u \in Tabs, NEW r \in Submits, Settle(u, r)
          PROVE  cart'[t] \in {cart[t], EmptyCart}
      BY <2>1, <2>2, <2>5
         DEF Settle, Succeed, Fail, Save, FailToSave, Rerender, CheckoutInv, CartInv, CartTypeOK
    <2>6. QED
      BY <2>1, <2>3, <2>4, <2>5 DEF CheckoutNext, ShowTheSame, EmptyCart
  <1>2. QED
    BY <1>1, CheckoutInitInv, CheckoutNextInv, PTL DEF CheckoutSpec, SnapshotIsKept

-----------------------------------------------------------------------------
(* The cart under the checkout. *)

(* With the checkout acting on it too, clearing it after a success and     *)
(* failing to save it inside a handler, the key still follows the tab that *)
(* wrote it last, which shows it.                                          *)
THEOREM CheckoutKeepsStorage == CheckoutSpec => []PersistedCart
  <1>1. CheckoutInv => PersistedCart
    BY DEF CheckoutInv, CartInv
  <1>2. QED
    BY <1>1, CheckoutInitInv, CheckoutNextInv, PTL DEF CheckoutSpec

(* And its reload, whatever it awaits, gives its cart back. *)
THEOREM CheckoutReloadRestores == CheckoutSpec => ReloadRestoresCart
  <1>1. CheckoutInv /\ [CheckoutNext]_vars
        => [\A t \in Tabs : OpenTab(t) /\ t \in open /\ t = writer
                => cart'[t] = cart[t]]_cartVars
    BY ReloadOfWriter DEF CheckoutInv
  <1>2. QED
    BY <1>1, CheckoutInitInv, CheckoutNextInv, PTL DEF CheckoutSpec, ReloadRestoresCart

-----------------------------------------------------------------------------
(* What a step does to requests and pages. *)

(* A shopper's step sends at most one request more, and gives up requests  *)
(* only by leaving.                                                        *)
LEMMA ShopperRequests ==
  ASSUME CheckoutInv, NEW t \in Tabs, Shopper(t)
  PROVE  /\ orders' = orders
         /\ Sent \subseteq Sent'
         /\ \A r \in Sent :
               /\ request'[r].tab = request[r].tab
               /\ request'[r].items = request[r].items
               /\ request'[r].server = request[r].server
               /\ request'[r].reply \in {request[r].reply, "abandoned"}
               /\ request[r].reply = "settled" => request'[r].reply = "settled"
               /\ request'[r] = request[r] \/ (request[r].tab = t /\ Forget(t))
               /\ ~ MayLeave => request'[r] = request[r]
         /\ \A r \in Sent' \ Sent : /\ Submit(t, r)
                                    /\ request'[r].tab = t
                                    /\ request'[r].items = OrderItems(screen[t])
                                    /\ request'[r].server = "received"
                                    /\ request'[r].reply = "pending"
  <1>1. request \in [Submits -> Requests \cup {Unused}] /\ \A r \in Sent : request[r] \in Requests
    BY DEF CheckoutInv, CheckoutTypeOK, Sent
  <1>2. CASE Forget(t)
    <2>1. ASSUME NEW r \in Sent, request[r].reply = "settled" PROVE request'[r] = request[r]
      BY <1>1, <1>2, <2>1 DEF Forget, Awaiting, Sent
    <2>2. ASSUME NEW r \in Sent, ~ MayLeave PROVE request'[r] = request[r]
      BY <1>1, <1>2, <2>2 DEF Forget, Sent
    <2>3. QED
      BY <1>2, <2>1, <2>2, ForgetRequests DEF Forget
  <1>3. ASSUME NEW q \in Submits, Submit(t, q)
        PROVE  /\ Sent' = Sent \cup {q} /\ q \notin Sent
               /\ \A r \in Sent : request'[r] = request[r]
               /\ request'[q].tab = t
               /\ request'[q].items = OrderItems(screen[t])
               /\ request'[q].server = "received"
               /\ request'[q].reply = "pending"
               /\ orders' = orders
    <2> DEFINE new == [tab |-> t, form |-> form[t], items |-> OrderItems(screen[t]),
                       server |-> "received", reply |-> "pending"]
    <2>1. screen[t] \in Carts /\ form[t] \in Forms
      BY DEF CheckoutInv, CartInv, CartTypeOK, CheckoutTypeOK
    <2>2. new \in Requests
      BY <2>1, OrderItemsType DEF Requests
    <2>3. request' = [request EXCEPT ![q] = new] /\ request[q] = Unused /\ new # Unused
      BY <1>3, <2>2, CheckoutAssumption DEF Submit
    <2>4. QED
      BY <1>1, <1>3, <2>3 DEF Submit, Sent
  <1>4. CASE \E q \in Submits : Submit(t, q)
    <2>1. PICK q \in Submits : Submit(t, q)
      BY <1>4
    <2>2. /\ Sent' = Sent \cup {q} /\ q \notin Sent
          /\ \A r \in Sent : request'[r] = request[r]
          /\ request'[q].tab = t
          /\ request'[q].items = OrderItems(screen[t])
          /\ request'[q].server = "received"
          /\ request'[q].reply = "pending"
          /\ orders' = orders
      BY <1>3, <2>1
    <2>3. QED
      BY <2>1, <2>2
  <1>5. CASE UNCHANGED <<request, orders>>
    BY <1>5 DEF Sent
  <1>6. QED
    BY <1>2, <1>4, <1>5
       DEF Shopper, StepDown, AddToCart, Navigate, Reload, Close, Look, EditForm,
           SubmitInvalid, StartNewOrder, checkoutVars

(* The server and the network take no request off a tab, and only they     *)
(* bring an answer.                                                        *)
LEMMA ServerRequests ==
  ASSUME CheckoutInv, NEW r \in Submits, Server(r) \/ Break(r)
  PROVE  /\ \A u \in Tabs : Awaiting(u)' = Awaiting(u)
         /\ request[r].server = "refused" => request'[r].server = "refused"
         /\ Break(r) \/ (request'[r].reply = "error" => request'[r].server = "refused")
            \/ request[r].reply = "error"
  <1>1. request \in [Submits -> Requests \cup {Unused}] /\ r \in Sent /\ request[r] \in Requests
    BY ServerStep DEF CheckoutInv, CheckoutTypeOK, Sent
  <1>2. /\ request'[r].reply \in {"pending", "created", "error"}
              <=> request[r].reply \in {"pending", "created", "error"}
        /\ request[r].server = "refused" => request'[r].server = "refused"
        /\ Break(r) \/ (request'[r].reply = "error" => request'[r].server = "refused")
           \/ request[r].reply = "error"
    BY <1>1 DEF Server, Refuse, Store, Answer, Break, Requests
  <1>3. QED
    BY <1>2, ServerStep DEF Awaiting

(* The page that waited for a settled submit waits for nothing then, and   *)
(* confirms a success; every other page stays as it is.                    *)
LEMMA SettledPages ==
  ASSUME CheckoutInv, NEW t \in Tabs, NEW r \in Submits, Settle(t, r)
  PROVE  /\ \A u \in Tabs \ {t} : page'[u] = page[u]
         /\ page[t].loading # r => page' = page
         /\ page[t].loading = r =>
               /\ page'[t].at = page[t].at
               /\ page'[t].loading = None
               /\ Succeed(t, r) => page'[t].confirmed = r
  <1>1. page \in [Tabs -> Pages] /\ page[t] \in Pages
    BY DEF CheckoutInv, CheckoutTypeOK
  <1>2. PICK shown : /\ AfterAwait(t, r, shown)
                     /\ shown.at = page[t].at
                     /\ shown.loading = None
                     /\ Succeed(t, r) => shown.confirmed = r
    <2>1. CASE Succeed(t, r)
      <3>1. CASE AfterAwait(t, r, [page[t] EXCEPT !.confirmed = r, !.loading = None])
        <4>1. [page[t] EXCEPT !.confirmed = r, !.loading = None].confirmed = r
          BY <1>1 DEF Pages
        <4>2. QED
          BY <1>1, <3>1, <4>1 DEF Pages
      <3>2. CASE AfterAwait(t, r, [page[t] EXCEPT !.confirmed = r, !.submitError = TRUE,
                                                  !.loading = None])
        <4>1. [page[t] EXCEPT !.confirmed = r, !.submitError = TRUE, !.loading = None].confirmed = r
          BY <1>1 DEF Pages
        <4>2. QED
          BY <1>1, <3>2, <4>1 DEF Pages
      <3>3. QED
        BY <2>1, <3>1, <3>2 DEF Succeed
    <2>2. CASE ~ Succeed(t, r)
      BY <1>1, <2>2 DEF Settle, Fail, Pages
    <2>3. QED
      BY <2>1, <2>2
  <1>3. QED
    BY <1>1, <1>2 DEF AfterAwait

(* A submit is loaded by the page it was made on. *)
LEMMA SubmittingPage ==
  ASSUME CheckoutInv, NEW t \in Tabs, NEW r \in Submits, Submit(t, r)
  PROVE  /\ page[t].at = "checkout" /\ page[t].loading = None /\ t \in open
         /\ page'[t].at = "checkout"
         /\ page'[t].loading = r
         /\ page'[t].confirmed = None
         /\ \A u \in Tabs \ {t} : page'[u] = page[u]
         /\ open' = open
  <1>1. page \in [Tabs -> Pages] /\ page[t] \in Pages
    BY DEF CheckoutInv, CheckoutTypeOK
  <1>2. QED
    BY <1>1 DEF Submit, CanSubmit, FormShown, Rerender, Pages

(* A shopper's step leaves the page as it is but for what it says of the   *)
(* form, submits, or mounts a page - which takes an open tab, and nothing  *)
(* that is awaited unless the page confirms.                               *)
LEMMA ShopperPages ==
  ASSUME CheckoutInv, NEW t \in Tabs, Shopper(t)
  PROVE  /\ \A u \in Tabs \ {t} : page'[u] = page[u] /\ (u \in open => u \in open')
         /\ \/ /\ page'[t].at = page[t].at
               /\ page'[t].loading = page[t].loading
               /\ page'[t].confirmed = page[t].confirmed
               /\ UNCHANGED <<open, request>>
            \/ \E r \in Submits : /\ Submit(t, r)
                                   /\ page'[t].at = "checkout"
                                   /\ page'[t].loading = r
                                   /\ page'[t].confirmed = None
                                   /\ open' = open
            \/ \E route \in {"catalog", "checkout"} :
                  /\ page'[t] = Visit(route)
                  /\ route = "checkout" => t \in open'
                  /\ MayLeave \/ Awaiting(t) = {} \/ page[t].confirmed # None
  <1>1. page \in [Tabs -> Pages] /\ page[t] \in Pages
    BY DEF CheckoutInv, CheckoutTypeOK
  <1>2. ASSUME NEW r \in Submits, Submit(t, r)
        PROVE  /\ page'[t].at = "checkout"
               /\ page'[t].loading = r
               /\ page'[t].confirmed = None
               /\ open' = open
               /\ \A u \in Tabs \ {t} : page'[u] = page[u]
    BY <1>2, SubmittingPage
  <1>3. CASE SubmitInvalid(t)
    BY <1>1, <1>3 DEF SubmitInvalid, Rerender, Pages
  <1>4. ASSUME NEW p \in Products,
               StepDown(t, p) \/ \E s \in Snapshots : AddToCart(t, p, s)
        PROVE  UNCHANGED <<page, open, request>>
    BY <1>4 DEF StepDown, AddToCart, Increment, Decrement, Dispatch, Save, FailToSave, checkoutVars
  <1>5. CASE Look(t) \/ \E f \in Forms : EditForm(t, f)
    BY <1>5 DEF Look, EditForm, Rerender, checkoutVars
  <1>6. ASSUME NEW route \in {"catalog", "checkout"}, Navigate(t, route) \/ Reload(t, route)
        PROVE  /\ \A u \in Tabs \ {t} : page'[u] = page[u] /\ (u \in open => u \in open')
               /\ page'[t] = Visit(route) /\ t \in open'
               /\ MayLeave \/ Awaiting(t) = {}
    BY <1>1, <1>6 DEF Navigate, Reload, OpenTab, Forget, Rerender
  <1>7. CASE Close(t) \/ StartNewOrder(t)
    <2>1. /\ \A u \in Tabs \ {t} : page'[u] = page[u] /\ (u \in open => u \in open')
          /\ page'[t] = Visit("catalog")
          /\ MayLeave \/ Awaiting(t) = {} \/ page[t].confirmed # None
      BY <1>1, <1>7 DEF Close, CloseTab, StartNewOrder, Forget, Rerender
    <2>2. QED
      BY <2>1
  <1>8. QED
    BY <1>2, <1>3, <1>4, <1>5, <1>6, <1>7 DEF Shopper

(* A submit that is settled is one its open tab awaited. *)
LEMMA SettledTab ==
  ASSUME CheckoutInv, NEW t \in Tabs, NEW r \in Submits, Settle(t, r)
  PROVE  /\ r \in Awaiting(t) /\ t \in open /\ open' = open
         /\ \A u \in Tabs : Awaiting(u)' = Awaiting(u) \ {r}
  <1>1. r \in Awaiting(t) /\ t \in open /\ open' = open
    BY DEF Settle, Succeed, Fail, Save, FailToSave, Rerender
  <1>2. QED
    BY <1>1, SettleStep DEF Awaiting

-----------------------------------------------------------------------------
(* Nothing waits in vain, whatever anybody does. *)

(* What a page is loading has an end that is still to come: its button is  *)
(* never left disabled for a submit that is over.  With CheckoutFairness   *)
(* this is what SubmitEnds rests on.                                       *)
NoPageWaitsInVain == \A t \in Tabs : page[t].loading # None => page[t].loading \in Awaiting(t)

LEMMA ShopperKeepsWaiting ==
  ASSUME CheckoutInv, NoPageWaitsInVain, NEW t \in Tabs, Shopper(t),
         NEW u \in Tabs, page'[u].loading # None
  PROVE  page'[u].loading \in Awaiting(u)'
  <1>1. CASE u # t
    <2>1. page[u].loading \in Awaiting(u) /\ page'[u].loading = page[u].loading
      BY <1>1, ShopperPages DEF NoPageWaitsInVain
    <2>2. QED
      BY <1>1, <2>1, ShopperRequests DEF Awaiting
  <1>2. CASE u = t /\ \E r \in Submits : Submit(t, r)
    <2>1. PICK r \in Submits : Submit(t, r)
      BY <1>2
    <2>2. page'[t].loading = r
      BY <2>1, SubmittingPage
    <2>3. r \in Sent' \ Sent
      <3>1. request \in [Submits -> Requests \cup {Unused}] /\ request[r] = Unused
        BY <2>1 DEF CheckoutInv, CheckoutTypeOK, Submit
      <3>2. screen[t] \in Carts /\ form[t] \in Forms
        BY DEF CheckoutInv, CartInv, CartTypeOK, CheckoutTypeOK
      <3>3. request'[r] \in Requests
        BY <2>1, <3>1, <3>2, OrderItemsType DEF Submit, Requests
      <3>4. QED
        BY <3>1, <3>3, CheckoutAssumption DEF Sent
    <2>4. request'[r].tab = t /\ request'[r].reply = "pending"
      BY <2>3, ShopperRequests
    <2>5. QED
      BY <1>2, <2>2, <2>3, <2>4 DEF Awaiting
  <1>3. CASE u = t /\ ~ \E r \in Submits : Submit(t, r)
    <2>1. page'[t].loading = page[t].loading /\ UNCHANGED request
      BY <1>3, ShopperPages DEF Visit
    <2>2. QED
      BY <1>3, <2>1 DEF NoPageWaitsInVain, Awaiting, Sent
  <1>4. QED
    BY <1>1, <1>2, <1>3

LEMMA WaitingNextInv ==
  CheckoutInv /\ NoPageWaitsInVain /\ [CheckoutNext]_vars => NoPageWaitsInVain'
  <1>1. SUFFICES ASSUME CheckoutInv, NoPageWaitsInVain, [CheckoutNext]_vars
                 PROVE  NoPageWaitsInVain'
    OBVIOUS
  <1>2. CASE UNCHANGED vars
    BY <1>1, <1>2 DEF vars, checkoutVars, NoPageWaitsInVain, Awaiting, Sent
  <1>3. ASSUME NEW t \in Tabs, Shopper(t) PROVE NoPageWaitsInVain'
    BY <1>1, <1>3, ShopperKeepsWaiting DEF NoPageWaitsInVain
  <1>4. ASSUME NEW r \in Submits, Server(r) \/ Break(r) PROVE NoPageWaitsInVain'
    BY <1>1, <1>4, ServerStep, ServerRequests DEF NoPageWaitsInVain
  <1>5. ASSUME NEW t \in Tabs, NEW r \in Submits, Settle(t, r) PROVE NoPageWaitsInVain'
    <2>1. request[r].tab = t
      BY <1>1, <1>5, SettleStep
    <2>2. \A u \in Tabs : page[u].loading # r \/ u = t
      BY <1>1, <2>1, CheckoutAssumption DEF NoPageWaitsInVain, Awaiting
    <2>3. QED
      BY <1>1, <1>5, <2>2, SettledTab, SettledPages DEF NoPageWaitsInVain
  <1>6. QED
    BY <1>1, <1>2, <1>3, <1>4, <1>5 DEF CheckoutNext

(* However often pages are left and reloaded and exchanges break.          *)
THEOREM LoadingIsAwaited == CheckoutSpec => []NoPageWaitsInVain
  <1>1. CheckoutInit => NoPageWaitsInVain
    BY DEF CheckoutInit, Visit, NoPageWaitsInVain
  <1>2. QED
    BY <1>1, CheckoutInitInv, CheckoutNextInv, WaitingNextInv, PTL DEF CheckoutSpec
=============================================================================
