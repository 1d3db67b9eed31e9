----------------------- MODULE PatientCheckout_proofs -----------------------
(***************************************************************************)
(* What the checkout promises under more than CheckoutSpec says: on a      *)
(* network that breaks no exchange an error is true, a shopper who waits   *)
(* sees the confirmation, and with both, one tab, and a storage that never *)
(* refuses, checking out is the one atomic move that Shop describes.  Each *)
(* assumption is on a constant and is named by the theorem that needs it.  *)
(***************************************************************************)
EXTENDS PatientCheckout, Checkout_proofs

-----------------------------------------------------------------------------
(* A network that breaks no exchange (MayBreak = FALSE). *)

(* A tab is told of an error only when its request was turned away, and a  *)
(* page that says so has settled such a request.                           *)
ErrorsAreRefusals ==
    \A r \in Sent : request[r].reply = "error" => request[r].server = "refused"

FailuresAreRefused ==
    \A t \in Tabs : page[t].submitError /\ page[t].confirmed = None =>
        \E r \in Sent : /\ request[r].tab = t
                       /\ request[r].reply = "settled"
                       /\ request[r].server = "refused"

NetworkInv == CheckoutInv /\ ErrorsAreRefusals /\ FailuresAreRefused

LEMMA NetworkInitInv == CheckoutInit => NetworkInv
  <1>1. CheckoutInit => ErrorsAreRefusals /\ FailuresAreRefused
    BY DEF CheckoutInit, Visit, ErrorsAreRefusals, FailuresAreRefused, Sent
  <1>2. QED
    BY <1>1, CheckoutInitInv DEF NetworkInv

(* No step of the shopper raises an error. *)
LEMMA ShopperRaisesNoError ==
  ASSUME CheckoutInv, NEW t \in Tabs, Shopper(t), NEW u \in Tabs, page'[u].submitError
  PROVE  page[u].submitError /\ page'[u].confirmed = page[u].confirmed
  <1>1. page \in [Tabs -> Pages] /\ page[u] \in Pages
    BY DEF CheckoutInv, CheckoutTypeOK
  <1>2. CASE u # t
    BY <1>1, <1>2
       DEF Shopper, StepDown, AddToCart, Navigate, Reload, Close, Look, EditForm,
           SubmitInvalid, Submit, StartNewOrder, checkoutVars
  <1>3. CASE u = t
    <2>1. CASE \E route \in {"catalog", "checkout"} : page'[t] = Visit(route)
      BY <1>3, <2>1 DEF Visit
    <2>2. CASE \E q \in Submits : Submit(t, q)
      BY <1>1, <1>3, <2>2 DEF Submit, Pages
    <2>3. CASE SubmitInvalid(t)
      BY <1>1, <1>3, <2>3 DEF SubmitInvalid, Pages
    <2>4. CASE page' = page
      BY <2>4
    <2>5. QED
      BY <1>1, <2>1, <2>2, <2>3, <2>4
         DEF Shopper, StepDown, AddToCart, Navigate, Reload, Close, Look, EditForm,
             StartNewOrder, checkoutVars
  <1>4. QED
    BY <1>2, <1>3

LEMMA ShopperKeepsNetwork ==
  ASSUME NetworkInv, NEW t \in Tabs, Shopper(t)
  PROVE  ErrorsAreRefusals' /\ FailuresAreRefused'
  <1>1. CheckoutInv
    BY DEF NetworkInv
  <1>2. ErrorsAreRefusals'
    BY <1>1, ShopperRequests DEF NetworkInv, ErrorsAreRefusals
  <1>3. ASSUME NEW u \in Tabs, page'[u].submitError, page'[u].confirmed = None
        PROVE  \E r \in Sent' : /\ request'[r].tab = u
                                /\ request'[r].reply = "settled"
                                /\ request'[r].server = "refused"
    <2>1. PICK r \in Sent : /\ request[r].tab = u
                            /\ request[r].reply = "settled"
                            /\ request[r].server = "refused"
      BY <1>1, <1>3, ShopperRaisesNoError DEF NetworkInv, FailuresAreRefused
    <2>2. QED
      BY <1>1, <2>1, ShopperRequests
  <1>4. QED
    BY <1>2, <1>3 DEF FailuresAreRefused

LEMMA ServerKeepsNetwork ==
  ASSUME NetworkInv, NEW r \in Submits, Server(r)
  PROVE  ErrorsAreRefusals' /\ FailuresAreRefused'
  <1>1. CheckoutInv
    BY DEF NetworkInv
  <1>2. request \in [Submits -> Requests \cup {Unused}] /\ r \in Sent /\ request[r] \in Requests
    BY <1>1, ServerStep DEF CheckoutInv, CheckoutTypeOK, Sent
  <1>3. ErrorsAreRefusals'
    <2>1. request'[r].reply = "error" => request'[r].server = "refused"
      BY <1>2 DEF Server, Refuse, Store, Answer, Requests, NetworkInv, ErrorsAreRefusals
    <2>2. QED
      BY <1>1, <2>1, ServerStep DEF NetworkInv, ErrorsAreRefusals
  <1>4. FailuresAreRefused'
    BY <1>1, ServerStep, ServerRequests DEF NetworkInv, FailuresAreRefused
  <1>5. QED
    BY <1>3, <1>4

(* An error that comes up is that of the submit just settled, which was    *)
(* refused; a success shows its confirmation on the same page.             *)
LEMMA SettleKeepsNetwork ==
  ASSUME NetworkInv, NEW t \in Tabs, NEW r \in Submits, Settle(t, r)
  PROVE  ErrorsAreRefusals' /\ FailuresAreRefused'
  <1>1. CheckoutInv
    BY DEF NetworkInv
  <1>2. ErrorsAreRefusals'
    BY <1>1, SettleStep DEF NetworkInv, ErrorsAreRefusals
  <1>3. page \in [Tabs -> Pages] /\ page[t] \in Pages /\ r # None
    BY <1>1, CheckoutAssumption DEF CheckoutInv, CheckoutTypeOK
  <1>4. ASSUME NEW u \in Tabs, page'[u].submitError, page'[u].confirmed = None
        PROVE  \/ page[u].submitError /\ page[u].confirmed = None
               \/ u = t /\ request[r].reply = "error"
    <2>1. CASE page'[u] = page[u]
      BY <1>4, <2>1
    <2>2. CASE page'[u] # page[u]
      <3>1. u = t /\ page[t].loading = r
        BY <1>1, <2>2, SettledPages
      <3>2. ~ Succeed(t, r)
        BY <1>1, <1>3, <1>4, <3>1, SettledPages
      <3>3. QED
        BY <3>1, <3>2 DEF Settle, Fail
    <2>3. QED
      BY <2>1, <2>2
  <1>5. ASSUME NEW u \in Tabs, page'[u].submitError, page'[u].confirmed = None
        PROVE  \E q \in Sent' : /\ request'[q].tab = u
                                /\ request'[q].reply = "settled"
                                /\ request'[q].server = "refused"
    <2>1. CASE page[u].submitError /\ page[u].confirmed = None
      <3>1. PICK q \in Sent : /\ request[q].tab = u
                              /\ request[q].reply = "settled"
                              /\ request[q].server = "refused"
        BY <2>1 DEF NetworkInv, FailuresAreRefused
      <3>2. QED
        BY <1>1, <3>1, SettleStep
    <2>2. CASE u = t /\ request[r].reply = "error"
      <3>1. request[r].server = "refused" /\ r \in Sent
        BY <1>1, <2>2, SettleStep DEF NetworkInv, ErrorsAreRefusals
      <3>2. QED
        BY <1>1, <2>2, <3>1, SettleStep
    <2>3. QED
      BY <1>4, <1>5, <2>1, <2>2
  <1>6. QED
    BY <1>2, <1>5 DEF FailuresAreRefused

LEMMA NetworkNextInv ==
  ASSUME ~ MayBreak
  PROVE  NetworkInv /\ [CheckoutNext]_vars => NetworkInv'
  <1>1. SUFFICES ASSUME NetworkInv, [CheckoutNext]_vars
                 PROVE  ErrorsAreRefusals' /\ FailuresAreRefused'
    BY CheckoutNextInv DEF NetworkInv
  <1>2. CASE UNCHANGED vars
    BY <1>1, <1>2 DEF vars, checkoutVars, NetworkInv, ErrorsAreRefusals, FailuresAreRefused, Sent
  <1>3. ASSUME NEW r \in Submits, Break(r) PROVE FALSE
    BY <1>3 DEF Break
  <1>4. QED
    BY <1>1, <1>2, <1>3, ShopperKeepsNetwork, ServerKeepsNetwork, SettleKeepsNetwork
       DEF CheckoutNext

(* What en.json 48 says is true as long as no exchange breaks: a submit    *)
(* that shows an error placed no order, even when the page was left and    *)
(* storage refuses.  A broken exchange is the only way to ErrorMeansNot-   *)
(* Placed being false (the run checkout_error).                            *)
THEOREM ErrorsAreTrueOnASoundNetwork ==
  ASSUME ~ MayBreak
  PROVE  CheckoutSpec => []ErrorMeansNotPlaced
  <1>1. NetworkInv => ErrorMeansNotPlaced
    <2>1. SUFFICES ASSUME NetworkInv, NEW t \in Tabs, FormShown(t), page[t].submitError
                   PROVE  \E r \in Sent : /\ request[r].tab = t
                                          /\ request[r].reply = "settled"
                                          /\ \A o \in orders : o.id # r
      BY DEF ErrorMeansNotPlaced
    <2>2. PICK r \in Sent : /\ request[r].tab = t
                            /\ request[r].reply = "settled"
                            /\ request[r].server = "refused"
      BY <2>1 DEF FormShown, NetworkInv, FailuresAreRefused
    <2>3. \A o \in orders : o.id # r
      BY <2>1, <2>2 DEF NetworkInv, CheckoutInv, OrdersAreSubmitted
    <2>4. QED
      BY <2>2, <2>3
  <1>2. NetworkInv /\ [CheckoutNext]_vars => NetworkInv'
    BY NetworkNextInv
  <1>3. QED
    BY <1>1, <1>2, NetworkInitInv, PTL DEF CheckoutSpec

-----------------------------------------------------------------------------
(* A patient shopper (MayLeave = FALSE). *)

(* Only an open tab shows the checkout page. *)
PagesAreOpen == \A t \in Tabs : page[t].at = "checkout" => t \in open

(* A submit is awaited where it was made: on the checkout page, which is   *)
(* loading it and can make no other; and a page that confirms awaits none. *)
WaitsWithItsPage ==
    \A t \in Tabs :
        /\ page[t].loading # None => page[t].confirmed = None
        /\ \A r \in Awaiting(t) : page[t].at = "checkout" /\ page[t].loading = r

PatienceInv == CheckoutInv /\ PagesAreOpen /\ WaitsWithItsPage

LEMMA PatienceInitInv == CheckoutInit => PatienceInv
  <1>1. CheckoutInit => PagesAreOpen /\ WaitsWithItsPage
    BY DEF CheckoutInit, Visit, PagesAreOpen, WaitsWithItsPage, Awaiting, Sent
  <1>2. QED
    BY <1>1, CheckoutInitInv DEF PatienceInv

LEMMA ShopperKeepsPatience ==
  ASSUME ~ MayLeave, PatienceInv, NEW t \in Tabs, Shopper(t)
  PROVE  PagesAreOpen' /\ WaitsWithItsPage'
  <1>1. CheckoutInv /\ PagesAreOpen /\ WaitsWithItsPage
    BY DEF PatienceInv
  <1>2. \A r \in Sent : r \in Submits /\ r # None
    BY CheckoutAssumption DEF Sent
  <1>3. page[t].confirmed # None => Awaiting(t) = {}
    BY <1>1, <1>2 DEF WaitsWithItsPage, Awaiting
  <1>4. Sent \subseteq Sent' /\ \A r \in Sent : request'[r] = request[r]
    BY <1>1, ShopperRequests
  <1>5. ASSUME NEW u \in Tabs, NEW r \in Awaiting(u)', r \notin Awaiting(u)
        PROVE  u = t /\ Submit(t, r)
    <2>1. r \in Sent' \ Sent
      BY <1>4, <1>5 DEF Awaiting
    <2>2. QED
      BY <1>1, <1>5, <2>1, ShopperRequests DEF Awaiting
  <1>6. PagesAreOpen'
    <2>1. \A u \in Tabs \ {t} : page'[u].at = "checkout" => u \in open'
      BY <1>1, ShopperPages DEF PagesAreOpen
    <2>2. page'[t].at = "checkout" => t \in open'
      <3>1. \A r \in Submits : Submit(t, r) => t \in open
        BY <1>1, SubmittingPage
      <3>2. QED
        BY <1>1, <3>1, ShopperPages DEF PagesAreOpen, Visit
    <2>3. QED
      BY <2>1, <2>2 DEF PagesAreOpen
  <1>7. ASSUME NEW u \in Tabs
        PROVE  /\ page'[u].loading # None => page'[u].confirmed = None
               /\ \A r \in Awaiting(u)' : page'[u].at = "checkout" /\ page'[u].loading = r
    <2>1. CASE u # t
      BY <1>1, <1>5, <2>1, ShopperPages DEF WaitsWithItsPage
    <2>2. CASE u = t /\ \E q \in Submits : Submit(t, q)
      <3>1. PICK q \in Submits : /\ Submit(t, q)
                                /\ page'[t].at = "checkout"
                                /\ page'[t].loading = q
                                /\ page'[t].confirmed = None
        BY <1>1, <2>2, SubmittingPage
      <3>2. Awaiting(t) = {}
        BY <1>1, <1>2, <3>1 DEF WaitsWithItsPage, Awaiting, Submit, CanSubmit
      <3>3. ASSUME NEW r \in Awaiting(t)' PROVE r = q
        <4>1. r \in Submits /\ Submit(t, r)
          BY <1>5, <3>2 DEF Awaiting, Sent
        <4>2. QED
          BY <1>1, <3>1, <4>1, SubmittingPage
      <3>4. QED
        BY <2>2, <3>1, <3>3
    <2>3. CASE u = t /\ ~ \E q \in Submits : Submit(t, q)
      <3>1. \A r \in Awaiting(t)' : r \in Awaiting(t)
        BY <1>5, <2>3 DEF Awaiting, Sent
      <3>2. QED
        BY <1>1, <1>3, <2>3, <3>1, ShopperPages DEF WaitsWithItsPage, Visit
    <2>4. QED
      BY <2>1, <2>2, <2>3
  <1>8. QED
    BY <1>6, <1>7 DEF WaitsWithItsPage

LEMMA SettleKeepsPatience ==
  ASSUME PatienceInv, NEW t \in Tabs, NEW r \in Submits, Settle(t, r)
  PROVE  /\ PagesAreOpen' /\ WaitsWithItsPage'
         /\ page[t].loading = r /\ Awaiting(t) = {r} /\ Awaiting(t)' = {}
  <1>1. CheckoutInv /\ PagesAreOpen /\ WaitsWithItsPage
    BY DEF PatienceInv
  <1>2. page[t].loading = r /\ Awaiting(t) = {r} /\ Awaiting(t)' = {}
    BY <1>1, SettledTab DEF WaitsWithItsPage
  <1>3. PagesAreOpen'
    BY <1>1, <1>2, SettledTab, SettledPages DEF PagesAreOpen
  <1>4. WaitsWithItsPage'
    BY <1>1, <1>2, SettledTab, SettledPages DEF WaitsWithItsPage
  <1>5. QED
    BY <1>2, <1>3, <1>4

LEMMA PatienceNextInv ==
  ASSUME ~ MayLeave
  PROVE  PatienceInv /\ [CheckoutNext]_vars => PatienceInv'
  <1>1. SUFFICES ASSUME PatienceInv, [CheckoutNext]_vars
                 PROVE  PagesAreOpen' /\ WaitsWithItsPage'
    BY CheckoutNextInv DEF PatienceInv
  <1>2. CheckoutInv
    BY <1>1 DEF PatienceInv
  <1>3. CASE UNCHANGED vars
    BY <1>1, <1>3 DEF vars, cartVars, checkoutVars, PatienceInv, PagesAreOpen, WaitsWithItsPage,
                      Awaiting, Sent
  <1>4. ASSUME NEW r \in Submits, Server(r) \/ Break(r)
        PROVE  PagesAreOpen' /\ WaitsWithItsPage'
    BY <1>1, <1>2, <1>4, ServerStep, ServerRequests
       DEF PatienceInv, PagesAreOpen, WaitsWithItsPage, cartVars
  <1>5. QED
    BY <1>1, <1>3, <1>4, ShopperKeepsPatience, SettleKeepsPatience DEF CheckoutNext

(* client/README.md 17 holds for a shopper who stays: every submit that    *)
(* succeeds shows the confirmation of its own order, whatever the network  *)
(* and the storage do.  Leaving the page is the only way to miss it (the   *)
(* run checkout_confirmation).                                             *)
THEOREM SuccessConfirmsWhoeverStays ==
  ASSUME ~ MayLeave
  PROVE  CheckoutSpec => SuccessShowsConfirmation
  <1>1. PatienceInv /\ [CheckoutNext]_vars
        => [\A t \in Tabs, r \in Submits : Succeed(t, r) => page'[t].confirmed = r]_vars
    <2>1. SUFFICES ASSUME PatienceInv, NEW t \in Tabs, NEW r \in Submits, Succeed(t, r)
                   PROVE  page'[t].confirmed = r
      OBVIOUS
    <2>2. CheckoutInv /\ Settle(t, r)
      BY <2>1 DEF PatienceInv, Settle
    <2>3. QED
      BY <2>1, <2>2, SettleKeepsPatience, SettledPages
  <1>2. PatienceInv /\ [CheckoutNext]_vars => PatienceInv'
    BY PatienceNextInv
  <1>3. QED
    BY <1>1, <1>2, PatienceInitInv, PTL DEF CheckoutSpec, SuccessShowsConfirmation

-----------------------------------------------------------------------------
(* Checking out is one atomic move: one tab, a patient shopper, a sound    *)
(* network, and a storage that refuses nothing.                            *)

Undisturbed == Tabs = {TheTab} /\ ~ MayLeave /\ ~ MayBreak /\ ~ MayNotSave

(* The screen shows the cart; what is awaited orders the cart of now; the  *)
(* key gives it back; and the server works on nothing the tab has an       *)
(* answer to.                                                              *)
ScreensAreCarts == screen = cart
AwaitsItsCart ==
    \A t \in Tabs : \A r \in Awaiting(t) : request[r].items = OrderItems(cart[t])
StorageIsCart == \A t \in open : LoadInitialCartState(storage) = cart[t]
RepliesAreKnown ==
    \A r \in Sent : request[r].server = "received" => request[r].reply = "pending"

ShopInv ==
    /\ NetworkInv
    /\ PatienceInv
    /\ ScreensAreCarts
    /\ AwaitsItsCart
    /\ StorageIsCart
    /\ RepliesAreKnown

LEMMA ShopInitInv == CheckoutInit => ShopInv
  <1>1. CheckoutInit => /\ ScreensAreCarts
                        /\ AwaitsItsCart
                        /\ StorageIsCart
                        /\ RepliesAreKnown
    BY DEF CheckoutInit, CartInit, ScreensAreCarts, AwaitsItsCart, StorageIsCart,
           RepliesAreKnown, Awaiting, Sent
  <1>2. QED
    BY <1>1, NetworkInitInv, PatienceInitInv DEF ShopInv

(* What a shopper's step does to the cart: the stepper, on the catalog     *)
(* page, writes a new one; opening and reloading read the key; closing     *)
(* forgets; all else leaves cart and key alone.                            *)
LEMMA ShopperCarts ==
  ASSUME Undisturbed, ShopInv, Shopper(TheTab)
  PROVE  \/ /\ page[TheTab].at = "catalog"
            /\ TheTab \in open /\ open' = open
            /\ request' = request
            /\ cart'[TheTab] \in Carts
            /\ screen' = cart' /\ storage' = cart'[TheTab]
            /\ \E p \in Products :
                  \/ cart'[TheTab] = DecrementItem(cart[TheTab], p)
                  \/ \E s \in Snapshots : cart'[TheTab] = IncrementItem(cart[TheTab], p, s)
         \/ /\ Awaiting(TheTab) = {}
            /\ TheTab \in open' /\ storage' = storage /\ screen' = cart'
            /\ cart'[TheTab] = LoadInitialCartState(storage)
         \/ /\ Awaiting(TheTab) = {}
            /\ TheTab \in open /\ TheTab \notin open' /\ storage' = storage /\ screen' = cart'
         \/ UNCHANGED <<open, cart, storage, screen>>
  <1> DEFINE t == TheTab
  <1>1. /\ Tabs = {t} /\ ~ MayLeave /\ ~ MayNotSave
        /\ cart \in [Tabs -> Carts] /\ screen = cart /\ cart[t] \in Carts
    BY DEF Undisturbed, ShopInv, ScreensAreCarts, NetworkInv, CheckoutInv, CartInv, CartTypeOK
  <1>2. ASSUME NEW c \in Carts, Dispatch(t, c, TRUE)
        PROVE  /\ t \in open /\ open' = open
               /\ cart'[t] = c /\ screen' = cart' /\ storage' = c
    BY <1>1, <1>2 DEF Dispatch, Save, FailToSave
  <1>3. ASSUME NEW p \in Products, StepDown(t, p)
        PROVE  /\ page[t].at = "catalog"
               /\ t \in open /\ open' = open
               /\ request' = request
               /\ cart'[t] \in Carts
               /\ screen' = cart' /\ storage' = cart'[t]
               /\ cart'[t] = DecrementItem(cart[t], p)
    <2>1. Dispatch(t, DecrementItem(cart[t], p), TRUE)
      BY <1>1, <1>3 DEF StepDown, Decrement, Dispatch, Save
    <2>2. DecrementItem(cart[t], p) \in Carts
      BY <1>1, DecrementIsCart
    <2>3. QED
      BY <1>2, <1>3, <2>1, <2>2 DEF StepDown, checkoutVars
  <1>4. ASSUME NEW p \in Products, NEW s \in Snapshots, AddToCart(t, p, s)
        PROVE  /\ page[t].at = "catalog"
               /\ t \in open /\ open' = open
               /\ request' = request
               /\ cart'[t] \in Carts
               /\ screen' = cart' /\ storage' = cart'[t]
               /\ cart'[t] = IncrementItem(cart[t], p, s)
    <2>1. IncrementItem(cart[t], p, s) \in Carts
      BY <1>1, <1>4, IncrementIsCart DEF AddToCart, Increment
    <2>2. QED
      BY <1>2, <1>4, <2>1 DEF AddToCart, Increment, checkoutVars
  <1>5. ASSUME NEW route \in {"catalog", "checkout"}, Reload(t, route)
        PROVE  /\ Awaiting(t) = {}
               /\ t \in open' /\ storage' = storage /\ screen' = cart'
               /\ cart'[t] = LoadInitialCartState(storage)
    BY <1>1, <1>5 DEF Reload, OpenTab, Forget
  <1>6. CASE Close(t)
    BY <1>1, <1>6 DEF Close, CloseTab, Forget
  <1>7. CASE Rerender(t)
    <2>1. UNCHANGED <<open, cart, storage, screen>>
      BY <1>1, <1>7 DEF Rerender
    <2>2. QED
      BY <2>1
  <1>8. QED
    BY <1>3, <1>4, <1>5, <1>6, <1>7
       DEF Shopper, Navigate, Look, EditForm, SubmitInvalid, Submit, StartNewOrder

LEMMA ShopperKeepsShop ==
  ASSUME Undisturbed, ShopInv, Shopper(TheTab)
  PROVE  ScreensAreCarts' /\ AwaitsItsCart' /\ StorageIsCart' /\ RepliesAreKnown'
  <1> DEFINE t == TheTab
  <1>1. /\ Tabs = {t} /\ t \in Tabs /\ ~ MayLeave
        /\ CheckoutInv /\ WaitsWithItsPage
        /\ ScreensAreCarts /\ AwaitsItsCart /\ StorageIsCart /\ RepliesAreKnown
    BY DEF Undisturbed, ShopInv, NetworkInv, PatienceInv
  <1>2. open \subseteq Tabs /\ open' \subseteq Tabs
    <2>1. CheckoutInv'
      BY <1>1, CheckoutNextInv DEF CheckoutNext
    <2>2. QED
      BY <1>1, <2>1 DEF CheckoutInv, CartInv, CartTypeOK
  <1>3. ScreensAreCarts'
    BY <1>1, ShopperCarts DEF ScreensAreCarts
  <1>4. StorageIsCart'
    BY <1>1, <1>2, ShopperCarts, LoadOfWritten DEF StorageIsCart
  <1>5. RepliesAreKnown'
    BY <1>1, ShopperRequests DEF RepliesAreKnown
  <1>6. ASSUME NEW r \in Awaiting(t)'
        PROVE  request'[r].items = OrderItems(cart'[t])
    <2>1. CASE r \in Sent
      <3>1. r \in Awaiting(t) /\ request'[r] = request[r]
        BY <1>1, <1>6, <2>1, ShopperRequests DEF Awaiting
      <3>2. page[t].at = "checkout"
        BY <1>1, <3>1 DEF WaitsWithItsPage
      <3>3. cart'[t] = cart[t]
        BY <3>1, <3>2, ShopperCarts
      <3>4. QED
        BY <1>1, <3>1, <3>3 DEF AwaitsItsCart
    <2>2. CASE r \notin Sent
      <3>1. r \in Submits /\ Submit(t, r) /\ request'[r].items = OrderItems(screen[t])
        BY <1>1, <1>6, <2>2, ShopperRequests DEF Awaiting, Sent
      <3>2. cart'[t] = cart[t] /\ screen[t] = cart[t]
        BY <1>1, <3>1 DEF Submit, Rerender, ScreensAreCarts
      <3>3. QED
        BY <3>1, <3>2
    <2>3. QED
      BY <2>1, <2>2
  <1>7. AwaitsItsCart'
    BY <1>1, <1>6 DEF AwaitsItsCart
  <1>8. QED
    BY <1>3, <1>4, <1>5, <1>7

LEMMA ServerKeepsShop ==
  ASSUME Undisturbed, ShopInv, NEW r \in Submits, Server(r)
  PROVE  ScreensAreCarts' /\ AwaitsItsCart' /\ StorageIsCart' /\ RepliesAreKnown'
  <1>1. CheckoutInv /\ ScreensAreCarts /\ AwaitsItsCart /\ StorageIsCart /\ RepliesAreKnown
    BY DEF ShopInv, NetworkInv
  <1>2. request \in [Submits -> Requests \cup {Unused}] /\ r \in Sent /\ request[r] \in Requests
    BY <1>1, ServerStep DEF CheckoutInv, CheckoutTypeOK, Sent
  <1>3. UNCHANGED cartVars
    BY <1>1, ServerStep
  <1>4. AwaitsItsCart'
    BY <1>1, <1>3, ServerStep, ServerRequests DEF AwaitsItsCart, Awaiting, cartVars
  <1>5. RepliesAreKnown'
    <2>1. request'[r].server = "received" => request'[r].reply = "pending"
      BY <1>1, <1>2 DEF Server, Refuse, Store, Answer, Requests, RepliesAreKnown
    <2>2. QED
      BY <1>1, <2>1, ServerStep DEF RepliesAreKnown
  <1>6. QED
    BY <1>1, <1>3, <1>4, <1>5 DEF cartVars, ScreensAreCarts, StorageIsCart

(* A success empties cart, key and screen; a failure shows the cart.       *)
LEMMA SettledCarts ==
  ASSUME Undisturbed, ShopInv, NEW r \in Submits, Settle(TheTab, r)
  PROVE  /\ screen' = cart' /\ open' = open
         /\ \/ /\ request[r].server = "stored"
               /\ cart'[TheTab] = EmptyCart /\ storage' = EmptyCart
            \/ /\ request[r].server = "refused"
               /\ cart' = cart /\ storage' = storage
  <1>1. /\ Tabs = {TheTab} /\ ~ MayNotSave /\ CheckoutInv
        /\ cart \in [Tabs -> Carts] /\ screen = cart
    BY DEF Undisturbed, ShopInv, ScreensAreCarts, NetworkInv, CheckoutInv, CartInv, CartTypeOK
  <1>2. r \in Sent
    BY <1>1, SettleStep
  <1>3. CASE Succeed(TheTab, r)
    <2>1. request[r].server = "stored"
      BY <1>1, <1>2, <1>3 DEF Succeed, CheckoutInv, RequestsAreSound
    <2>2. QED
      BY <1>1, <1>3, <2>1 DEF Succeed, Save, FailToSave
  <1>4. CASE Fail(TheTab, r)
    <2>1. request[r].server = "refused"
      BY <1>2, <1>4 DEF Fail, ShopInv, NetworkInv, ErrorsAreRefusals
    <2>2. QED
      BY <1>1, <1>4, <2>1 DEF Fail, Rerender
  <1>5. QED
    BY <1>3, <1>4 DEF Settle

LEMMA SettleKeepsShop ==
  ASSUME Undisturbed, ShopInv, NEW r \in Submits, Settle(TheTab, r)
  PROVE  ScreensAreCarts' /\ AwaitsItsCart' /\ StorageIsCart' /\ RepliesAreKnown'
  <1>1. /\ Tabs = {TheTab} /\ TheTab \in Tabs /\ open \subseteq Tabs
        /\ CheckoutInv /\ StorageIsCart /\ RepliesAreKnown
    BY DEF Undisturbed, ShopInv, NetworkInv, CheckoutInv, CartInv, CartTypeOK
  <1>2. AwaitsItsCart'
    BY <1>1, SettleKeepsPatience DEF AwaitsItsCart, ShopInv
  <1>3. StorageIsCart'
    BY <1>1, SettledCarts, EmptyCartIsCart, LoadOfWritten DEF StorageIsCart
  <1>4. RepliesAreKnown'
    BY <1>1, SettledCarts, SettleStep DEF RepliesAreKnown
  <1>5. QED
    BY <1>2, <1>3, <1>4, SettledCarts DEF ScreensAreCarts

LEMMA ShopNextInv ==
  ASSUME Undisturbed
  PROVE  ShopInv /\ [CheckoutNext]_vars => ShopInv'
  <1>1. SUFFICES ASSUME ShopInv, [CheckoutNext]_vars
                 PROVE  ScreensAreCarts' /\ AwaitsItsCart' /\ StorageIsCart' /\ RepliesAreKnown'
    BY NetworkNextInv, PatienceNextInv DEF ShopInv, Undisturbed
  <1>2. CASE UNCHANGED vars
    BY <1>1, <1>2 DEF vars, cartVars, checkoutVars, ShopInv, ScreensAreCarts, AwaitsItsCart,
                      StorageIsCart, RepliesAreKnown, Awaiting, Sent
  <1>3. ASSUME NEW r \in Submits, Break(r) PROVE FALSE
    BY <1>3 DEF Break, Undisturbed
  <1>4. ASSUME NEW t \in Tabs PROVE t = TheTab
    BY DEF Undisturbed
  <1>5. QED
    BY <1>1, <1>2, <1>3, <1>4, ShopperKeepsShop, ServerKeepsShop, SettleKeepsShop
       DEF CheckoutNext

(* The step from a cart to the parts of each good in it.                   *)
LEMMA CartBasket ==
  ASSUME NEW c \in Carts
  PROVE  OrderItems(c) \in ShopView!Baskets
  <1>1. OrderItems(c) \in Items
    BY OrderItemsType
  <1>2. QED
    BY <1>1 DEF Items, PartialFunctions, ShopView!Baskets

LEMMA StepperPicks ==
  ASSUME NEW c \in Carts, NEW d \in Carts, NEW p \in Products,
         \/ d = DecrementItem(c, p)
         \/ \E s \in Snapshots : d = IncrementItem(c, p, s)
  PROVE  LET old(h) == ShopView!PartsOf(OrderItems(c), h)
             new(h) == ShopView!PartsOf(OrderItems(d), h)
         IN  /\ \/ new(p) = old(p) + One
                \/ new(p) = old(p) - One
                \/ old(p) <= One /\ new(p) = 0
             /\ \A h \in Products \ {p} : new(h) = old(h)
  <1> DEFINE old(h) == ShopView!PartsOf(OrderItems(c), h)
             new(h) == ShopView!PartsOf(OrderItems(d), h)
  <1> USE DEF ShopView!PartsOf, OrderItems
  <1>1. \A q \in DOMAIN c : c[q] \in Lines
    BY LineOfCart
  <1>2. One \in Nat \ {0}
    BY CartAssumption
  <1>3. ASSUME NEW line, d = With(c, p, line)
        PROVE  new(p) = line.quantity /\ \A h \in Products \ {p} : new(h) = old(h)
    BY <1>3 DEF With
  <1>4. ASSUME d = Without(c, p)
        PROVE  new(p) = 0 /\ \A h \in Products \ {p} : new(h) = old(h)
    BY <1>4 DEF Without
  <1>5. CASE p \notin DOMAIN c /\ d = DecrementItem(c, p)
    BY <1>2, <1>5 DEF DecrementItem
  <1>6. CASE p \in DOMAIN c /\ c[p].quantity <= One /\ d = DecrementItem(c, p)
    BY <1>4, <1>6 DEF DecrementItem
  <1>7. CASE p \in DOMAIN c /\ ~ c[p].quantity <= One /\ d = DecrementItem(c, p)
    <2>1. d = With(c, p, [c[p] EXCEPT !.quantity = @ - One])
      BY <1>7 DEF DecrementItem
    <2>2. [c[p] EXCEPT !.quantity = @ - One].quantity = c[p].quantity - One
      BY <1>1, <1>7 DEF Lines
    <2>3. QED
      BY <1>3, <1>7, <2>1, <2>2
  <1>8. ASSUME NEW s \in Snapshots, d = IncrementItem(c, p, s)
        PROVE  new(p) = old(p) + One /\ \A h \in Products \ {p} : new(h) = old(h)
    <2>1. CASE p \in DOMAIN c
      <3>1. d = With(c, p, [c[p] EXCEPT !.quantity = @ + One])
        BY <1>8, <2>1 DEF IncrementItem
      <3>2. [c[p] EXCEPT !.quantity = @ + One].quantity = c[p].quantity + One
        BY <1>1, <2>1 DEF Lines
      <3>3. QED
        BY <1>3, <2>1, <3>1, <3>2
    <2>2. CASE p \notin DOMAIN c
      <3>1. d = With(c, p, [snapshot |-> s, quantity |-> One])
        BY <1>8, <2>2 DEF IncrementItem
      <3>2. QED
        BY <1>2, <1>3, <2>2, <3>1
    <2>3. QED
      BY <2>1, <2>2
  <1>9. QED
    BY <1>5, <1>6, <1>7, <1>8

(* The order of the tab is stored, and the tab is yet to hear of it. *)
OrderIsOnItsWay == \E r \in Awaiting(TheTab) : request[r].server = "stored"

(* The three cases of the basket, which exclude each other.                *)
BasketIsClear ==
    /\ TheTab \notin open => CartOnScreen = OrderItems(LoadInitialCartState(storage))
    /\ OrderIsOnItsWay => CartOnScreen = OrderItems(EmptyCart)
    /\ TheTab \in open /\ ~ OrderIsOnItsWay => CartOnScreen = OrderItems(cart[TheTab])

LEMMA Basket == Undisturbed /\ ShopInv => BasketIsClear
  <1>1. SUFFICES ASSUME Undisturbed, ShopInv PROVE BasketIsClear
    OBVIOUS
  <1>2. TheTab \notin open => Awaiting(TheTab) = {}
    BY <1>1 DEF Undisturbed, ShopInv, PatienceInv, PagesAreOpen, WaitsWithItsPage
  <1>3. OrderIsOnItsWay => Awaiting(TheTab) # {}
    BY DEF OrderIsOnItsWay
  <1>4. QED
    BY <1>2, <1>3 DEF BasketIsClear, CartOnScreen, OrderIsOnItsWay

LEMMA ShopInit == CheckoutInit => ShopView!ShopInit
  <1>1. SUFFICES ASSUME CheckoutInit PROVE ShopView!ShopInit
    OBVIOUS
  <1>2. CartOnScreen = OrderItems(LoadInitialCartState(storage))
    BY <1>1 DEF CheckoutInit, CartInit, CartOnScreen, Awaiting, Sent
  <1>3. LoadInitialCartState(storage) \in Carts
    BY <1>1, LoadIsCart DEF CheckoutInit, CartInit
  <1>4. {[name |-> o.id, goods |-> o.items] : o \in orders} = {}
    BY <1>1 DEF CheckoutInit
  <1>5. QED
    BY <1>2, <1>3, <1>4, CartBasket DEF ShopView!ShopInit

(* The stepper picks; nothing else the shopper does moves a good.          *)
LEMMA ShopperPicks ==
  ASSUME Undisturbed, ShopInv, BasketIsClear', Shopper(TheTab)
  PROVE  ShopView!Pick \/ UNCHANGED <<CartOnScreen, orders>>
  <1> DEFINE t == TheTab
  <1>1. /\ Tabs = {t} /\ ~ MayLeave /\ CheckoutInv /\ WaitsWithItsPage /\ StorageIsCart
        /\ cart[t] \in Carts
    BY DEF Undisturbed, ShopInv, NetworkInv, PatienceInv, CheckoutInv, CartInv, CartTypeOK
  <1>2. orders' = orders /\ (OrderIsOnItsWay' <=> OrderIsOnItsWay)
    BY <1>1, ShopperRequests DEF OrderIsOnItsWay, Awaiting
  <1>3. ASSUME page[t].at = "catalog", t \in open, open' = open,
               cart'[t] \in Carts,
               NEW p \in Products,
               \/ cart'[t] = DecrementItem(cart[t], p)
               \/ \E s \in Snapshots : cart'[t] = IncrementItem(cart[t], p, s)
        PROVE  ShopView!Pick
    <2>1. ~ OrderIsOnItsWay
      BY <1>1, <1>3 DEF WaitsWithItsPage, OrderIsOnItsWay
    <2>2. CartOnScreen = OrderItems(cart[t]) /\ CartOnScreen' = OrderItems(cart'[t])
      BY <1>2, <1>3, <2>1, Basket DEF BasketIsClear
    <2>3. CartOnScreen' \in ShopView!Baskets
      BY <1>3, <2>2, CartBasket
    <2>4. /\ \/ ShopView!PartsOf(CartOnScreen', p) = ShopView!PartsOf(CartOnScreen, p) + One
             \/ ShopView!PartsOf(CartOnScreen', p) = ShopView!PartsOf(CartOnScreen, p) - One
             \/ /\ ShopView!PartsOf(CartOnScreen, p) <= One
                /\ ShopView!PartsOf(CartOnScreen', p) = 0
          /\ \A h \in Products \ {p} :
                ShopView!PartsOf(CartOnScreen', h) = ShopView!PartsOf(CartOnScreen, h)
      BY <1>1, <1>3, <2>2, StepperPicks
    <2>5. QED
      BY <1>2, <2>3, <2>4 DEF ShopView!Pick
  <1>4. CASE /\ Awaiting(t) = {}
             /\ t \in open' /\ storage' = storage
             /\ cart'[t] = LoadInitialCartState(storage)
    <2>1. ~ OrderIsOnItsWay
      BY <1>4 DEF OrderIsOnItsWay
    <2>2. CartOnScreen' = OrderItems(LoadInitialCartState(storage))
      BY <1>2, <1>4, <2>1 DEF BasketIsClear
    <2>3. QED
      BY <1>1, <1>2, <2>1, <2>2, Basket DEF BasketIsClear, StorageIsCart
  <1>5. CASE Awaiting(t) = {} /\ t \in open /\ t \notin open' /\ storage' = storage
    <2>1. ~ OrderIsOnItsWay
      BY <1>5 DEF OrderIsOnItsWay
    <2>2. QED
      BY <1>1, <1>2, <1>5, <2>1, Basket DEF BasketIsClear, StorageIsCart
  <1>6. CASE UNCHANGED <<open, cart, storage, screen>>
    BY <1>2, <1>6, Basket DEF BasketIsClear
  <1>7. QED
    BY <1>3, <1>4, <1>5, <1>6, ShopperCarts

(* The instant at which the document is stored places the order.           *)
LEMMA StorePlaces ==
  ASSUME Undisturbed, ShopInv, BasketIsClear', NEW r \in Submits, Store(r)
  PROVE  ShopView!Place
  <1> DEFINE t == TheTab
  <1>1. /\ Tabs = {t} /\ t \in Tabs /\ CheckoutInv /\ WaitsWithItsPage /\ PagesAreOpen
        /\ AwaitsItsCart /\ RepliesAreKnown /\ Server(r)
    BY DEF Undisturbed, ShopInv, NetworkInv, PatienceInv, Server
  <1>2. request \in [Submits -> Requests \cup {Unused}] /\ r \in Sent /\ request[r] \in Requests
    BY <1>1, ServerStep DEF CheckoutInv, CheckoutTypeOK, Sent
  <1>3. request[r].tab = t /\ r \in Awaiting(t)
    BY <1>1, <1>2 DEF Store, RepliesAreKnown, Awaiting, Requests
  <1>4. t \in open /\ ~ OrderIsOnItsWay
    BY <1>1, <1>3 DEF WaitsWithItsPage, PagesAreOpen, OrderIsOnItsWay, Store
  <1>5. CartOnScreen = request[r].items
    BY <1>1, <1>3, <1>4, Basket DEF BasketIsClear, AwaitsItsCart
  <1>6. CartOnScreen' = OrderItems(EmptyCart)
    <2>1. r \in Awaiting(t)'
      BY <1>1, <1>3, ServerRequests
    <2>2. request'[r].server = "stored"
      BY <1>2 DEF Store
    <2>3. QED
      BY <2>1, <2>2 DEF BasketIsClear, OrderIsOnItsWay
  <1>7. OrderItems(EmptyCart) = ShopView!NothingIn
    BY DEF OrderItems, EmptyCart, ShopView!NothingIn
  <1>8. CartOnScreen # ShopView!NothingIn
    BY <1>1, <1>2, <1>5 DEF CheckoutInv, RequestsAreSound, ShopView!NothingIn
  <1>9. \A order \in {[name |-> o.id, goods |-> o.items] : o \in orders} : order.name # r
    BY <1>1 DEF CheckoutInv, OrdersAreSubmitted, Store
  <1>10. {[name |-> o.id, goods |-> o.items] : o \in orders'}
            = {[name |-> o.id, goods |-> o.items] : o \in orders}
              \cup {[name |-> r, goods |-> CartOnScreen]}
    <2> DEFINE new == [id |-> r, form |-> request[r].form, items |-> CartOnScreen]
               view(o) == [name |-> o.id, goods |-> o.items]
    <2>1. orders' = orders \cup {new}
      BY <1>5 DEF Store
    <2>2. view(new) = [name |-> r, goods |-> CartOnScreen]
      OBVIOUS
    <2> HIDE DEF new, view
    <2>3. {view(o) : o \in orders'} = {view(o) : o \in orders} \cup {view(new)}
      BY <2>1
    <2>4. QED
      BY <2>2, <2>3 DEF view
  <1>11. QED
    BY <1>6, <1>7, <1>8, <1>9, <1>10 DEF ShopView!Place

(* Being turned away, and the answer, move nothing.                        *)
LEMMA AnswersMoveNothing ==
  ASSUME Undisturbed, ShopInv, BasketIsClear', NEW r \in Submits, Refuse(r) \/ Answer(r)
  PROVE  UNCHANGED <<CartOnScreen, orders>>
  <1>1. CheckoutInv /\ Server(r)
    BY DEF ShopInv, NetworkInv, Server
  <1>2. request \in [Submits -> Requests \cup {Unused}] /\ r \in Sent /\ request[r] \in Requests
    BY <1>1, ServerStep DEF CheckoutInv, CheckoutTypeOK, Sent
  <1>3. orders' = orders /\ UNCHANGED cartVars
    BY DEF Refuse, Answer
  <1>4. request'[r].server = "stored" <=> request[r].server = "stored"
    BY <1>2 DEF Refuse, Answer, Requests
  <1>5. Awaiting(TheTab)' = Awaiting(TheTab)
    BY <1>1, ServerRequests DEF Undisturbed
  <1>6. OrderIsOnItsWay' <=> OrderIsOnItsWay
    BY <1>1, <1>4, <1>5, ServerStep DEF OrderIsOnItsWay, Awaiting
  <1>7. QED
    BY <1>3, <1>6, Basket DEF BasketIsClear, cartVars

(* Nor does the end of a submit: a success empties the cart whose goods    *)
(* are ordered by then, a failure leaves it.                               *)
LEMMA SettlingMovesNothing ==
  ASSUME Undisturbed, ShopInv, BasketIsClear', NEW r \in Submits, Settle(TheTab, r)
  PROVE  UNCHANGED <<CartOnScreen, orders>>
  <1>1. CheckoutInv /\ PatienceInv /\ TheTab \in Tabs
    BY DEF Undisturbed, ShopInv, NetworkInv
  <1>2. /\ Awaiting(TheTab) = {r} /\ Awaiting(TheTab)' = {}
        /\ TheTab \in open /\ orders' = orders
    BY <1>1, SettleKeepsPatience, SettledTab, SettleStep
  <1>3. OrderIsOnItsWay <=> request[r].server = "stored"
    BY <1>2 DEF OrderIsOnItsWay
  <1>4. CartOnScreen' = OrderItems(cart'[TheTab])
    BY <1>2, SettledCarts DEF BasketIsClear, OrderIsOnItsWay
  <1>5. QED
    BY <1>2, <1>3, <1>4, SettledCarts, Basket DEF BasketIsClear

(* With one tab, a shopper who waits, a network that breaks no exchange    *)
(* and a storage that refuses nothing, checking out is Shop: every order   *)
(* is the whole basket at one instant, and a good leaves it once.          *)
THEOREM CheckoutImplementsShop ==
  ASSUME Undisturbed
  PROVE  CheckoutSpec => ImplementsShop
  <1>1. ShopInv /\ ShopInv' /\ [CheckoutNext]_vars
        => [ShopView!Pick \/ ShopView!Place]_(ShopView!shopVars)
    <2>1. SUFFICES ASSUME ShopInv, ShopInv', [CheckoutNext]_vars
                   PROVE  \/ ShopView!Pick \/ ShopView!Place
                          \/ UNCHANGED <<CartOnScreen, orders>>
      BY DEF ShopView!shopVars
    <2>2. BasketIsClear'
      <3>1. Undisturbed'
        BY DEF Undisturbed, TheTab
      <3>2. (Undisturbed /\ ShopInv)' => BasketIsClear'
        BY Basket, PTL
      <3>3. QED
        BY <2>1, <3>1, <3>2
    <2>3. CASE UNCHANGED vars
      BY <2>3 DEF vars, cartVars, checkoutVars, CartOnScreen, Awaiting, Sent
    <2>4. ASSUME NEW t \in Tabs PROVE t = TheTab
      BY DEF Undisturbed
    <2>5. ASSUME NEW r \in Submits, Break(r) PROVE FALSE
      BY <2>5 DEF Break, Undisturbed
    <2>6. QED
      BY <2>1, <2>2, <2>3, <2>4, <2>5, ShopperPicks, StorePlaces, AnswersMoveNothing,
         SettlingMovesNothing DEF CheckoutNext, Server
  <1>2. ShopInv /\ [CheckoutNext]_vars => ShopInv'
    BY ShopNextInv
  <1>3. QED
    BY <1>1, <1>2, ShopInitInv, ShopInit, PTL DEF CheckoutSpec, ImplementsShop, ShopView!ShopSpec
=============================================================================
