----------------------------- MODULE CartStore -----------------------------
(***************************************************************************)
(* The shopping cart of the client: the Redux slice cart (cartSlice.ts)    *)
(* of every open browser tab, and the one localStorage key all tabs of the *)
(* browser share, which store.ts writes after a dispatch.                  *)
(*                                                                         *)
(* A cart is Record<number, CartItem>: here a function whose domain is the *)
(* products in it.  Of a line the model keeps its quantity and, as one     *)
(* value, the snapshot taken when it was added (name, category, unit price *)
(* and unit).  A quantity is a number, which a stored value may make other *)
(* than whole: the model counts it in parts, One of which make one.        *)
(*                                                                         *)
(* The store calls its subscribers in the order they subscribed.  The one  *)
(* of store.ts comes first: when localStorage throws, React's is not       *)
(* called, and the screen keeps the cart of its last rendering.            *)
(***************************************************************************)
EXTENDS Integers

CONSTANTS
    Tabs,          \* browser tabs (each loads the store module once)
    Products,      \* product ids
    Snapshots,     \* what a card may show of a product: name, price, unit
    NotASnapshot,  \* stored fields of the wrong type, or of another product
    Unreadable,    \* no stored value, or JSON / a shape that is not a cart
    NoTab,         \* nobody has written the key yet
    One,           \* the parts of a quantity of 1
    MaxQuantity,   \* bound on a line's quantity, in parts
    MayNotSave     \* localStorage.setItem may throw (quota, storage denied)

VARIABLES
    open,     \* the tabs that are open
    cart,     \* cart[t]: the slice's state in tab t
    storage,  \* the value under CART_STORAGE_KEY
    screen,   \* screen[t]: the cart tab t last rendered
    writer    \* history: the tab whose cart is in storage, by its last write

cartVars == <<open, cart, storage, screen, writer>>

Lines == [snapshot : Snapshots, quantity : 1..MaxQuantity]
RawLines == [snapshot : Snapshots \cup {NotASnapshot}, quantity : 0..MaxQuantity]

PartialFunctions(S, T) == UNION {[D -> T] : D \in SUBSET S}

Carts == PartialFunctions(Products, Lines)
RawCarts == PartialFunctions(Products, RawLines)

ASSUME CartAssumption ==
    /\ One \in Nat \ {0}
    /\ MaxQuantity \in Nat /\ MaxQuantity >= One
    /\ MayNotSave \in BOOLEAN
    /\ NotASnapshot \notin Snapshots
    /\ NoTab \notin Tabs
    /\ Unreadable \notin RawCarts

EmptyCart == [p \in {} |-> p]
IsEmpty(c) == DOMAIN c = {}

-----------------------------------------------------------------------------
(* The reducers. *)

With(c, p, line) == [q \in DOMAIN c \cup {p} |-> IF q = p THEN line ELSE c[q]]
Without(c, p) == [q \in DOMAIN c \ {p} |-> c[q]]

(* Bug: topping up takes the new price over. *)
IncrementAndReprice(c, p, s) ==
    With(c, p, [snapshot |-> s,
                quantity |-> IF p \in DOMAIN c THEN c[p].quantity + One ELSE One])

IncrementItem(c, p, s) ==
    IF p \in DOMAIN c THEN With(c, p, [c[p] EXCEPT !.quantity = @ + One])
                      ELSE With(c, p, [snapshot |-> s, quantity |-> One])

DecrementItem(c, p) ==
    CASE p \notin DOMAIN c -> c
      [] p \in DOMAIN c /\ c[p].quantity <= One -> Without(c, p)
      [] OTHER -> With(c, p, [c[p] EXCEPT !.quantity = @ - One])

SetItemQuantity(c, p, s, n) ==
    IF n <= 0 THEN Without(c, p) ELSE With(c, p, [snapshot |-> s, quantity |-> n])

-----------------------------------------------------------------------------
(* Reading the key back, line by line. *)

(* Bugs: a check forgotten, or off by one. *)
IsWellTyped(line) == line.snapshot \in Snapshots
IsMoreThanOne(line) == line.snapshot \in Snapshots /\ line.quantity > One

IsValidCartItem(line) == line.snapshot \in Snapshots /\ line.quantity > 0

LoadInitialCartState(raw) ==
    IF raw = Unreadable
    THEN EmptyCart
    ELSE [p \in {q \in DOMAIN raw : IsValidCartItem(raw[q])} |-> raw[p]]

(* The store's subscribers after a reducer returned cart c: a new object,  *)
(* which is what fresh says, is written as a whole, and the tab renders.   *)
(* Immer hands back the old object only when nothing was assigned or       *)
(* deleted.                                                                *)
Save(t, c, fresh) ==
    /\ t \in open
    /\ cart' = [cart EXCEPT ![t] = c]
    /\ storage' = IF fresh THEN c ELSE storage
    /\ screen' = [screen EXCEPT ![t] = c]
    /\ writer' = IF fresh THEN t ELSE writer
    /\ UNCHANGED open

(* setItem throws, out of dispatch and to the handler that called it.      *)
(* previousCartState is the new cart by then: nothing tries again.         *)
FailToSave(t, c) ==
    /\ MayNotSave
    /\ t \in open
    /\ cart' = [cart EXCEPT ![t] = c]
    /\ writer' = IF writer = t THEN NoTab ELSE writer
    /\ UNCHANGED <<open, storage>>

Dispatch(t, c, fresh) ==
    \/ Save(t, c, fresh)
    \/ fresh /\ FailToSave(t, c) /\ UNCHANGED screen

-----------------------------------------------------------------------------
CartInit ==
    /\ open = {}
    /\ cart = [t \in Tabs |-> EmptyCart]
    /\ storage \in RawCarts \cup {Unreadable}
    /\ screen = cart
    /\ writer = NoTab

(* A tab is opened, or reloaded: the module creates the store afresh.  A   *)
(* reloaded writer still agrees with the key; a reloaded other tab does    *)
(* not become the writer.                                                  *)
OpenTab(t) ==
    /\ open' = open \cup {t}
    /\ cart' = [cart EXCEPT ![t] = LoadInitialCartState(storage)]
    /\ screen' = [screen EXCEPT ![t] = cart'[t]]
    /\ UNCHANGED <<storage, writer>>

(* Closing a tab forgets its memory. *)
CloseTab(t) ==
    /\ t \in open
    /\ open' = open \ {t}
    /\ cart' = [cart EXCEPT ![t] = EmptyCart]
    /\ screen' = [screen EXCEPT ![t] = EmptyCart]
    /\ UNCHANGED <<storage, writer>>

(* Anything else that renders tab t: another route, category or language,  *)
(* or a dispatch that leaves the cart alone.  It shows the cart as it is.  *)
Rerender(t) ==
    /\ t \in open
    /\ screen' = [screen EXCEPT ![t] = cart[t]]
    /\ UNCHANGED <<open, cart, storage, writer>>

Increment(t, p, s) ==
    /\ p \in DOMAIN cart[t] => cart[t][p].quantity + One <= MaxQuantity
    /\ Dispatch(t, IncrementItem(cart[t], p, s), TRUE)

Decrement(t, p) == Dispatch(t, DecrementItem(cart[t], p), p \in DOMAIN cart[t])

SetQuantity(t, p, s, n) ==
    Dispatch(t, SetItemQuantity(cart[t], p, s, n), n > 0 \/ p \in DOMAIN cart[t])

Remove(t, p) == Dispatch(t, Without(cart[t], p), p \in DOMAIN cart[t])

(* Bug: the subscriber takes the emptied cart for the old object. *)
ClearUnsaved(t) == Save(t, EmptyCart, FALSE)

(* state.items = {} assigns a new object even when the cart is empty. *)
Clear(t) == Dispatch(t, EmptyCart, TRUE)

CartNext ==
    \E t \in Tabs :
        \/ OpenTab(t)
        \/ CloseTab(t)
        \/ Rerender(t)
        \/ Clear(t)
        \/ \E p \in Products :
              \/ Decrement(t, p)
              \/ Remove(t, p)
              \/ \E s \in Snapshots :
                    \/ Increment(t, p, s)
                    \/ \E n \in 0..MaxQuantity : SetQuantity(t, p, s, n)

CartSpec == CartInit /\ [][CartNext]_cartVars

-----------------------------------------------------------------------------
(* Types; every line of a live cart has a quantity above zero. *)
CartTypeOK ==
    /\ open \subseteq Tabs
    /\ cart \in [Tabs -> Carts]
    /\ storage \in RawCarts \cup {Unreadable}
    /\ screen \in [Tabs -> Carts]
    /\ writer \in Tabs \cup {NoTab}

(* What the key holds is the whole cart of the tab that wrote it last, and *)
(* that tab shows it, as long as it is open and no later write of its own  *)
(* failed: no dispatch of it, and no reload, goes by without key and       *)
(* screen following.  Another open tab may differ: it never rereads the    *)
(* key (store.ts 21-33, cartSlice.ts 49-75).                               *)
PersistedCart == writer \in open => storage = cart[writer] /\ screen[writer] = cart[writer]

(* Reloading the tab that wrote last gives back exactly the cart it had    *)
(* (client/README.md: "Cart persists across a page reload").               *)
ReloadRestoresCart ==
    [][\A t \in Tabs : OpenTab(t) /\ t \in open /\ t = writer => cart'[t] = cart[t]]_cartVars

=============================================================================
