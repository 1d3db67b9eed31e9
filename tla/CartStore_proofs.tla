-------------------------- MODULE CartStore_proofs --------------------------
(***************************************************************************)
(* For any number of tabs, products and units: what the storage key holds  *)
(* is the cart of the tab that wrote it, and a reload restores it.         *)
(***************************************************************************)
EXTENDS CartStore, TLAPS

(* What a tab has written is a cart: every line of it passes the checks    *)
(* made when it is read back. *)
WrittenIsCart == writer \in Tabs => storage \in Carts

CartInv == CartTypeOK /\ PersistedCart /\ WrittenIsCart

-----------------------------------------------------------------------------
(* Partial functions. *)

(* A partial function from S to T is a function on a part of S. *)
LEMMA PartialFunctionIntro ==
  ASSUME NEW S, NEW T, NEW D \in SUBSET S, NEW f \in [D -> T]
  PROVE  f \in PartialFunctions(S, T)
  BY DEF PartialFunctions

LEMMA PartialFunctionElim ==
  ASSUME NEW S, NEW T, NEW f \in PartialFunctions(S, T)
  PROVE  DOMAIN f \subseteq S /\ f \in [DOMAIN f -> T]
  <1>1. PICK D \in SUBSET S : f \in [D -> T]
    BY DEF PartialFunctions
  <1>2. QED
    BY <1>1

LEMMA EmptyCartIsCart == EmptyCart \in Carts
  BY PartialFunctionIntro, EmptyCart \in [{} -> Lines] DEF EmptyCart, Carts

(* Changing one line, or dropping one, makes a cart of a cart. *)
LEMMA WithIsCart ==
  ASSUME NEW c \in Carts, NEW p \in Products, NEW line \in Lines
  PROVE  With(c, p, line) \in Carts
  <1>1. DOMAIN c \subseteq Products /\ c \in [DOMAIN c -> Lines]
    BY PartialFunctionElim DEF Carts
  <1>2. With(c, p, line) \in [DOMAIN c \cup {p} -> Lines]
    BY <1>1 DEF With
  <1>3. DOMAIN c \cup {p} \in SUBSET Products
    BY <1>1
  <1>4. QED
    BY <1>2, <1>3, PartialFunctionIntro DEF Carts

LEMMA WithoutIsCart ==
  ASSUME NEW c \in Carts, NEW p \in Products
  PROVE  Without(c, p) \in Carts
  <1>1. DOMAIN c \subseteq Products /\ c \in [DOMAIN c -> Lines]
    BY PartialFunctionElim DEF Carts
  <1>2. Without(c, p) \in [DOMAIN c \ {p} -> Lines]
    BY <1>1 DEF Without
  <1>3. DOMAIN c \ {p} \in SUBSET Products
    BY <1>1
  <1>4. QED
    BY <1>2, <1>3, PartialFunctionIntro DEF Carts

(* A line of a cart. *)
LEMMA LineOfCart ==
  ASSUME NEW c \in Carts, NEW p \in DOMAIN c
  PROVE  c[p] \in Lines
  <1>1. c \in [DOMAIN c -> Lines]
    BY PartialFunctionElim DEF Carts
  <1>2. QED
    BY <1>1

(* A cart is a value the key may hold. *)
LEMMA CartIsRawCart == Carts \subseteq RawCarts
  <1>1. SUFFICES ASSUME NEW c \in Carts PROVE c \in RawCarts
    OBVIOUS
  <1>2. DOMAIN c \subseteq Products /\ c \in [DOMAIN c -> Lines]
    BY PartialFunctionElim DEF Carts
  <1>3. Lines \subseteq RawLines
    BY CartAssumption DEF Lines, RawLines
  <1>4. c \in [DOMAIN c -> RawLines]
    BY <1>2, <1>3
  <1>5. QED
    BY <1>2, <1>4, PartialFunctionIntro DEF RawCarts

-----------------------------------------------------------------------------
(* The reducers make carts of carts. *)

LEMMA IncrementIsCart ==
  ASSUME NEW c \in Carts, NEW p \in Products, NEW s \in Snapshots,
         p \in DOMAIN c => c[p].quantity + One <= MaxQuantity
  PROVE  IncrementItem(c, p, s) \in Carts
  <1>1. CASE p \in DOMAIN c
    <2>1. c[p] \in Lines
      BY <1>1, LineOfCart
    <2>2. [c[p] EXCEPT !.quantity = @ + One] \in Lines
      BY <1>1, <2>1, CartAssumption DEF Lines
    <2>3. QED
      BY <1>1, <2>2, WithIsCart DEF IncrementItem
  <1>2. CASE p \notin DOMAIN c
    <2>1. [snapshot |-> s, quantity |-> One] \in Lines
      BY CartAssumption DEF Lines
    <2>2. QED
      BY <1>2, <2>1, WithIsCart DEF IncrementItem
  <1>3. QED
    BY <1>1, <1>2

LEMMA DecrementIsCart ==
  ASSUME NEW c \in Carts, NEW p \in Products
  PROVE  DecrementItem(c, p) \in Carts
  <1>1. CASE p \notin DOMAIN c
    BY <1>1 DEF DecrementItem
  <1>2. CASE p \in DOMAIN c /\ c[p].quantity <= One
    BY <1>2, WithoutIsCart DEF DecrementItem
  <1>3. CASE p \in DOMAIN c /\ ~ (c[p].quantity <= One)
    <2>1. c[p] \in Lines
      BY <1>3, LineOfCart
    <2>2. [c[p] EXCEPT !.quantity = @ - One] \in Lines
      BY <1>3, <2>1, CartAssumption DEF Lines
    <2>3. QED
      BY <1>3, <2>2, WithIsCart DEF DecrementItem
  <1>4. QED
    BY <1>1, <1>2, <1>3

LEMMA SetQuantityIsCart ==
  ASSUME NEW c \in Carts, NEW p \in Products, NEW s \in Snapshots, NEW n \in 0..MaxQuantity
  PROVE  SetItemQuantity(c, p, s, n) \in Carts
  <1>1. CASE n <= 0
    BY <1>1, WithoutIsCart DEF SetItemQuantity
  <1>2. CASE ~ (n <= 0)
    <2>1. [snapshot |-> s, quantity |-> n] \in Lines
      BY <1>2, CartAssumption DEF Lines
    <2>2. QED
      BY <1>2, <2>1, WithIsCart DEF SetItemQuantity
  <1>3. QED
    BY <1>1, <1>2

(* Reading the key back: always a cart, and the same cart if one was       *)
(* written.                                                                *)
LEMMA LoadIsCart ==
  ASSUME NEW raw \in RawCarts \cup {Unreadable}
  PROVE  LoadInitialCartState(raw) \in Carts
  <1>1. CASE raw = Unreadable
    BY <1>1, EmptyCartIsCart DEF LoadInitialCartState
  <1>2. CASE raw # Unreadable
    <2> DEFINE D == {q \in DOMAIN raw : IsValidCartItem(raw[q])}
    <2>1. DOMAIN raw \subseteq Products /\ raw \in [DOMAIN raw -> RawLines]
      BY <1>2, PartialFunctionElim DEF RawCarts
    <2>2. ASSUME NEW q \in D PROVE raw[q] \in Lines
      <3>1. raw[q] \in RawLines /\ IsValidCartItem(raw[q])
        BY <2>1
      <3>2. QED
        BY <3>1, CartAssumption DEF RawLines, Lines, IsValidCartItem
    <2>3. [p \in D |-> raw[p]] \in [D -> Lines]
      BY <2>2
    <2>4. D \in SUBSET Products
      BY <2>1
    <2>5. LoadInitialCartState(raw) = [p \in D |-> raw[p]]
      BY <1>2 DEF LoadInitialCartState
    <2>6. QED
      BY <2>3, <2>4, <2>5, PartialFunctionIntro DEF Carts
  <1>3. QED
    BY <1>1, <1>2

LEMMA LoadOfWritten ==
  ASSUME NEW c \in Carts
  PROVE  LoadInitialCartState(c) = c
  <1>1. c # Unreadable
    BY CartIsRawCart, CartAssumption
  <1>2. c = [p \in DOMAIN c |-> c[p]]
    BY PartialFunctionElim DEF Carts
  <1>3. ASSUME NEW p \in DOMAIN c PROVE IsValidCartItem(c[p])
    BY LineOfCart, CartAssumption DEF Lines, IsValidCartItem
  <1>4. {q \in DOMAIN c : IsValidCartItem(c[q])} = DOMAIN c
    BY <1>3
  <1>5. QED
    BY <1>1, <1>2, <1>4 DEF LoadInitialCartState

-----------------------------------------------------------------------------
(* The invariant. *)

LEMMA CartInitInv == CartInit => CartInv
  <1>1. SUFFICES ASSUME CartInit PROVE CartInv
    OBVIOUS
  <1>2. CartTypeOK
    BY <1>1, EmptyCartIsCart DEF CartInit, CartTypeOK
  <1>3. PersistedCart /\ WrittenIsCart
    BY <1>1, CartAssumption DEF CartInit, PersistedCart, WrittenIsCart
  <1>4. QED
    BY <1>2, <1>3 DEF CartInv

(* The subscribers after a dispatch: the cart is written, or is the old    *)
(* object.                                                                 *)
LEMMA SaveInv ==
  ASSUME CartInv, NEW t \in Tabs, NEW c \in Carts, NEW fresh \in BOOLEAN,
         Save(t, c, fresh), ~ fresh => c = cart[t]
  PROVE  CartInv'
  <1>1. CartTypeOK'
    BY CartIsRawCart DEF CartInv, CartTypeOK, Save
  <1>2. PersistedCart' /\ WrittenIsCart'
    BY DEF CartInv, CartTypeOK, Save, PersistedCart, WrittenIsCart
  <1>3. QED
    BY <1>1, <1>2 DEF CartInv

(* setItem throws: whatever tab t shows then, it is not the writer.        *)
LEMMA FailToSaveInv ==
  ASSUME CartInv, NEW t \in Tabs, NEW c \in Carts, FailToSave(t, c),
         NEW d \in Carts, screen' = [screen EXCEPT ![t] = d]
  PROVE  CartInv'
  <1>1. CartTypeOK'
    BY DEF CartInv, CartTypeOK, FailToSave
  <1>2. writer' # t
    BY CartAssumption DEF FailToSave
  <1>3. writer' \in Tabs => writer' = writer
    BY CartAssumption DEF FailToSave
  <1>4. PersistedCart' /\ WrittenIsCart'
    BY <1>2, <1>3 DEF CartInv, CartTypeOK, FailToSave, PersistedCart, WrittenIsCart
  <1>5. QED
    BY <1>1, <1>4 DEF CartInv

LEMMA DispatchInv ==
  ASSUME CartInv, NEW t \in Tabs, NEW c \in Carts, NEW fresh \in BOOLEAN,
         Dispatch(t, c, fresh), ~ fresh => c = cart[t]
  PROVE  CartInv'
  <1>1. CASE Save(t, c, fresh)
    BY <1>1, SaveInv
  <1>2. CASE FailToSave(t, c) /\ UNCHANGED screen
    <2>1. screen[t] \in Carts /\ screen' = [screen EXCEPT ![t] = screen[t]]
      BY <1>2 DEF CartInv, CartTypeOK
    <2>2. QED
      BY <1>2, <2>1, FailToSaveInv
  <1>3. QED
    BY <1>1, <1>2 DEF Dispatch

(* A rendering shows the cart. *)
LEMMA RerenderInv ==
  ASSUME CartInv, NEW t \in Tabs, Rerender(t)
  PROVE  CartInv' /\ cart' = cart
  BY DEF CartInv, CartTypeOK, PersistedCart, WrittenIsCart, Rerender

(* Opening or reloading a tab.  If it is the one that wrote, closed since  *)
(* or not, it reads back what it wrote.                                    *)
LEMMA OpenTabInv ==
  ASSUME CartInv, NEW t \in Tabs, OpenTab(t)
  PROVE  CartInv'
  <1>1. LoadInitialCartState(storage) \in Carts
    BY LoadIsCart DEF CartInv, CartTypeOK
  <1>2. CartTypeOK'
    BY <1>1 DEF CartInv, CartTypeOK, OpenTab
  <1>3. WrittenIsCart'
    BY DEF CartInv, WrittenIsCart, OpenTab
  <1>4. ASSUME writer \in open' PROVE storage = cart'[writer] /\ screen'[writer] = cart'[writer]
    <2>1. CASE writer = t
      <3>1. storage \in Carts
        BY <2>1 DEF CartInv, WrittenIsCart
      <3>2. cart'[t] = LoadInitialCartState(storage) /\ screen'[t] = cart'[t]
        BY DEF CartInv, CartTypeOK, OpenTab
      <3>3. QED
        BY <2>1, <3>1, <3>2, LoadOfWritten
    <2>2. CASE writer # t
      BY <1>4, <2>2 DEF CartInv, CartTypeOK, PersistedCart, OpenTab
    <2>3. QED
      BY <2>1, <2>2
  <1>5. PersistedCart'
    BY <1>4 DEF PersistedCart, OpenTab
  <1>6. QED
    BY <1>2, <1>3, <1>5 DEF CartInv

LEMMA CloseTabInv ==
  ASSUME CartInv, NEW t \in Tabs, CloseTab(t)
  PROVE  CartInv'
  <1>1. CartTypeOK'
    BY EmptyCartIsCart DEF CartInv, CartTypeOK, CloseTab
  <1>2. PersistedCart' /\ WrittenIsCart'
    BY DEF CartInv, CartTypeOK, PersistedCart, WrittenIsCart, CloseTab
  <1>3. QED
    BY <1>1, <1>2 DEF CartInv

(* The reducers, dispatched. *)
LEMMA ReducerInv ==
  ASSUME CartInv, NEW t \in Tabs, NEW p \in Products
  PROVE  /\ Decrement(t, p) \/ Remove(t, p) => CartInv'
         /\ \A s \in Snapshots : Increment(t, p, s) => CartInv'
         /\ \A s \in Snapshots, n \in 0..MaxQuantity : SetQuantity(t, p, s, n) => CartInv'
  <1>1. cart[t] \in Carts
    BY DEF CartInv, CartTypeOK
  <1>2. ASSUME Decrement(t, p) PROVE CartInv'
    <2>1. p \notin DOMAIN cart[t] => DecrementItem(cart[t], p) = cart[t]
      BY DEF DecrementItem
    <2>2. DecrementItem(cart[t], p) \in Carts
      BY <1>1, DecrementIsCart
    <2>3. (p \in DOMAIN cart[t]) \in BOOLEAN
      OBVIOUS
    <2>4. Dispatch(t, DecrementItem(cart[t], p), p \in DOMAIN cart[t])
      BY <1>2 DEF Decrement
    <2>5. QED
      BY <2>1, <2>2, <2>3, <2>4, DispatchInv
  <1>3. ASSUME Remove(t, p) PROVE CartInv'
    <2>1. p \notin DOMAIN cart[t] => Without(cart[t], p) = cart[t]
      BY <1>1, PartialFunctionElim DEF Without, Carts
    <2>2. Without(cart[t], p) \in Carts
      BY <1>1, WithoutIsCart
    <2>3. (p \in DOMAIN cart[t]) \in BOOLEAN
      OBVIOUS
    <2>4. Dispatch(t, Without(cart[t], p), p \in DOMAIN cart[t])
      BY <1>3 DEF Remove
    <2>5. QED
      BY <2>1, <2>2, <2>3, <2>4, DispatchInv
  <1>4. ASSUME NEW s \in Snapshots, Increment(t, p, s) PROVE CartInv'
    <2>1. IncrementItem(cart[t], p, s) \in Carts
      BY <1>1, <1>4, IncrementIsCart DEF Increment
    <2>2. Dispatch(t, IncrementItem(cart[t], p, s), TRUE)
      BY <1>4 DEF Increment
    <2>3. QED
      BY <2>1, <2>2, DispatchInv
  <1>5. ASSUME NEW s \in Snapshots, NEW n \in 0..MaxQuantity, SetQuantity(t, p, s, n)
        PROVE  CartInv'
    <2> DEFINE fresh == n > 0 \/ p \in DOMAIN cart[t]
    <2>1. ~ fresh => SetItemQuantity(cart[t], p, s, n) = cart[t]
      BY <1>1, PartialFunctionElim, CartAssumption DEF SetItemQuantity, Without, Carts
    <2>2. SetItemQuantity(cart[t], p, s, n) \in Carts
      BY <1>1, SetQuantityIsCart
    <2>3. fresh \in BOOLEAN
      OBVIOUS
    <2>4. Dispatch(t, SetItemQuantity(cart[t], p, s, n), fresh)
      BY <1>5 DEF SetQuantity
    <2>5. QED
      BY <2>1, <2>2, <2>3, <2>4, DispatchInv
  <1>6. QED
    BY <1>2, <1>3, <1>4, <1>5

(* clearCart after an order. *)
LEMMA ClearInv ==
  ASSUME CartInv, NEW t \in Tabs, Clear(t)
  PROVE  CartInv'
  BY EmptyCartIsCart, DispatchInv DEF Clear

LEMMA CartNextInv == CartInv /\ [CartNext]_cartVars => CartInv'
  <1>1. SUFFICES ASSUME CartInv, [CartNext]_cartVars PROVE CartInv'
    OBVIOUS
  <1>2. CASE UNCHANGED cartVars
    BY <1>1, <1>2 DEF cartVars, CartInv, CartTypeOK, PersistedCart, WrittenIsCart
  <1>3. ASSUME NEW t \in Tabs, OpenTab(t) PROVE CartInv'
    BY <1>1, <1>3, OpenTabInv
  <1>4. ASSUME NEW t \in Tabs, CloseTab(t) PROVE CartInv'
    BY <1>1, <1>4, CloseTabInv
  <1>5. ASSUME NEW t \in Tabs, Clear(t) \/ Rerender(t) PROVE CartInv'
    BY <1>1, <1>5, ClearInv, RerenderInv
  <1>6. ASSUME NEW t \in Tabs, NEW p \in Products,
               \/ Decrement(t, p)
               \/ Remove(t, p)
               \/ \E s \in Snapshots :
                     \/ Increment(t, p, s)
                     \/ \E n \in 0..MaxQuantity : SetQuantity(t, p, s, n)
        PROVE  CartInv'
    BY <1>1, <1>6, ReducerInv
  <1>7. QED
    BY <1>1, <1>2, <1>3, <1>4, <1>5, <1>6 DEF CartNext

(* Types: whatever was stored before, no tab ever has a malformed line. *)
THEOREM CartTypes == CartSpec => []CartTypeOK
  <1>1. CartInv => CartTypeOK
    BY DEF CartInv
  <1>2. QED
    BY <1>1, CartInitInv, CartNextInv, PTL DEF CartSpec

(* The key follows the tab that wrote it, for any number of tabs. *)
THEOREM StorageFollowsWriter == CartSpec => []PersistedCart
  <1>1. CartInv => PersistedCart
    BY DEF CartInv
  <1>2. QED
    BY <1>1, CartInitInv, CartNextInv, PTL DEF CartSpec

(* What the tab that wrote last reads back is the cart it has. *)
LEMMA ReloadOfWriter ==
  ASSUME CartInv, NEW t \in Tabs, OpenTab(t), t \in open, t = writer
  PROVE  cart'[t] = cart[t]
  <1>1. storage = cart[t] /\ storage \in Carts
    BY DEF CartInv, PersistedCart, WrittenIsCart
  <1>2. cart'[t] = LoadInitialCartState(storage)
    BY DEF CartInv, CartTypeOK, OpenTab
  <1>3. QED
    BY <1>1, <1>2, LoadOfWritten

(* A reload of the tab that wrote gives its cart back. *)
THEOREM ReloadRestores == CartSpec => ReloadRestoresCart
  <1>1. CartInv /\ [CartNext]_cartVars
        => [\A t \in Tabs : OpenTab(t) /\ t \in open /\ t = writer
                => cart'[t] = cart[t]]_cartVars
    BY ReloadOfWriter
  <1>2. QED
    BY <1>1, CartInitInv, CartNextInv, PTL DEF CartSpec, ReloadRestoresCart
=============================================================================
