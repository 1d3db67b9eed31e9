--------------------------- MODULE PatientCheckout ---------------------------
(***************************************************************************)
(* Checkout in one tab, with a patient shopper (MayLeave = FALSE), a sound *)
(* network (MayBreak = FALSE) and a storage that refuses nothing           *)
(* (MayNotSave = FALSE) behaves as Shop does: an order is placed at the    *)
(* instant its document is stored.                                         *)
(***************************************************************************)
EXTENDS Checkout

TheTab == CHOOSE t \in Tabs : TRUE

(* The cart of the tab; what it will be when it is opened; nothing from    *)
(* the store of its order until clearCart.                                 *)
CartOnScreen ==
    CASE TheTab \notin open -> OrderItems(LoadInitialCartState(storage))
      [] \E r \in Awaiting(TheTab) : request[r].server = "stored" -> OrderItems(EmptyCart)
      [] OTHER -> OrderItems(cart[TheTab])

ShopView == INSTANCE Shop WITH
    Goods <- Products, Names <- Submits, One <- One, Most <- MaxQuantity,
    basket <- CartOnScreen,
    placed <- {[name |-> o.id, goods |-> o.items] : o \in orders}

(* Every behaviour is one of Shop: an order takes the whole cart, exactly  *)
(* once, and a failed submit takes nothing.                                *)
ImplementsShop == ShopView!ShopSpec
=============================================================================
