-------------------------------- MODULE Shop --------------------------------
(***************************************************************************)
(* What a shopper takes checking out to be: a basket, filled and emptied   *)
(* by hand, and an instant at which all of the basket becomes one order.   *)
(* No unit is ordered twice, and none leaves the basket but by hand or     *)
(* into an order.                                                          *)
(***************************************************************************)
EXTENDS Integers

CONSTANTS Goods,   \* what can be bought
          Names,   \* names orders get
          One,     \* the parts of one unit
          Most     \* bound on the parts of one good

VARIABLES basket,  \* parts of each good in the basket
          placed   \* the orders placed: a name and what was in the basket

shopVars == <<basket, placed>>

Baskets == UNION {[G -> 1..Most] : G \in SUBSET Goods}
NothingIn == [g \in {} |-> 0]

PartsOf(b, g) == IF g \in DOMAIN b THEN b[g] ELSE 0

ShopInit == basket \in Baskets /\ placed = {}

(* One unit more of one good, or one less, or what is left of the last.    *)
Pick ==
    \E g \in Goods, b \in Baskets :
        /\ \/ PartsOf(b, g) = PartsOf(basket, g) + One
           \/ PartsOf(b, g) = PartsOf(basket, g) - One
           \/ PartsOf(basket, g) <= One /\ PartsOf(b, g) = 0
        /\ \A h \in Goods \ {g} : PartsOf(b, h) = PartsOf(basket, h)
        /\ basket' = b
        /\ UNCHANGED placed

Place ==
    /\ basket # NothingIn
    /\ \E n \in Names :
          /\ \A order \in placed : order.name # n
          /\ placed' = placed \cup {[name |-> n, goods |-> basket]}
    /\ basket' = NothingIn

ShopSpec == ShopInit /\ [][Pick \/ Place]_shopVars
=============================================================================
