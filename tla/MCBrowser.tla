------------------------------ MODULE MCBrowser ------------------------------
(***************************************************************************)
(* What runs in the browser beside the checkout, for TLC: a behaviour of   *)
(* the run is one of CartStore, with two tabs over one storage key, or one *)
(* of ProductImage, as part says, while the other stays as it began.       *)
(***************************************************************************)
EXTENDS CartStore, ProductImage, TLC

VARIABLE part

(* An image that has come to its end: the product has none, and there is   *)
(* no placeholder.                                                         *)
SettledImage ==
    /\ good = {}
    /\ product = [path |-> Absent, url |-> Absent]
    /\ stage = "placeholder" /\ queued = stage
    /\ effect = FALSE /\ load = "failed" /\ hasty = FALSE

BrowserInit ==
    /\ CartInit
    /\ \/ part = "cart" /\ SettledImage
       \/ part = "image" /\ ImageInit /\ storage = Unreadable

BrowserNext ==
    \/ part = "cart" /\ CartNext /\ UNCHANGED <<part, imageVars>>
    \/ part = "image" /\ ImageNext /\ UNCHANGED <<part, cartVars>>

(* The fairness of an image, while it runs. *)
BrowserFairness ==
    /\ WF_imageVars(part = "image" /\ RunEffect)
    /\ WF_imageVars(part = "image" /\ CommitQueued)
    /\ WF_imageVars(part = "image" /\ (Load \/ OnError))

BrowserSpec == BrowserInit /\ [][BrowserNext]_<<part, cartVars, imageVars>> /\ BrowserFairness
=============================================================================
