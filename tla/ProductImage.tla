---------------------------- MODULE ProductImage ----------------------------
(***************************************************************************)
(* One mounted ProductImage: an <img> that falls back from imagePath to    *)
(* imageUrl to the placeholder as error events come in, and an effect that *)
(* starts over when the product it is given is another object.             *)
(*                                                                         *)
(* React and the browser are external.  A commit sets src and leaves the   *)
(* effect of a new product to a later task; updates of the state queue up  *)
(* until the next render, before which an effect still pending is run.     *)
(* The browser loads what src says, and reports a failure once.            *)
(***************************************************************************)
EXTENDS Integers

CONSTANTS
    Paths,        \* images of the catalog API, as imagePath names them
    Urls,         \* images elsewhere, as imageUrl names them
    Placeholder,  \* PLACEHOLDER_SRC
    Absent,       \* a field that is null; no src
    NullPath      \* what the catalog API's address and a null path make

VARIABLES
    good,     \* the images there are
    product,  \* the product of the last commit
    stage,    \* the stage of the last commit
    queued,   \* the stage the updates queued since then lead to
    effect,   \* the effect of the last commit has still to run
    load,     \* what has become of the image src names
    hasty     \* history: an error event came while a stage was not yet shown

imageVars == <<good, product, stage, queued, effect, load, hasty>>

Stages == {"path", "url", "placeholder"}
Images == Paths \cup Urls \cup {Placeholder}
Pictures == [path : Paths \cup {Absent}, url : Urls \cup {Absent}]

ASSUME ImageAssumption ==
    /\ Paths \cap Urls = {}
    /\ Placeholder \notin Paths \cup Urls
    /\ {Absent, NullPath} \cap Images = {}
    /\ Absent # NullPath

-----------------------------------------------------------------------------
FirstStage(p) == CASE p.path # Absent -> "path"
                   [] p.path = Absent /\ p.url # Absent -> "url"
                   [] OTHER -> "placeholder"

SrcForStage(s, p) == CASE s = "path" /\ p.path = Absent -> NullPath
                       [] s = "path" /\ p.path # Absent -> p.path
                       [] s = "url" -> p.url
                       [] OTHER -> Placeholder

(* Bug: straight to the placeholder. *)
NextStageSkipping(s, p) == "placeholder"

(* Bug: a placeholder that fails starts the chain over. *)
NextStageStartingOver(s, p) ==
    CASE s = "path" /\ p.url # Absent -> "url"
      [] s = "placeholder" -> FirstStage(p)
      [] OTHER -> "placeholder"

NextStage(s, p) == IF s = "path" /\ p.url # Absent THEN "url" ELSE "placeholder"

Src == SrcForStage(stage, product)

(* React commits stage s of product p.  The browser begins to load when    *)
(* src is another than before.                                             *)
Commit(s, p) ==
    /\ product' = p
    /\ stage' = s
    /\ queued' = s
    /\ load' = CASE SrcForStage(s, p) = Src -> load
                 [] SrcForStage(s, p) # Src /\ SrcForStage(s, p) = Absent -> "none"
                 [] OTHER -> "loading"
    /\ UNCHANGED <<good, hasty>>

-----------------------------------------------------------------------------
(* The component is mounted. *)
ImageInit ==
    /\ good \in SUBSET Images
    /\ product \in Pictures
    /\ stage = FirstStage(product)
    /\ queued = stage
    /\ effect = TRUE
    /\ load = "loading"
    /\ hasty = FALSE

(* useEffect(..., [product]). *)
RunEffect ==
    /\ effect
    /\ effect' = FALSE
    /\ queued' = FirstStage(product)
    /\ UNCHANGED <<good, product, stage, load, hasty>>

CommitQueued ==
    /\ ~ effect
    /\ queued # stage
    /\ Commit(queued, product)
    /\ UNCHANGED effect

(* The parent renders with another product object, be it of equal content. *)
ChangeProduct(p) ==
    /\ Commit(IF effect THEN FirstStage(product) ELSE queued, p)
    /\ effect' = TRUE

Load ==
    /\ load = "loading"
    /\ Src \in good
    /\ load' = "loaded"
    /\ UNCHANGED <<good, product, stage, queued, effect, hasty>>

(* The error event: setStage(current => nextStage(current, product)). *)
OnError ==
    /\ load = "loading"
    /\ Src \notin good
    /\ load' = "failed"
    /\ queued' = NextStage(queued, product)
    /\ hasty' = (hasty \/ effect \/ queued # stage)
    /\ UNCHANGED <<good, product, stage, effect>>

ImageNext ==
    \/ RunEffect
    \/ CommitQueued
    \/ \E p \in Pictures : ChangeProduct(p)
    \/ Load
    \/ OnError

ImageSpec == ImageInit /\ [][ImageNext]_imageVars

(* React runs its tasks, and the browser comes to an end with every image. *)
ImageFairness ==
    /\ WF_imageVars(RunEffect)
    /\ WF_imageVars(CommitQueued)
    /\ WF_imageVars(Load \/ OnError)

-----------------------------------------------------------------------------
ImageTypeOK ==
    /\ good \in SUBSET Images
    /\ product \in Pictures
    /\ {stage, queued} \subseteq Stages
    /\ effect \in BOOLEAN
    /\ load \in {"none", "loading", "loaded", "failed"}
    /\ hasty \in BOOLEAN

(* Nothing is under way. *)
Quiet == ~ effect /\ queued = stage /\ load # "loading"

(* The first of a product's images that is there. *)
BestStage(p) == CASE p.path \in good -> "path"
                  [] p.path \notin good /\ p.url \in good -> "url"
                  [] OTHER -> "placeholder"

(* As long as no error event overtook React, what is shown in the end is   *)
(* the first of the product's own images that is there, and the            *)
(* placeholder only if none is, whatever the products before it failed at  *)
(* and however a change of the product falls between an error and the      *)
(* render it asks for (ProductImage.tsx 11-24, 58-63).                     *)
FallbackIsExact == Quiet /\ ~ hasty => stage = BestStage(product)

(* For a product that stays the chain comes to an end: no event and no     *)
(* effect starts it over for ever, not even a placeholder that fails.      *)
ImageSettles ==
    <>[][\A p \in Pictures : ~ ChangeProduct(p)]_imageVars => <>[]Quiet

-----------------------------------------------------------------------------
(* A claim the code does not keep: lines 11-24 say that the next source is *)
(* tried once the one before it failed.                                    *)
FailedIsFollowed == Quiet /\ load = "failed" => stage = "placeholder"
=============================================================================
