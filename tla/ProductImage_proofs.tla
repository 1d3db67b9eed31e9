------------------------ MODULE ProductImage_proofs ------------------------
(***************************************************************************)
(* For any images and products: as long as no error event overtakes React, *)
(* an image that has come to rest shows the first of its product's images  *)
(* that is there.                                                          *)
(***************************************************************************)
EXTENDS ProductImage, TLAPS

(* Stage s is one of the product's, and what comes before it is not there. *)
Reached(s) ==
    CASE s = "path" -> product.path # Absent
      [] s = "url" -> product.url # Absent /\ product.path \notin good
      [] OTHER -> product.path \notin good /\ product.url \notin good

(* FallbackIsExact speaks of an image at rest.  Before it is, the updates  *)
(* lead to a stage that is reached, once the effect has run; and a failure *)
(* on screen is followed, or the placeholder's own.                        *)
ImageInv ==
    /\ ImageTypeOK
    /\ load = "loaded" => Src \in good
    /\ load = "none" => Src = Absent
    /\ ~ hasty => /\ ~ effect => Reached(queued)
                  /\ load = "failed" => \/ stage = "placeholder"
                                        \/ ~ effect /\ queued = NextStage(stage, product)

-----------------------------------------------------------------------------
LEMMA PictureFields ==
  ASSUME NEW p \in Pictures
  PROVE  p.path \in Paths \cup {Absent} /\ p.url \in Urls \cup {Absent}
  BY DEF Pictures

LEMMA StageTypes ==
  ASSUME NEW p \in Pictures, NEW s \in Stages
  PROVE  FirstStage(p) \in Stages /\ NextStage(s, p) \in Stages
  BY DEF FirstStage, NextStage, Stages

(* The first stage of the product is always reached. *)
LEMMA FirstIsReached ==
  ASSUME ImageTypeOK
  PROVE  Reached(FirstStage(product))
  BY PictureFields, ImageAssumption DEF ImageTypeOK, Reached, FirstStage, Images

(* After a failure of the stage that is shown, the next one is reached. *)
LEMMA NextIsReached ==
  ASSUME ImageTypeOK, Reached(stage), Src \notin good
  PROVE  Reached(NextStage(stage, product))
  BY PictureFields, ImageAssumption
     DEF ImageTypeOK, Reached, NextStage, Src, SrcForStage, Images, Stages

(* The next stage never shows the same src again, except after the         *)
(* placeholder.                                                            *)
LEMMA NextSrcDiffers ==
  ASSUME NEW p \in Pictures, NEW q \in Pictures, NEW s \in {"path", "url"}
  PROVE  SrcForStage(NextStage(s, p), q) # SrcForStage(s, p)
  BY PictureFields, ImageAssumption DEF NextStage, SrcForStage, Images

(* Nor does any other stage show the placeholder. *)
LEMMA OnlyPlaceholder ==
  ASSUME NEW p \in Pictures, NEW s \in Stages, SrcForStage(s, p) = Placeholder
  PROVE  s = "placeholder"
  BY PictureFields, ImageAssumption DEF SrcForStage, Images, Stages

LEMMA ImageInitInv == ImageInit => ImageInv
  <1>1. SUFFICES ASSUME ImageInit PROVE ImageInv
    OBVIOUS
  <1>2. ImageTypeOK
    BY <1>1 DEF ImageInit, ImageTypeOK, FirstStage, Stages
  <1>3. QED
    BY <1>1, <1>2 DEF ImageInit, ImageInv

(* A commit of a stage, by a render that is due or with another product.   *)
LEMMA CommitStep ==
  ASSUME ImageInv, NEW s \in Stages, NEW p \in Pictures, Commit(s, p), effect' \in BOOLEAN
  PROVE  /\ ImageTypeOK'
         /\ load' = "loaded" => Src' \in good'
         /\ load' = "none" => Src' = Absent
         /\ load' = "failed" => load = "failed" /\ SrcForStage(s, p) = Src
  <1>1. product' = p /\ stage' = s /\ queued' = s /\ UNCHANGED <<good, hasty>>
    BY DEF Commit
  <1>2. Src' = SrcForStage(s, p)
    BY <1>1 DEF Src, SrcForStage
  <1>3. \/ SrcForStage(s, p) = Src /\ load' = load
        \/ SrcForStage(s, p) = Absent /\ load' = "none"
        \/ load' = "loading"
    BY DEF Commit
  <1>4. ImageTypeOK'
    BY <1>1, <1>3 DEF ImageInv, ImageTypeOK
  <1>5. QED
    BY <1>1, <1>2, <1>3, <1>4 DEF ImageInv

LEMMA ImageNextInv == ImageInv /\ [ImageNext]_imageVars => ImageInv'
  <1>1. SUFFICES ASSUME ImageInv, [ImageNext]_imageVars PROVE ImageInv'
    OBVIOUS
  <1>2. ImageTypeOK /\ product \in Pictures /\ stage \in Stages /\ queued \in Stages
    BY <1>1 DEF ImageInv, ImageTypeOK
  <1>3. CASE RunEffect
    <2>1. ImageTypeOK' /\ Src' = Src
      BY <1>2, <1>3, StageTypes DEF RunEffect, ImageTypeOK, Src, SrcForStage
    <2>2. Reached(FirstStage(product))'
      BY <1>2, <1>3, FirstIsReached DEF RunEffect, Reached, FirstStage
    <2>3. Reached(queued)'
      BY <1>3, <2>2 DEF RunEffect, Reached, FirstStage
    <2>4. QED
      BY <1>1, <1>3, <2>1, <2>3 DEF RunEffect, ImageInv
  <1>4. CASE CommitQueued
    <2>1. Commit(queued, product) /\ ~ effect /\ effect' = effect /\ queued # stage
      BY <1>4 DEF CommitQueued
    <2>2. UNCHANGED <<good, product, queued, hasty>>
      BY <2>1 DEF Commit
    <2>3. /\ ImageTypeOK'
          /\ load' = "loaded" => Src' \in good'
          /\ load' = "none" => Src' = Absent
          /\ load' = "failed" => load = "failed" /\ SrcForStage(queued, product) = Src
      BY <1>1, <1>2, <2>1, CommitStep DEF ImageInv, ImageTypeOK
    <2>4. ASSUME ~ hasty PROVE Reached(queued)'
      BY <1>1, <2>1, <2>2, <2>4 DEF ImageInv, Reached
    <2>5. ASSUME ~ hasty, load' = "failed" PROVE FALSE
      <3>1. load = "failed" /\ SrcForStage(queued, product) = Src
        BY <2>3, <2>5
      <3>2. stage = "placeholder"
        BY <1>1, <1>2, <2>1, <2>5, <3>1, NextSrcDiffers DEF ImageInv, Src, Stages
      <3>3. SrcForStage(queued, product) = Placeholder
        BY <3>1, <3>2 DEF Src, SrcForStage
      <3>4. QED
        BY <1>2, <2>1, <3>2, <3>3, OnlyPlaceholder
    <2>6. QED
      BY <2>2, <2>3, <2>4, <2>5 DEF ImageInv
  <1>5. ASSUME NEW p \in Pictures, ChangeProduct(p) PROVE ImageInv'
    <2> DEFINE s == IF effect THEN FirstStage(product) ELSE queued
    <2>1. s \in Stages /\ Commit(s, p) /\ effect' = TRUE
      BY <1>2, <1>5, StageTypes DEF ChangeProduct
    <2>2. stage' = s /\ hasty' = hasty
      BY <2>1 DEF Commit
    <2>3. /\ ImageTypeOK'
          /\ load' = "loaded" => Src' \in good'
          /\ load' = "none" => Src' = Absent
          /\ load' = "failed" => load = "failed" /\ SrcForStage(s, p) = Src
      BY <1>1, <2>1, CommitStep
    <2>4. ASSUME ~ hasty, load' = "failed" PROVE s = "placeholder"
      <3>1. load = "failed" /\ SrcForStage(s, p) = Src
        BY <2>3, <2>4
      <3>2. CASE stage = "placeholder"
        <4>1. Src = Placeholder
          BY <3>2 DEF Src, SrcForStage
        <4>2. QED
          BY <2>1, <3>1, <4>1, OnlyPlaceholder
      <3>3. CASE stage # "placeholder"
        <4>1. s = NextStage(stage, product) /\ stage \in {"path", "url"}
          BY <1>1, <1>2, <2>4, <3>1, <3>3 DEF ImageInv, Stages
        <4>2. QED
          BY <1>2, <1>5, <3>1, <4>1, NextSrcDiffers DEF Src
      <3>4. QED
        BY <3>2, <3>3
    <2>5. QED
      BY <2>1, <2>2, <2>3, <2>4 DEF ImageInv
  <1>6. CASE Load
    <2>1. ImageTypeOK' /\ Src' = Src
      BY <1>2, <1>6 DEF Load, ImageTypeOK, Src, SrcForStage
    <2>2. QED
      BY <1>1, <1>6, <2>1 DEF Load, ImageInv, Reached
  <1>7. CASE OnError
    <2>1. ImageTypeOK' /\ Src' = Src
      BY <1>2, <1>7, StageTypes DEF OnError, ImageTypeOK, Src, SrcForStage
    <2>2. ASSUME ~ hasty' PROVE ~ hasty /\ ~ effect /\ queued = stage
      BY <1>2, <1>7, <2>2 DEF OnError, ImageTypeOK
    <2>3. ASSUME ~ hasty' PROVE Reached(NextStage(stage, product))
      BY <1>1, <1>2, <1>7, <2>2, <2>3, NextIsReached DEF OnError, ImageInv
    <2>4. ASSUME ~ hasty' PROVE Reached(queued)'
      BY <1>7, <2>2, <2>3, <2>4 DEF OnError, Reached, NextStage
    <2>5. ASSUME ~ hasty' PROVE ~ effect' /\ queued' = NextStage(stage, product)'
      BY <1>7, <2>2, <2>5 DEF OnError, NextStage
    <2>6. load' = "failed"
      BY <1>7 DEF OnError
    <2>7. QED
      BY <2>1, <2>4, <2>5, <2>6 DEF ImageInv, NextStage
  <1>8. CASE UNCHANGED imageVars
    <2>1. ImageTypeOK' /\ Src' = Src
      BY <1>2, <1>8 DEF imageVars, ImageTypeOK, Src, SrcForStage
    <2>2. QED
      BY <1>1, <1>8, <2>1 DEF imageVars, ImageInv, Reached, NextStage
  <1>9. QED
    BY <1>1, <1>3, <1>4, <1>5, <1>6, <1>7, <1>8 DEF ImageNext

-----------------------------------------------------------------------------
(* Types. *)
THEOREM ImageTypes == ImageSpec => []ImageTypeOK
  <1>1. ImageInv => ImageTypeOK
    BY DEF ImageInv
  <1>2. QED
    BY <1>1, ImageInitInv, ImageNextInv, PTL DEF ImageSpec

(* An image at rest that no error event hurried shows the first of its     *)
(* product's images that is there.                                         *)
THEOREM FallbackShowsTheFirst == ImageSpec => []FallbackIsExact
  <1>1. ImageInv => FallbackIsExact
    <2>1. SUFFICES ASSUME ImageInv, Quiet, ~ hasty PROVE stage = BestStage(product)
      BY DEF FallbackIsExact
    <2>2. /\ ImageTypeOK /\ product \in Pictures /\ stage \in Stages
          /\ queued = stage /\ ~ effect /\ Reached(stage)
          /\ load \in {"none", "loaded", "failed"}
      BY <2>1 DEF ImageInv, ImageTypeOK, Quiet
    <2>3. Src \in good \/ stage = "placeholder"
      <3>1. CASE load = "none"
        <4>1. Src = Absent
          BY <2>1, <3>1 DEF ImageInv
        <4>2. QED
          BY <2>2, <4>1, PictureFields, ImageAssumption
             DEF Src, SrcForStage, Reached, Stages, Images
      <3>2. CASE load = "failed"
        BY <2>1, <2>2, <3>2 DEF ImageInv, NextStage, Stages
      <3>3. QED
        BY <2>1, <2>2, <3>1, <3>2 DEF ImageInv
    <2>4. QED
      BY <2>2, <2>3, PictureFields, ImageAssumption
         DEF BestStage, Reached, Src, SrcForStage, Stages, ImageTypeOK, Images
  <1>2. QED
    BY <1>1, ImageInitInv, ImageNextInv, PTL DEF ImageSpec

(* Lines 11-24 are true of an image that no error event hurried: one that  *)
(* rests on a failure has no source left to try.  An event that overtakes  *)
(* the effect is the only way to FailedIsFollowed being false (the run     *)
(* product_image).                                                         *)
THEOREM UnhurriedFailureIsFollowed == ImageSpec => [](~ hasty => FailedIsFollowed)
  <1>1. ImageInv => (~ hasty => FailedIsFollowed)
    BY DEF ImageInv, ImageTypeOK, FailedIsFollowed, Quiet, NextStage, Stages
  <1>2. QED
    BY <1>1, ImageInitInv, ImageNextInv, PTL DEF ImageSpec
=============================================================================
