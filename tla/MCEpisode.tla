----------------------------- MODULE MCEpisode -----------------------------
(***************************************************************************)
(* Episode for TLC: windows of one to three images and up to three texts,  *)
(* as long as there are not fewer texts than images (in the repository's   *)
(* configurations 5 images and 30 or 35 texts), and episodes long enough   *)
(* to push the first frame and the first texts out of them.                *)
(***************************************************************************)
EXTENDS Episode

CONSTANTS MaxTexts, MaxSteps

MCConfigs ==
  {c \in [max_images : 1 .. MaxTexts, max_texts : 1 .. MaxTexts,
          max_steps : {1, MaxSteps}, window : 1 .. MaxTexts, stride : 1 .. 2,
          model_pool : BOOLEAN] :
     c.max_images <= c.max_texts /\ c.stride <= c.window}

\* As in the repository's configurations: windows of max_images turns that do not overlap,
\* and more texts than images.
MCContext ==
  {[max_images |-> 2, max_texts |-> MaxTexts, max_steps |-> MaxSteps,
    window |-> 2, stride |-> 2, model_pool |-> TRUE]}
=============================================================================
