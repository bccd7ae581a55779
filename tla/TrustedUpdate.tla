---------------------------- MODULE TrustedUpdate ----------------------------
(***************************************************************************)
(* What an updater promises whoever starts it: the flash is handed one     *)
(* image, after a choice that the run's wishes allow was made and somebody *)
(* vouched for the image: the checksum list of the release that was        *)
(* chosen, or the operator.                                                *)
(***************************************************************************)
CONSTANTS Choice,  \* what can be installed: a release, or the operator's image
          Image,   \* contents an image file may have
          Nothing

VARIABLES wishes,   \* the choices that the settings of the run allow
          chosen,   \* what is to be installed
          vouched,  \* the image that somebody vouched for
          handed    \* the image handed to the flash

updateVars == << wishes, chosen, vouched, handed >>

UpdateInit == /\ wishes \in SUBSET Choice
              /\ chosen = Nothing /\ vouched = Nothing /\ handed = Nothing

Vouch == /\ chosen = Nothing
         /\ chosen' \in wishes /\ vouched' \in Image
         /\ UNCHANGED << wishes, handed >>

HandOver == /\ chosen # Nothing /\ handed = Nothing
            /\ handed' = vouched
            /\ UNCHANGED << wishes, chosen, vouched >>

UpdateSpec == UpdateInit /\ [][Vouch \/ HandOver]_updateVars
=============================================================================
