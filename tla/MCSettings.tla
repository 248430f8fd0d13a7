----------------------------- MODULE MCSettings -----------------------------
(* Two stations of one ensemble and one of another, one slot with a page in  *)
(* the EEPROM and one without, a sound that the page cannot hold exactly.    *)
EXTENDS Settings, TLC

CONSTANTS news, music, sport, e1, e2, s0, s6, flat, fine

MCBlock == (news :> e1) @@ (music :> e1) @@ (sport :> e2)
MCCoarse == (flat :> flat) @@ (fine :> flat)
=============================================================================
