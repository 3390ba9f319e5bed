---------------------------- MODULE MCLiveCapture ----------------------------
(* Up to four packets over three instants, so that stamps tie; with or      *)
(* without the card's stamp; a receive buffer of two overflows; a card two  *)
(* ticks ahead makes mixed stamps run backward, and another card's clock is *)
(* behind or far ahead of both.                                             *)
EXTENDS LiveCapture
=============================================================================
