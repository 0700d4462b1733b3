----------------------------- MODULE MCEpeeDecoder -----------------------------
(* EpeeDecoder for TLC: the .cfg files give it its bounds. *)
EXTENDS EpeeDecoder
================================================================================
