------------------------------ MODULE MCTransport ------------------------------
(* Transport for TLC: the .cfg file gives it its calls and bounds. *)
EXTENDS Transport
================================================================================
