----------------------------- MODULE MCFirmware -----------------------------
(* Two access points, one of which the board is pinned to. *)
EXTENDS Firmware

MCLetters == {"x", "y"}
=============================================================================
