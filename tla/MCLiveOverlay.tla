--------------------------- MODULE MCLiveOverlay ---------------------------
(* A token with two trades; windows of a few blocks. *)
EXTENDS LiveOverlay
=============================================================================
