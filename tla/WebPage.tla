------------------------------- MODULE WebPage -------------------------------
(* null and undefined, as the web pages keep them in their state. *)
CONSTANT None
=============================================================================
