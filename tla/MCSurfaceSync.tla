--------------------------- MODULE MCSurfaceSync ---------------------------
(* A small instance of SurfaceSync for TLC. *)
EXTENDS SurfaceSync

CONSTANTS page, draft, typo, blank, word, terminal, cli

=============================================================================
