--------------------------- MODULE MCRuntimeHost ---------------------------
(* TLC instances of RuntimeHost. *)
EXTENDS RuntimeHost

=============================================================================
