--------------------------- MODULE MCEmbeddedServer ---------------------------
(* A small instance of EmbeddedServer: two models, three server processes. *)
EXTENDS EmbeddedServer
=============================================================================
