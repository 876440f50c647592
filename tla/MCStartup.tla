------------------------------ MODULE MCStartup -----------------------------
(* The instances of Startup: two namespaces of two shards. *)
EXTENDS Startup
=============================================================================
