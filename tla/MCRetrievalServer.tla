-------------------------- MODULE MCRetrievalServer --------------------------
(* All constants of RetrievalServer are numbers or a model value: the cfg has them. *)
EXTENDS RetrievalServer
=============================================================================
