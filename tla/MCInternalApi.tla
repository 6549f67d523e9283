--------------------------- MODULE MCInternalApi -----------------------------
(* Values for model checking InternalApi, and OcppCommand under it.         *)
EXTENDS InternalApi
==============================================================================
