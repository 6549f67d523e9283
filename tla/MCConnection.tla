---------------------------- MODULE MCConnection -----------------------------
(* Values for model checking Connection.                                    *)
EXTENDS Connection
==============================================================================
