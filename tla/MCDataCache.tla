---------------------------- MODULE MCDataCache ----------------------------
(* Systems are read line by line, listings as a table.                      *)
EXTENDS DataCache

CONSTANTS systems, listings

MCOrder == <<systems, listings>>
MCFormat == [f \in Files |-> IF f = systems THEN "lines" ELSE "csv"]
=============================================================================
