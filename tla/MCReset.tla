------------------------------- MODULE MCReset -------------------------------
(* A whole board with short counters: BoardReset as it is checked by TLC.  *)
EXTENDS BoardReset
================================================================================
