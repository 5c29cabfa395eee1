--------------------------- MODULE MCSessionWorker ---------------------------
(***************************************************************************)
(* TLC instance of SessionWorker: constants come from the .cfg files.      *)
(***************************************************************************)
EXTENDS SessionWorker
====
