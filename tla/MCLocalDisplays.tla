--------------------------- MODULE MCLocalDisplays ---------------------------
(***************************************************************************)
(* TLC instance of LocalDisplays: constants come from .cfg files.          *)
(***************************************************************************)
EXTENDS LocalDisplays
====
