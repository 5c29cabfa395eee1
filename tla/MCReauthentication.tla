------------------------- MODULE MCReauthentication -------------------------
(***************************************************************************)
(* TLC instance of Reauthentication: constants come from .cfg files.       *)
(***************************************************************************)
EXTENDS Reauthentication
====
