------------------------- MODULE MCDynamicUserStore -------------------------
(***************************************************************************)
(* TLC instance of DynamicUserStore: constants come from the .cfg files.   *)
(***************************************************************************)
EXTENDS DynamicUserStore
====
