----------------------------- MODULE MCGdmClient -----------------------------
(***************************************************************************)
(* TLC instance of GdmClient: constants come from .cfg files.              *)
(***************************************************************************)
EXTENDS GdmClient
====
