---------------------------- MODULE MCQueryRelay ----------------------------
(***************************************************************************)
(* TLC instance of QueryRelay: constants come from .cfg files.             *)
(***************************************************************************)
EXTENDS QueryRelay
====
