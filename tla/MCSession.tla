------------------------------ MODULE MCSession ------------------------------
(***************************************************************************)
(* Session for TLC; the constants are given in the configuration files.    *)
(***************************************************************************)
EXTENDS Session
====
