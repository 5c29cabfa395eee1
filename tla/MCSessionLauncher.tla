-------------------------- MODULE MCSessionLauncher --------------------------
(***************************************************************************)
(* TLC instance of SessionLauncher: constants come from Launcher.cfg.      *)
(***************************************************************************)
EXTENDS SessionLauncher
====
