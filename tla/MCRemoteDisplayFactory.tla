----------------------- MODULE MCRemoteDisplayFactory -----------------------
(***************************************************************************)
(* TLC instance of RemoteDisplayFactory: constants come from .cfg files.   *)
(***************************************************************************)
EXTENDS RemoteDisplayFactory
====
