------------------------ MODULE MCControllerProcess ------------------------
(***************************************************************************)
(* ControllerProcess with a few requests.                                  *)
(***************************************************************************)
EXTENDS ControllerProcess
=============================================================================
