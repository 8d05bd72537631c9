----------------------------- MODULE MCPackage ------------------------------
(***************************************************************************)
(* An instance of Package for TLC.  Header bytes are bits, so that lengths *)
(* 0 to 3 use both of them and length 4 is too long; a queue starts with   *)
(* two slots, so that three packages or requests make it grow and go       *)
(* round.                                                                  *)
(***************************************************************************)
EXTENDS Package

Payloads == {<<>>, <<0, 1, 1>>, <<1, 1, 1, 1>>}
=============================================================================
