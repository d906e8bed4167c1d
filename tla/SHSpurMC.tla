------------------------------ MODULE SHSpurMC ------------------------------
(* Values for the runs of SHSpur. *)
EXTENDS SHSpur

CONSTANTS joystick, planner

MCClients == {joystick, planner}
MCCommands ==
  {Run("FREE"), Run("STOP"), Run("VEL"), Get,
   Enable("BODY"), Disable("BODY"), Enable("VELOCITY")}
=============================================================================
