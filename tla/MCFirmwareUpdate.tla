--------------------------- MODULE MCFirmwareUpdate ---------------------------
(* FirmwareUpdate for TLC: a good image, a flawed one and one of another      *)
(* project.                                                                   *)
EXTENDS FirmwareUpdate

CONSTANTS good, flawed, foreign
MCImages == {good, flawed, foreign}
MCWorking == {good, foreign}
MCOurs == {good, flawed}
=============================================================================
