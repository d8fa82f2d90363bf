--------------------------- MODULE MCAcquisition ---------------------------
(* An instance of AcquisitionRotation for TLC. *)
EXTENDS AcquisitionRotation

CONSTANTS nifty, banknifty, sensex, crude

FourSymbols == <<nifty, banknifty, sensex, crude>>
=============================================================================
