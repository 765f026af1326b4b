--------------------------- MODULE MCWindowsService ---------------------------
(***************************************************************************)
(* Instances of WindowsService: as it is built, with no control accepted,  *)
(* and with dwControlsAccepted naming all that its handler handles.        *)
(***************************************************************************)
EXTENDS WindowsServiceRefinement

AsBuilt     == {}
AllControls == Controls
=============================================================================
