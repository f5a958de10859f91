------------------------------- MODULE MCConsole -------------------------------
(***************************************************************************)
(* Console with one control or two of each kind and three clicks.          *)
(***************************************************************************)
EXTENDS Console

MCControls == {InspectControl, PassportControl, SubmitControl, TrackControl, CancelControl,
               ServiceControl, ReopenControl}
=============================================================================
