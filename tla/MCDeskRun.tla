----------------------------- MODULE MCDeskRun ------------------------------
(***************************************************************************)
(* Both hosts, two or three runs over one directory.                        *)
(***************************************************************************)
EXTENDS DeskRun

MCHosts == {"cli", "server"}
=============================================================================
