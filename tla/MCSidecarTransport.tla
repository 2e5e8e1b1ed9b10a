------------------------ MODULE MCSidecarTransport ------------------------
(***************************************************************************)
(* Instances of SidecarTransport for TLC.  Requests are model values.      *)
(***************************************************************************)
EXTENDS SidecarTransport

CONSTANTS r1, r2

=============================================================================
