--------------------------- MODULE MCIpTransport ---------------------------
(***************************************************************************)
(* Instances of IpTransport for TLC.                                       *)
(***************************************************************************)
EXTENDS IpTransport
=============================================================================
