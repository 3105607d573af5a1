-------------------------- MODULE MCSep2Connection --------------------------
(***************************************************************************)
(* Instances of Sep2Connection for TLC: two DeviceCapabilities that can    *)
(* replace one another, a third without a link to an EndDeviceList.        *)
(***************************************************************************)
EXTENDS Sep2Connection

CONSTANTS d1, d2, d3

=============================================================================
