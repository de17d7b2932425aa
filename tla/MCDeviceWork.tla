---------------------------- MODULE MCDeviceWork ----------------------------
(***************************************************************************)
(* DeviceWork with two AccessPorts and a control queue of two requests.    *)
(***************************************************************************)
EXTENDS DeviceWork, TLC

DeviceSymmetry == Permutations(Serials)
=============================================================================
