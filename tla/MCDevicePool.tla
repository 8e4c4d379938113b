---------------------------- MODULE MCDevicePool ----------------------------
(* DevicePool on a small instance: three workers, two pools one after the other. *)
EXTENDS DevicePool

CONSTANTS w1, w2, w3, p1, p2
=============================================================================
