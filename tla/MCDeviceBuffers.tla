-------------------------- MODULE MCDeviceBuffers --------------------------
(***************************************************************************)
(* Small instances of DeviceBuffers for TLC.  Devices, and the places in   *)
(* their memory, are interchangeable.                                      *)
(***************************************************************************)
EXTENDS DeviceBuffers, TLC

MemorySymmetry == Permutations(Devices) \cup Permutations(Slots)
=============================================================================
