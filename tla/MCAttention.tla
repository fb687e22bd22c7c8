---------------------------- MODULE MCAttention ----------------------------
(* Devices are interchangeable: nothing in the manager or the ledger orders them. *)
EXTENDS Attention, TLC

DeviceSymmetry == Permutations(Devices)
============================================================================
