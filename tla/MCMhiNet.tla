------------------------------ MODULE MCMhiNet ------------------------------
(* Packets for the protocols of MhiNet: the lengths around the padding of QMAP *)
(* and at the block length of MBIM, the VLAN tags around the limits of MBIM    *)
(* and QMAP. *)
EXTENDS MhiNet
MCLens == {0, 1, 1500, RX_MAX - MBIM_HDR}
MCTags == {NoTag, 0, 1, 128, 129, 255, 256, 511, 512}
=============================================================================
