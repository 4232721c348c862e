---------------------------- MODULE MhiNetProto ----------------------------
(***************************************************************************)
(* The framing of the network drivers: tx_fixup() puts one IP packet into a *)
(* frame, rx_fixup() takes the packets out of a frame (cdc_mbim.c: MBIM,     *)
(* qmi_wwan.c: QMAP).                                                       *)
(*                                                                         *)
(* A packet is its length, its VLAN tag (NoTag: none) and whether it starts  *)
(* like IPv4 or IPv6; its bytes are not looked at otherwise.  A frame keeps  *)
(* the header fields that are looked at, with their widths.  The NDPs of an *)
(* MBIM frame are listed in the order of wNextNdpIndex.                     *)
(***************************************************************************)
EXTENDS Integers, Sequences, SequencesExt

NoTag == -1

\* sizes of usb_cdc_ncm_nth16, usb_cdc_ncm_ndp16, usb_cdc_ncm_dpe16, cdc_mbim_hdr
NTH == 12
NDP == 8
DPE == 4
MBIM_HDR == NTH + NDP + 2 * DPE
RX_MAX == 31 * 1024

\* sizes of qmap_hdr and qmap_v5_csum_hdr
QMAP_HDR == 4
QMAP_V5_HDR == 4
QMAP_DEFAULT_MUX_ID == 129

U8(n)  == n % 256
U16(n) == n % 65536

Packet(len, tag, ip) == [len |-> len, tag |-> tag, ip |-> ip]

\* the longest prefix without "error": both receivers stop at the first one and
\* deliver what they have
Error == [error |-> TRUE]
UpToError(items) ==
  LET bad == {k \in 1..Len(items) : items[k] = Error}
  IN  IF bad = {} THEN items
      ELSE SubSeq(items, 1, (CHOOSE k \in bad : \A j \in bad : k <= j) - 1)

\* the sum of the first k sizes
Total(sizes, k) ==
  LET sum[n \in 0..Len(sizes)] == IF n = 0 THEN 0 ELSE sum[n - 1] + sizes[n]
  IN  sum[k]

-----------------------------------------------------------------------------
(* MBIM                                                                    *)

\* mutant: the last IP session is taken for a device service stream
MbimSignShort(tci) == IF tci < 255 THEN "IPS" ELSE "DSS"

\* an IP session below 256, a device service stream below 512
MbimSign(tci) == IF tci < 256 THEN "IPS" ELSE "DSS"

\* refused: nothing but a header, not IP, no headroom, no session for the tag
cdc_mbim_tx_refuses(skb) == skb.len = 0 \/ ~skb.ip \/ ~skb.room \/ skb.tag >= 512

cdc_mbim_tx_fixup(skb) ==
  LET tci == IF skb.tag = NoTag THEN 0 ELSE skb.tag
  IN  [len  |-> MBIM_HDR + skb.len, signed |-> TRUE,
       wBlockLength |-> U16(MBIM_HDR + skb.len),
       ndps |-> <<[at |-> NTH, wLength |-> NDP + 2 * DPE, sign |-> MbimSign(tci), id |-> U8(tci),
                   dpe |-> <<[index |-> MBIM_HDR, len |-> U16(skb.len), ip |-> skb.ip],
                             [index |-> 0, len |-> 0, ip |-> FALSE]>>]>>]

\* the NDP header itself is refused
NdpRefused(frame, ndp) ==
  LET nframes == (ndp.wLength - NDP) \div DPE
  IN  \/ frame.len < ndp.at + NDP \/ ndp.wLength < 16
      \/ frame.len < NDP + nframes * DPE
      \/ ndp.sign \notin {"IPS", "DSS"}

MbimTag(ndp) == LET tci == IF ndp.sign = "IPS" THEN ndp.id ELSE ndp.id + 256
                IN  IF tci = 0 THEN NoTag ELSE tci

\* one datagram pointer: a packet, or the end of the walk
MbimItem(frame, ndp, d) ==
  IF d.index + d.len > frame.len \/ d.len > RX_MAX \/ ~d.ip
  THEN Error ELSE Packet(d.len, MbimTag(ndp), TRUE)

\* the entries of an NDP up to the first empty one
MbimEntries(ndp) ==
  LET n     == (ndp.wLength - NDP) \div DPE
      empty == {k \in 1..n : ndp.dpe[k].index = 0 \/ ndp.dpe[k].len = 0}
      last  == IF empty = {} THEN n ELSE (CHOOSE k \in empty : \A j \in empty : k <= j) - 1
  IN  SubSeq(ndp.dpe, 1, last)

\* "frame too short": the only return that does not free the frame
rx_keeps(info, frame) == info = "MBIM" /\ frame.len < NTH + NDP

\* what rx_fixup() hands to netif_receive_skb(); a new skb that cannot be had ends the
\* walk like an error
cdc_mbim_rx_fixup(frame) ==
  IF rx_keeps("MBIM", frame) \/ ~frame.signed \/ frame.wBlockLength > RX_MAX THEN <<>>
  ELSE UpToError(FlattenSeq(
         [k \in 1..Len(frame.ndps) |->
            LET ndp == frame.ndps[k]
            IN  IF NdpRefused(frame, ndp) THEN <<Error>>
                ELSE LET es == MbimEntries(ndp)
                     IN  [e \in 1..Len(es) |-> MbimItem(frame, ndp, es[e])]]))

-----------------------------------------------------------------------------
(* QMAP.  A frame is a sequence of packets, each with its header.  v5 says   *)
(* that a checksum header really follows; next_hdr, that the header says so. *)

\* refused: nothing but a header, not IP, a tag that is no mux id
qmi_wwan_tx_refuses(skb) == skb.len = 0 \/ ~skb.ip \/ skb.tag >= QMAP_DEFAULT_MUX_ID

qmi_wwan_tx_fixup(version, skb) ==
  <<[pad_len |-> 0, next_hdr |-> TRUE, cd_bit |-> FALSE,
     mux_id |-> IF skb.tag = NoTag THEN QMAP_DEFAULT_MUX_ID ELSE U8(skb.tag),
     pkt_len |-> U16(skb.len), v5 |-> version = "QMAPV5", ip |-> skb.ip]>>

\* mutant: the padding is delivered with the packet
QmapDataPadded(p) == p.pkt_len

QmapData(p) == p.pkt_len - p.pad_len

QmapHdrSize(p) == QMAP_HDR + (IF p.next_hdr THEN QMAP_V5_HDR ELSE 0)

\* what the packet takes in the frame
QmapTakes(p) == QMAP_HDR + (IF p.v5 THEN QMAP_V5_HDR ELSE 0) + p.pkt_len

\* what skb_pull() has left of the frame in front of packet k
QmapLeft(frame, k) ==
  LET takes == [n \in 1..Len(frame) |-> QmapTakes(frame[n])]
  IN  Total(takes, Len(frame)) - Total(takes, k - 1)

\* a header read at the wrong place ends the walk: it is not IP any more
QmapItem(frame, k) ==
  LET p == frame[k]
  IN  IF \/ QmapLeft(frame, k) <= QMAP_HDR
         \/ QmapLeft(frame, k) < p.pkt_len + QmapHdrSize(p)
         \/ QmapHdrSize(p) + p.pkt_len # QmapTakes(p)
         \/ ~p.cd_bit /\ ~p.ip
      THEN <<Error>>
      ELSE IF p.cd_bit THEN <<>>
      ELSE <<Packet(QmapData(p),
                    IF p.mux_id = QMAP_DEFAULT_MUX_ID THEN NoTag ELSE p.mux_id, TRUE)>>

qmi_wwan_rx_fixup(frame) ==
  UpToError(FlattenSeq([k \in 1..Len(frame) |-> QmapItem(frame, k)]))

-----------------------------------------------------------------------------
(* What the modem sends: several packets of several sessions in one frame.   *)

\* the number of bytes of the first k packets
Bytes(pkts, k) == Total([n \in 1..Len(pkts) |-> pkts[n].len], k)

\* one NDP for each packet of pkts, all in front of the datagrams, each with its
\* empty entry at the end
MbimPeer(pkts) ==
  LET hdrs == NTH + Len(pkts) * (NDP + 2 * DPE)
      size == hdrs + Bytes(pkts, Len(pkts))
  IN  [len |-> size, signed |-> TRUE, wBlockLength |-> U16(size),
       ndps |-> [k \in 1..Len(pkts) |->
         [at |-> NTH + (k - 1) * (NDP + 2 * DPE), wLength |-> NDP + 2 * DPE,
          sign |-> MbimSign(IF pkts[k].tag = NoTag THEN 0 ELSE pkts[k].tag),
          id   |-> U8(IF pkts[k].tag = NoTag THEN 0 ELSE pkts[k].tag),
          dpe  |-> <<[index |-> hdrs + Bytes(pkts, k - 1), len |-> pkts[k].len, ip |-> pkts[k].ip],
                     [index |-> 0, len |-> 0, ip |-> FALSE]>>]]]

\* a packet that is not IP stands for a QMAP command here; every packet is padded
\* to a multiple of four
QmapPeer(version, pkts) ==
  [k \in 1..Len(pkts) |->
     LET pad == (4 - (pkts[k].len % 4)) % 4
     IN  [pad_len |-> pad, next_hdr |-> version = "QMAPV5", cd_bit |-> ~pkts[k].ip,
          mux_id |-> IF pkts[k].tag = NoTag THEN QMAP_DEFAULT_MUX_ID ELSE U8(pkts[k].tag),
          pkt_len |-> U16(pkts[k].len + pad), v5 |-> version = "QMAPV5", ip |-> pkts[k].ip]]

PeerFrame(info, pkts) == IF info = "MBIM" THEN MbimPeer(pkts) ELSE QmapPeer(info, pkts)

-----------------------------------------------------------------------------
(* info->tx_fixup and info->rx_fixup, by the channel the driver is bound to  *)

tx_refuses(info, skb) ==
  IF info = "MBIM" THEN cdc_mbim_tx_refuses(skb) ELSE qmi_wwan_tx_refuses(skb)
tx_fixup(info, skb) ==
  IF info = "MBIM" THEN cdc_mbim_tx_fixup(skb) ELSE qmi_wwan_tx_fixup(info, skb)
rx_fixup(info, frame) ==
  IF info = "MBIM" THEN cdc_mbim_rx_fixup(frame) ELSE qmi_wwan_rx_fixup(frame)
=============================================================================
