------------------------------ MODULE MhiFifo ------------------------------
(***************************************************************************)
(* What a transfer channel promises its client: a bounded queue.  Buffers   *)
(* are numbered in the order they are accepted; each one accepted is handed *)
(* back exactly once, in that order, and at most Cap are outstanding.       *)
(***************************************************************************)
EXTENDS Naturals, Sequences

CONSTANTS Cap      \* buffers that may be outstanding

VARIABLES fifo,    \* buffers accepted and not handed back, oldest first
          last,    \* number of the last buffer accepted
          back     \* number of the last buffer handed back

fvars == <<fifo, last, back>>

FifoInit == fifo = <<>> /\ last = 0 /\ back = 0

Accept ==
  /\ Len(fifo) < Cap
  /\ fifo' = Append(fifo, last + 1)
  /\ last' = last + 1
  /\ UNCHANGED back

\* hand the oldest one back: transferred, or refused with -ENOTCONN
HandBack ==
  /\ fifo # <<>>
  /\ back' = Head(fifo)
  /\ fifo' = Tail(fifo)
  /\ UNCHANGED last

FifoSpec == FifoInit /\ [][Accept \/ HandBack]_fvars
=============================================================================
