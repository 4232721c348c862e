---------------------------- MODULE MhiUciProofs ----------------------------
(***************************************************************************)
(* The character device for any number of files and rings of any length:     *)
(* references, buffers and the end of a transfer in a full ring.             *)
(***************************************************************************)
EXTENDS MhiUci, FiniteSetTheorems, TLAPS

UdevLocked == {"o_prep", "o_fill", "c_unprep", "c_free"}
Reading    == {"r_wait", "r_take", "r_copy"}
Writing    == {"w_loop", "w_wait", "w_check", "w_queue"}

\* who holds which lock
LockInv ==
  /\ \A f \in Files : lock = f <=> pc[f] \in UdevLocked
  /\ lock = "remove" <=> mdev = "disabled"
  /\ \A f \in Files : read_lock = f <=> pc[f] \in Reading
  /\ \A f \in Files : write_lock = f <=> pc[f] \in Writing

\* how far the removal is, and what the channel is then
ChannelInv ==
  /\ enabled <=> mdev \in {"bound", "reset"}
  /\ idr => mdev \notin {"none", "put", "gone"}
  /\ mdev = "none" => ch = "DISABLED" /\ \A f \in Files : pc[f] = "closed"
  /\ ch = "SUSPENDED" <=> mdev \in {"reset", "disabled", "woken", "put"}
  /\ mdev = "gone" /\ ch = "ENABLED" => stale
  /\ mdev = "bound" => \A f \in Files : /\ Inside(f) \/ pc[f] = "o_fill" => ch = "ENABLED"
                                        /\ pc[f] = "c_free" => ch # "ENABLED"
  /\ \A f \in Files : pc[f] = "o_fill" => ch = "ENABLED" \/ mdev = "reset"

\* a thread inside open() or release() has the channel object for itself
OwnerInv == \A f \in Files : pc[f] \in UdevLocked => uchan /\ cref = 0

\* a stopped channel holds no buffers; who copies from a buffer has one
BufferInv ==
  /\ ch = "DISABLED" => dl = 0 /\ ul = <<>>
  /\ \A f \in Files : pc[f] = "r_copy" => cur # NoBuf

\* what was queued after the drain is in the rings until they are freed, and lost from then on
LateInv ==
  /\ mdev \in {"none", "bound"} => late = 0 /\ lost = 0
  /\ mdev \in {"reset", "disabled", "woken", "put"} => late = dl + Len(ul) /\ lost = 0
  /\ mdev = "gone" => lost = late

\* the ring has at least the room the writer has seen: only it adds to the ring
WriterInv ==
  \A f \in Files :
    /\ pc[f] \in WritePc => left[f] >= 1
    /\ pc[f] = "w_queue" \/ (pc[f] = "w_check" /\ enabled) => nr_avail[f] <= UlN - Len(ul)

UciInv == LockInv /\ ChannelInv /\ OwnerInv /\ BufferInv /\ LateInv /\ WriterInv
          /\ RefsHeld /\ BuffersAccounted /\ FullRingEnds

-----------------------------------------------------------------------------
(* Locks                                                                   *)

USE DEF Goto, dev, refs, bufs, tx, locks

\* The parts of TypeOK that no count needs.
UciType ==
  /\ mdev \in {"none", "bound", "reset", "disabled", "woken", "put", "gone"}
  /\ idr \in BOOLEAN /\ enabled \in BOOLEAN /\ uchan \in BOOLEAN /\ stale \in BOOLEAN
  /\ dl \in 0..DlN /\ lost \in Nat /\ late \in Nat
  /\ lock \in Files \cup {"none", "remove"}
  /\ read_lock \in Files \cup {"none"} /\ write_lock \in Files \cup {"none"}
  /\ pend \in Seq(0..MaxLen) /\ cur \in {NoBuf} \cup 0..MaxLen
  /\ ch \in {"DISABLED", "ENABLED", "SUSPENDED"}
  /\ ul \in Seq({"CHAIN", "EOT"}) /\ Len(ul) <= UlN
  /\ pc \in [Files -> Pc] /\ asleep \subseteq Files
  /\ left \in [Files -> 0..MaxChunks] /\ nr_avail \in [Files -> 0..UlN]

\* TypeOK is that and the three counts.
LEMMA TypeParts == TypeOK <=> UciType /\ uref \in Nat /\ cref \in Nat /\ live \in Nat
BY DEF TypeOK, UciType

\* File f moves to l: it has the lock of the places S there, and had it or found it free; or it
\* has it no more.
Handed(old, new, f, S, l) ==
  /\ l \in S => new = f /\ old \in {"none", f}
  /\ l \notin S => new = IF pc[f] \in S THEN "none" ELSE old

\* A file's thread moves and hands over locks; the removal's lock is nobody's then.
FileMoves(f, l) ==
  /\ pc' = [pc EXCEPT ![f] = l] /\ mdev' = mdev
  /\ Handed(lock, lock', f, UdevLocked, l)
  /\ Handed(read_lock, read_lock', f, Reading, l)
  /\ Handed(write_lock, write_lock', f, Writing, l)

\* Every step of a file's thread is such a move.
LEMMA FileSteps ==
  ASSUME UciType, LockInv, NEW f \in Files, User(f) \/ Locks(f) \/ InCall(f)
  PROVE  \E l \in Pc : FileMoves(f, l)
<1> USE DEF FileMoves, Handed, Pc, OpenPc, ClosePc, ReadPc, WritePc, UdevLocked, Reading, Writing
<1>0. /\ lock = f <=> pc[f] \in UdevLocked
      /\ read_lock = f <=> pc[f] \in Reading
      /\ write_lock = f <=> pc[f] \in Writing
      /\ f # "none" /\ pc \in [Files -> Pc]
  BY UciConstants DEF LockInv, UciType
<1>1. CASE User(f)
  BY <1>0, <1>1 DEF User, mhi_uci_open, mhi_uci_release, mhi_uci_write, mhi_uci_read, write_signal,
     read_signal, read_returns
<1>2. CASE start_chan(f)
  BY <1>0, <1>2 DEF start_chan
<1>3. CASE release_lock(f)
  BY <1>0, <1>3 DEF release_lock
<1>4. CASE write_enter(f)
  BY <1>0, <1>4 DEF write_enter
<1>5. CASE read_enter(f)
  BY <1>0, <1>5 DEF read_enter, read_returns
<1>6. CASE start_chan_prepare(f)
  BY <1>0, <1>6 DEF start_chan_prepare
<1>7. CASE mhi_queue_inbound(f)
  BY <1>0, <1>7 DEF mhi_queue_inbound
<1>8. CASE chan_release_unprepare(f) \/ dev_release_put(f)
  BY <1>0, <1>8 DEF chan_release_unprepare, dev_release_put
<1>9. CASE chan_release_free(f)
  BY <1>0, <1>9 DEF chan_release_free, UnlocksUdev
<1>10. CASE write_wait(f)
  BY <1>0, <1>10 DEF write_wait, write_fails
<1>11. CASE write_check(f)
  BY <1>0, <1>11 DEF write_check, write_fails
<1>12. CASE write_queue(f)
  BY <1>0, <1>12 DEF write_queue, write_fails
<1>13. CASE read_wait(f)
  <2>1. CASE UNCHANGED pc
    <3>1. pc' = [pc EXCEPT ![f] = "r_wait"]
      BY <1>0, <1>13, <2>1 DEF read_wait
    <3> QED
      BY <1>0, <1>13, <2>1, <3>1 DEF read_wait, read_returns
  <2>2. CASE ~UNCHANGED pc
    BY <1>0, <1>13, <2>2 DEF read_wait, read_returns
  <2> QED
    BY <2>1, <2>2
<1>14. CASE read_take(f)
  BY <1>0, <1>14 DEF read_take, read_returns
<1>15. CASE read_copy(f)
  BY <1>0, <1>15 DEF read_copy, read_returns
<1> QED
  BY <1>1, <1>2, <1>3, <1>4, <1>5, <1>6, <1>7, <1>8, <1>9, <1>10, <1>11, <1>12, <1>13, <1>14, <1>15
  DEF Locks, InCall

\* Every step leaves each lock with the thread that is inside it.
LEMMA LockStep == UciType /\ LockInv /\ [Next]_vars => LockInv'
<1> SUFFICES ASSUME UciType, LockInv, [Next]_vars PROVE LockInv'
  OBVIOUS
<1>1. CASE mhi_uci_probe \/ Removal
  BY <1>1, UciConstants DEF mhi_uci_probe, Removal, DriverRemove, RemoveDisable, RemoveWake, RemovePut,
     RemoveDeinit, LockInv
<1>2. ASSUME NEW f \in Files, User(f) \/ Locks(f) \/ InCall(f) PROVE LockInv'
  <2>1. PICK l \in Pc : FileMoves(f, l)
    BY <1>2, FileSteps
  <2>0. /\ \A g \in Files : pc'[g] = IF g = f THEN l ELSE pc[g]
        /\ \A g \in Files : g # "none"
    BY <2>1, UciConstants DEF UciType, FileMoves
  <2>2. \A g \in Files : lock' = g <=> pc'[g] \in UdevLocked
    <3>1. Handed(lock, lock', f, UdevLocked, l) /\ \A g \in Files : lock = g <=> pc[g] \in UdevLocked
      BY <2>1 DEF LockInv, FileMoves
    <3>2. CASE l \in UdevLocked
      BY <2>0, <3>1, <3>2 DEF Handed
    <3>3. CASE l \notin UdevLocked
      BY <2>0, <3>1, <3>3 DEF Handed
    <3> QED
      BY <3>2, <3>3
  <2>3. \A g \in Files : read_lock' = g <=> pc'[g] \in Reading
    <3>1. Handed(read_lock, read_lock', f, Reading, l) /\ \A g \in Files : read_lock = g <=> pc[g] \in Reading
      BY <2>1 DEF LockInv, FileMoves
    <3>2. CASE l \in Reading
      BY <2>0, <3>1, <3>2 DEF Handed
    <3>3. CASE l \notin Reading
      BY <2>0, <3>1, <3>3 DEF Handed
    <3> QED
      BY <3>2, <3>3
  <2>4. \A g \in Files : write_lock' = g <=> pc'[g] \in Writing
    <3>1. Handed(write_lock, write_lock', f, Writing, l) /\ \A g \in Files : write_lock = g <=> pc[g] \in Writing
      BY <2>1 DEF LockInv, FileMoves
    <3>2. CASE l \in Writing
      BY <2>0, <3>1, <3>2 DEF Handed
    <3>3. CASE l \notin Writing
      BY <2>0, <3>1, <3>3 DEF Handed
    <3> QED
      BY <3>2, <3>3
  <2>5. lock' = "remove" <=> mdev' = "disabled"
    BY <2>1, UciConstants DEF LockInv, FileMoves, Handed
  <2> QED
    BY <2>2, <2>3, <2>4, <2>5 DEF LockInv
<1>3. CASE mhi_dl_xfer_cb \/ mhi_ul_xfer_cb
  BY <1>3 DEF mhi_dl_xfer_cb, mhi_ul_xfer_cb, LockInv
<1>4. CASE UNCHANGED vars
  BY <1>4 DEF vars, LockInv
<1> QED
  BY <1>1, <1>2, <1>3, <1>4 DEF Next

-----------------------------------------------------------------------------
(* Who holds a reference                                                   *)

Holders  == {f \in Files : HasUdev(f)}
Insiders == {f \in Files : Inside(f)}
InsidePc == {"open", "c_lock"} \cup ReadPc \cup WritePc

\* The references are numbers; nobody is inside without one.
LEMMA Counts ==
  /\ Cardinality(Holders) \in Nat /\ Cardinality(Insiders) \in Nat
  /\ Cardinality(Insiders) = 0 <=> \A f \in Files : ~Inside(f)
  /\ Cardinality(Holders) = 0 <=> \A f \in Files : pc[f] = "closed"
<1>1. Holders \in SUBSET Files /\ Insiders \in SUBSET Files /\ IsFiniteSet(Files)
  BY UciConstants DEF Holders, Insiders
<1>2. IsFiniteSet(Holders) /\ IsFiniteSet(Insiders)
  BY <1>1, FS_Subset
<1>3. Cardinality(Holders) \in Nat /\ Cardinality(Insiders) \in Nat
  BY <1>2, FS_CardinalityType
<1>4. (Cardinality(Holders) = 0 <=> Holders = {}) /\ (Cardinality(Insiders) = 0 <=> Insiders = {})
  BY <1>2, FS_EmptySet
<1>5. Holders = {} <=> \A f \in Files : pc[f] = "closed"
  BY DEF Holders, HasUdev
<1>6. Insiders = {} <=> \A f \in Files : ~Inside(f)
  BY DEF Insiders
<1> QED
  BY <1>3, <1>4, <1>5, <1>6

\* What a file's move does to them.
LEMMA Moved ==
  ASSUME UciType, NEW f \in Files, NEW l, pc' = [pc EXCEPT ![f] = l]
  PROVE  /\ (pc[f] = "closed" <=> l = "closed") => Cardinality(Holders') = Cardinality(Holders)
         /\ pc[f] = "closed" /\ l # "closed" => Cardinality(Holders') = Cardinality(Holders) + 1
         /\ pc[f] # "closed" /\ l = "closed" => Cardinality(Holders') = Cardinality(Holders) - 1
         /\ (pc[f] \in InsidePc <=> l \in InsidePc) => Cardinality(Insiders') = Cardinality(Insiders)
         /\ pc[f] \notin InsidePc /\ l \in InsidePc => Cardinality(Insiders') = Cardinality(Insiders) + 1
         /\ pc[f] \in InsidePc /\ l \notin InsidePc => Cardinality(Insiders') = Cardinality(Insiders) - 1
<1>1. Holders \in SUBSET Files /\ Insiders \in SUBSET Files /\ IsFiniteSet(Files)
  BY UciConstants DEF Holders, Insiders
<1>2. IsFiniteSet(Holders) /\ IsFiniteSet(Insiders)
  BY <1>1, FS_Subset
<1>3. /\ Cardinality(Holders \cup {f}) = IF f \in Holders THEN Cardinality(Holders) ELSE Cardinality(Holders) + 1
      /\ Cardinality(Holders \ {f}) = IF f \in Holders THEN Cardinality(Holders) - 1 ELSE Cardinality(Holders)
      /\ Cardinality(Insiders \cup {f}) = IF f \in Insiders THEN Cardinality(Insiders) ELSE Cardinality(Insiders) + 1
      /\ Cardinality(Insiders \ {f}) = IF f \in Insiders THEN Cardinality(Insiders) - 1 ELSE Cardinality(Insiders)
  BY <1>2, FS_AddElement, FS_RemoveElement
<1>4. (f \in Holders <=> pc[f] # "closed") /\ (f \in Insiders <=> pc[f] \in InsidePc)
  BY DEF Holders, Insiders, HasUdev, Inside, InsidePc
<1>5. \A g \in Files : pc'[g] = IF g = f THEN l ELSE pc[g]
  BY DEF UciType
<1>6. Holders' = IF l = "closed" THEN Holders \ {f} ELSE Holders \cup {f}
  BY <1>5 DEF Holders, HasUdev
<1>7. Insiders' = IF l \in InsidePc THEN Insiders \cup {f} ELSE Insiders \ {f}
  BY <1>5 DEF Insiders, Inside, InsidePc
<1> QED
  BY <1>3, <1>4, <1>6, <1>7

-----------------------------------------------------------------------------
(* The channel and its owner                                               *)

\* A step of one file's thread moves no other one and leaves the device alone.
LEMMA OneFile ==
  ASSUME UciType, LockInv, NEW f \in Files, User(f) \/ Locks(f) \/ InCall(f)
  PROVE  /\ \A g \in Files \ {f} : pc'[g] = pc[g]
         /\ pc'[f] \in Pc /\ pc' \in [Files -> Pc]
         /\ UNCHANGED <<mdev, idr, enabled>>
<1>1. PICK l \in Pc : FileMoves(f, l)
  BY FileSteps
<1>2. pc' = [pc EXCEPT ![f] = l] /\ pc \in [Files -> Pc] /\ mdev' = mdev
  BY <1>1 DEF FileMoves, UciType
<1>3. UNCHANGED <<idr, enabled>>
  BY DEF User, mhi_uci_open, mhi_uci_release, mhi_uci_write, mhi_uci_read, write_signal, read_signal,
     Locks, start_chan, release_lock, write_enter, read_enter,
     InCall, start_chan_prepare, mhi_queue_inbound, chan_release_unprepare, chan_release_free,
     dev_release_put, write_wait, write_check, write_queue, read_wait, read_take, read_copy
<1> QED
  BY <1>2, <1>3

\* What a thread does inside read() and write(), and at their begin and end.
Transfers(f) ==
  \/ mhi_uci_release(f) \/ mhi_uci_write(f) \/ mhi_uci_read(f) \/ write_signal(f) \/ read_signal(f)
  \/ write_enter(f) \/ read_enter(f) \/ write_wait(f) \/ write_check(f) \/ write_queue(f)
  \/ read_wait(f) \/ read_take(f) \/ read_copy(f)

\* It keeps its references.
LEMMA StaysInside ==
  ASSUME UciType, LockInv, NEW f \in Files, Transfers(f)
  PROVE  /\ pc[f] \in InsidePc /\ pc'[f] \in InsidePc
         /\ UNCHANGED <<mdev, idr, enabled, ch, uref, cref, uchan, stale, lock>>
         /\ \A g \in Files \ {f} : pc'[g] = pc[g]
<1>1. User(f) \/ Locks(f) \/ InCall(f)
  BY DEF Transfers, User, Locks, InCall
<1>2. (\A g \in Files \ {f} : pc'[g] = pc[g]) /\ UNCHANGED <<mdev, idr, enabled>> /\ pc'[f] \in Pc
  BY <1>1, OneFile
<1>3. UNCHANGED <<ch, uref, cref, uchan, stale, lock>>
  BY DEF Transfers, mhi_uci_release, mhi_uci_write, mhi_uci_read, write_signal, read_signal, write_enter,
     read_enter, write_wait, write_check, write_queue, read_wait, read_take, read_copy
<1>4. pc[f] \in InsidePc /\ pc'[f] \in InsidePc
  <2> USE DEF UciType, InsidePc, ReadPc, WritePc
  <2>1. CASE mhi_uci_release(f) \/ mhi_uci_write(f) \/ mhi_uci_read(f) \/ write_signal(f) \/ read_signal(f)
    BY <2>1 DEF mhi_uci_release, mhi_uci_write, mhi_uci_read, write_signal, read_signal, read_returns
  <2>2. CASE write_enter(f) \/ read_enter(f)
    BY <2>2 DEF write_enter, read_enter, read_returns
  <2>3. CASE write_wait(f) \/ write_check(f) \/ write_queue(f)
    BY <2>3 DEF write_wait, write_check, write_queue, write_fails
  <2>4. CASE read_wait(f) \/ read_take(f) \/ read_copy(f)
    BY <2>4 DEF read_wait, read_take, read_copy, read_returns
  <2> QED
    BY <2>1, <2>2, <2>3, <2>4 DEF Transfers
<1> QED
  BY <1>2, <1>3, <1>4

\* Every step of a file's thread is one of these or one of open() and release().
LEMMA FileCases ==
  ASSUME NEW f \in Files, User(f) \/ Locks(f) \/ InCall(f)
  PROVE  \/ Transfers(f) \/ mhi_uci_open(f) \/ start_chan(f) \/ start_chan_prepare(f)
         \/ mhi_queue_inbound(f) \/ release_lock(f) \/ chan_release_unprepare(f)
         \/ chan_release_free(f) \/ dev_release_put(f)
BY DEF Transfers, User, Locks, InCall

\* Every step leaves the channel as the removal and the owner of its object have it.
LEMMA ChannelStep ==
  UciType /\ LockInv /\ ChannelInv /\ OwnerInv /\ RefsHeld /\ [Next]_vars => ChannelInv'
<1> SUFFICES ASSUME UciType, LockInv, ChannelInv, OwnerInv, RefsHeld, [Next]_vars PROVE ChannelInv'
  OBVIOUS
<1>0. cref = Cardinality(Insiders) /\ (cref = 0 <=> \A g \in Files : ~Inside(g)) /\ cref \in Nat
  BY Counts DEF RefsHeld, Insiders
<1> USE DEF ChannelInv
<1>1. CASE mhi_uci_probe
  BY <1>1 DEF mhi_uci_probe, Inside, ReadPc, WritePc
<1>2. CASE Removal
  <2>1. UNCHANGED pc
    BY <1>2 DEF Removal, DriverRemove, RemoveDisable, RemoveWake, RemovePut, RemoveDeinit
  <2>2. \A f \in Files : pc[f] = "o_fill" => lock = f /\ f # "none"
    BY UciConstants DEF LockInv, UdevLocked
  <2> QED
    BY <1>2, <2>1, <2>2 DEF Removal, DriverRemove, RemoveDisable, RemoveWake, RemovePut, RemoveDeinit, Inside
<1>3. ASSUME NEW f \in Files, User(f) \/ Locks(f) \/ InCall(f) PROVE ChannelInv'
  <2>0. /\ \A g \in Files \ {f} : pc'[g] = pc[g]
        /\ UNCHANGED <<mdev, idr, enabled>> /\ pc' \in [Files -> Pc]
    BY <1>3, OneFile
  <2>i. \A g \in Files : Inside(g) <=> pc[g] \in InsidePc
    BY DEF Inside, InsidePc
  <2>j. \A g \in Files : Inside(g)' <=> pc'[g] \in InsidePc
    BY DEF Inside, InsidePc
  <2> USE DEF InsidePc, ReadPc, WritePc
  <2>1. CASE Transfers(f)
    <3>1. UNCHANGED <<ch, stale>> /\ pc[f] \in InsidePc /\ pc'[f] \in InsidePc
      BY <2>1, StaysInside
    <3> QED
      BY <2>0, <2>i, <2>j, <3>1
  <2>2. CASE mhi_uci_open(f)
    BY <2>0, <2>2, <2>i, <2>j DEF mhi_uci_open, UciType
  <2>3. CASE start_chan(f)
    <3>1. UNCHANGED <<ch, stale>> /\ pc[f] = "o_lock" /\ pc'[f] \in {"open", "o_prep", "c_put"}
          /\ (pc'[f] = "open" => cref > 0)
      BY <2>3 DEF start_chan, UciType
    <3>2. pc'[f] = "open" => \E g \in Files : Inside(g)
      BY <1>0, <3>1
    <3> QED
      BY <2>0, <2>i, <2>j, <3>1, <3>2
  <2>4. CASE release_lock(f) \/ chan_release_free(f) \/ dev_release_put(f)
    <3>1. UNCHANGED <<ch, stale>> /\ pc[f] # "closed" /\ pc'[f] \in {"c_unprep", "c_put", "closed"}
      BY <2>4 DEF release_lock, chan_release_free, dev_release_put, UciType
    <3> QED
      BY <2>0, <2>i, <2>j, <3>1
  <2>5. CASE start_chan_prepare(f)
    <3>1. pc[f] = "o_prep" /\ pc'[f] \in {"o_fill", "c_unprep"} /\ stale' = (stale \/ ~enabled)
          /\ \/ ch = "DISABLED" /\ ch' = "ENABLED" /\ pc'[f] = "o_fill"
             \/ ch' = ch /\ pc'[f] = "c_unprep"
      BY <2>5 DEF start_chan_prepare, Calls, UciType
    <3>2. \A g \in Files : pc[g] = "c_free" => g = f
      BY <3>1 DEF LockInv, UdevLocked
    <3> QED
      BY <2>0, <2>i, <2>j, <3>1, <3>2
  <2>6. CASE mhi_queue_inbound(f)
    <3>1. pc[f] = "o_fill" /\ pc'[f] \in {"open", "c_unprep"} /\ ch' = ch /\ stale' = (stale \/ ~enabled)
      BY <2>6 DEF mhi_queue_inbound, Calls, UciType
    <3> QED
      BY <2>0, <2>i, <2>j, <3>1
  <2>7. CASE chan_release_unprepare(f)
    <3>1. pc[f] = "c_unprep" /\ pc'[f] = "c_free" /\ stale' = stale
          /\ \/ ch' = ch /\ (ch # "ENABLED" \/ ~enabled)
             \/ ch = "ENABLED" /\ ch' = "DISABLED" /\ enabled
      BY <2>7 DEF chan_release_unprepare, __mhi_unprepare_channel, UciType
    <3>2. cref = 0 /\ \A g \in Files : pc[g] \in UdevLocked => g = f
      BY <3>1 DEF LockInv, OwnerInv, UdevLocked
    <3>3. \A g \in Files : ~Inside(g) /\ pc[g] # "o_fill"
      BY <1>0, <3>1, <3>2 DEF UdevLocked
    <3> QED
      BY <2>0, <2>i, <2>j, <3>1, <3>3
  <2> QED
    BY <1>3, <2>1, <2>2, <2>3, <2>4, <2>5, <2>6, <2>7, FileCases
<1>4. CASE mhi_dl_xfer_cb \/ mhi_ul_xfer_cb
  BY <1>4 DEF mhi_dl_xfer_cb, mhi_ul_xfer_cb, Inside
<1>5. CASE UNCHANGED vars
  BY <1>5 DEF vars, Inside
<1> QED
  BY <1>1, <1>2, <1>3, <1>4, <1>5 DEF Next

\* Every step leaves the channel object to the thread that starts or stops the channel.
LEMMA OwnerStep ==
  UciType /\ LockInv /\ OwnerInv /\ RefsHeld /\ [Next]_vars => OwnerInv'
<1> SUFFICES ASSUME UciType, LockInv, OwnerInv, RefsHeld, [Next]_vars PROVE OwnerInv'
  OBVIOUS
<1>0. cref \in Nat /\ (cref > 0 => uchan)
  BY Counts DEF RefsHeld, Insiders
<1>1. CASE mhi_uci_probe \/ Removal \/ mhi_dl_xfer_cb \/ mhi_ul_xfer_cb \/ UNCHANGED vars
  <2>1. UNCHANGED <<pc, uchan, cref>>
    BY <1>1 DEF mhi_uci_probe, Removal, DriverRemove, RemoveDisable, RemoveWake, RemovePut, RemoveDeinit,
       mhi_dl_xfer_cb, mhi_ul_xfer_cb, vars
  <2> QED
    BY <2>1 DEF OwnerInv
<1>2. ASSUME NEW f \in Files, User(f) \/ Locks(f) \/ InCall(f) PROVE OwnerInv'
  <2>0. /\ \A g \in Files \ {f} : pc'[g] = pc[g]
        /\ \A g \in Files : (lock = g <=> pc[g] \in UdevLocked) /\ g # "none"
    BY <1>2, OneFile, UciConstants DEF LockInv
  <2>1. CASE Transfers(f)
    <3>1. UNCHANGED <<cref, uchan>> /\ pc'[f] \notin UdevLocked
      BY <2>1, StaysInside DEF InsidePc, ReadPc, WritePc, UdevLocked
    <3> QED
      BY <2>0, <3>1 DEF OwnerInv
  <2>2. CASE mhi_uci_open(f) \/ dev_release_put(f)
    BY <2>0, <2>2 DEF mhi_uci_open, dev_release_put, OwnerInv, UdevLocked, UciType
  <2>3. CASE start_chan(f)
    <3>1. \A g \in Files \ {f} : pc'[g] \notin UdevLocked
      BY <2>0, <2>3 DEF start_chan
    <3>2. pc'[f] \in UdevLocked => uchan' /\ cref' = 0
      BY <1>0, <2>3 DEF start_chan, UdevLocked, UciType
    <3> QED
      BY <3>1, <3>2 DEF OwnerInv
  <2>4. CASE release_lock(f)
    <3>1. \A g \in Files \ {f} : pc'[g] \notin UdevLocked
      BY <2>0, <2>4 DEF release_lock
    <3>2. pc'[f] \in UdevLocked => uchan' /\ cref' = 0
      BY <1>0, <2>4 DEF release_lock, UdevLocked, UciType
    <3> QED
      BY <3>1, <3>2 DEF OwnerInv
  <2>5. CASE start_chan_prepare(f) \/ mhi_queue_inbound(f) \/ chan_release_unprepare(f) \/ chan_release_free(f)
    <3>1. pc[f] \in UdevLocked
      BY <2>5 DEF start_chan_prepare, mhi_queue_inbound, chan_release_unprepare, chan_release_free, UdevLocked
    <3>2. \A g \in Files \ {f} : pc'[g] \notin UdevLocked
      BY <2>0, <3>1
    <3>3. pc'[f] \in UdevLocked => UNCHANGED <<uchan, cref>>
      BY <2>5 DEF start_chan_prepare, mhi_queue_inbound, chan_release_unprepare, chan_release_free, UdevLocked, UciType
    <3> QED
      BY <3>1, <3>2, <3>3 DEF OwnerInv
  <2> QED
    BY <1>2, <2>1, <2>2, <2>3, <2>4, <2>5, FileCases
<1> QED
  BY <1>1, <1>2 DEF Next

\* Every step counts the references it takes and drops.
LEMMA RefsStep ==
  UciType /\ LockInv /\ ChannelInv /\ OwnerInv /\ RefsHeld /\ [Next]_vars => RefsHeld'
<1> SUFFICES ASSUME UciType, LockInv, ChannelInv, OwnerInv, RefsHeld, [Next]_vars PROVE RefsHeld'
  OBVIOUS
<1> DEFINE Bound == IF mdev \in {"none", "put", "gone"} THEN 0 ELSE 1
           h == Cardinality(Holders)
           n == Cardinality(Insiders)
<1>0. uref = h + Bound /\ cref = n /\ (cref > 0 => uchan) /\ (ch = "ENABLED" /\ ~stale => uchan)
      /\ h \in Nat /\ n \in Nat
  BY Counts DEF RefsHeld, Insiders, Holders
<1>s. ASSUME uref' = h' + Bound', cref' = n', cref' > 0 => uchan', ch' = "ENABLED" /\ ~stale' => uchan'
      PROVE  RefsHeld'
  BY <1>s DEF RefsHeld, Insiders, Holders
<1>u. UNCHANGED pc => h' = h /\ n' = n
  BY DEF Holders, Insiders, HasUdev, Inside
<1>1. CASE mhi_uci_probe
  <2>1. mdev = "none" /\ mdev' = "bound" /\ uref' = 1 /\ UNCHANGED <<cref, uchan, ch, stale, pc>>
    BY <1>1 DEF mhi_uci_probe
  <2>2. h = 0
    BY <2>1, Counts DEF ChannelInv
  <2>3. Bound' = 1
    BY <2>1
  <2> QED
    BY <1>0, <1>s, <1>u, <2>1, <2>2, <2>3
<1>2. CASE Removal
  <2>1. UNCHANGED <<cref, uchan, stale, pc>> /\ (ch' = ch \/ ch' # "ENABLED")
    BY <1>2 DEF Removal, DriverRemove, RemoveDisable, RemoveWake, RemovePut, RemoveDeinit
  <2>2. CASE RemovePut
    <3>1. uref' = uref - 1 /\ Bound = 1 /\ Bound' = 0
      BY <2>2 DEF RemovePut
    <3> HIDE DEF Bound, h
    <3>2. uref' = h + Bound'
      BY <1>0, <3>1
    <3> QED
      BY <1>0, <1>s, <1>u, <2>1, <3>2 DEF h
  <2>3. CASE ~RemovePut
    <3>1. uref' = uref /\ Bound' = Bound
      BY <1>2, <2>3 DEF Removal, DriverRemove, RemoveDisable, RemoveWake, RemoveDeinit
    <3> QED
      BY <1>0, <1>s, <1>u, <2>1, <3>1
  <2> QED
    BY <2>2, <2>3
<1>3. ASSUME NEW f \in Files, User(f) \/ Locks(f) \/ InCall(f) PROVE RefsHeld'
  <2>0. UNCHANGED <<mdev, enabled>> /\ \E l \in Pc : pc' = [pc EXCEPT ![f] = l]
    BY <1>3, OneFile, FileSteps DEF FileMoves
  <2>1. PICK l \in Pc : pc' = [pc EXCEPT ![f] = l]
    BY <2>0
  <2>2. Bound' = Bound /\ pc'[f] = l /\ Bound \in Nat
    BY <2>0, <2>1 DEF UciType
  <2>3. /\ (pc[f] = "closed" <=> l = "closed") => h' = h
        /\ pc[f] = "closed" /\ l # "closed" => h' = h + 1
        /\ pc[f] # "closed" /\ l = "closed" => h' = h - 1
        /\ (pc[f] \in InsidePc <=> l \in InsidePc) => n' = n
        /\ pc[f] \notin InsidePc /\ l \in InsidePc => n' = n + 1
        /\ pc[f] \in InsidePc /\ l \notin InsidePc => n' = n - 1
    BY <2>1, Moved
  <2> HIDE DEF h, n, Bound
  <2>4. CASE Transfers(f)
    <3>1. UNCHANGED <<uref, cref, uchan, ch, stale>> /\ pc[f] \in InsidePc /\ l \in InsidePc
      BY <2>2, <2>4, StaysInside
    <3>2. pc[f] # "closed" /\ l # "closed"
      BY <3>1 DEF InsidePc, ReadPc, WritePc
    <3> QED
      BY <1>0, <1>s, <2>2, <2>3, <3>1, <3>2
  <2>5. CASE mhi_uci_open(f) \/ dev_release_put(f)
    <3>1. UNCHANGED <<cref, uchan, ch, stale>> /\ pc[f] \notin InsidePc /\ l \notin InsidePc
          /\ \/ pc[f] = "closed" /\ l # "closed" /\ uref' = uref + 1
             \/ pc[f] # "closed" /\ l = "closed" /\ uref' = uref - 1
      BY <2>2, <2>5 DEF mhi_uci_open, dev_release_put, UciType, InsidePc, ReadPc, WritePc
    <3> QED
      BY <1>0, <1>s, <2>2, <2>3, <3>1
  <2>6. CASE start_chan(f)
    <3>1. UNCHANGED <<uref, ch, stale>> /\ pc[f] # "closed" /\ l # "closed" /\ pc[f] \notin InsidePc
          /\ \/ uchan /\ uchan' = uchan /\ cref' = cref + 1 /\ l \in InsidePc
             \/ uchan' /\ cref' = cref /\ l \notin InsidePc
             \/ UNCHANGED <<uchan, cref>> /\ l \notin InsidePc
      BY <2>2, <2>6 DEF start_chan, kref_get_unless_zero, UciType, InsidePc, ReadPc, WritePc
    <3> QED
      BY <1>0, <1>s, <2>2, <2>3, <3>1
  <2>7. CASE start_chan_prepare(f)
    <3>1. UNCHANGED <<uref, cref, uchan>> /\ pc[f] # "closed" /\ l # "closed" /\ pc[f] \notin InsidePc
          /\ l \notin InsidePc /\ pc[f] \in UdevLocked
      BY <2>2, <2>7 DEF start_chan_prepare, UciType, InsidePc, ReadPc, WritePc, UdevLocked
    <3>2. uchan
      BY <3>1 DEF OwnerInv
    <3> QED
      BY <1>0, <1>s, <2>2, <2>3, <3>1, <3>2
  <2>8. CASE mhi_queue_inbound(f)
    <3>1. UNCHANGED <<uref, uchan, ch>> /\ pc[f] # "closed" /\ l # "closed" /\ pc[f] \notin InsidePc
          /\ pc[f] \in UdevLocked
          /\ \/ l \in InsidePc /\ cref' = 1
             \/ l \notin InsidePc /\ cref' = cref
      BY <2>2, <2>8 DEF mhi_queue_inbound, UciType, InsidePc, ReadPc, WritePc, UdevLocked
    <3>2. uchan /\ cref = 0
      BY <3>1 DEF OwnerInv
    <3> QED
      BY <1>0, <1>s, <2>2, <2>3, <3>1, <3>2
  <2>9. CASE release_lock(f)
    <3>1. UNCHANGED <<uref, uchan, ch, stale>> /\ pc[f] # "closed" /\ l # "closed" /\ pc[f] \in InsidePc
          /\ l \notin InsidePc /\ cref' = cref - 1
      BY <2>2, <2>9 DEF release_lock, UciType, InsidePc, ReadPc, WritePc
    <3> QED
      BY <1>0, <1>s, <2>2, <2>3, <3>1
  <2>10. CASE chan_release_unprepare(f)
    <3>1. UNCHANGED <<uref, cref, uchan, stale>> /\ pc[f] # "closed" /\ l # "closed" /\ pc[f] \notin InsidePc
          /\ l \notin InsidePc /\ (ch' = ch \/ ch' # "ENABLED")
      BY <2>2, <2>10 DEF chan_release_unprepare, __mhi_unprepare_channel, UciType, InsidePc, ReadPc, WritePc
    <3> QED
      BY <1>0, <1>s, <2>2, <2>3, <3>1
  <2>11. CASE chan_release_free(f)
    <3>1. UNCHANGED <<uref, cref, ch, stale>> /\ pc[f] = "c_free" /\ l # "closed" /\ pc[f] \notin InsidePc
          /\ l \notin InsidePc
      BY <2>2, <2>11 DEF chan_release_free, UciType, InsidePc, ReadPc, WritePc
    <3>2. cref = 0
      BY <3>1 DEF OwnerInv, UdevLocked
    <3>3. ch = "ENABLED" => stale
      BY <3>1 DEF ChannelInv, UciType
    <3> QED
      BY <1>0, <1>s, <2>2, <2>3, <3>1, <3>2, <3>3
  <2> QED
    BY <1>3, <2>4, <2>5, <2>6, <2>7, <2>8, <2>9, <2>10, <2>11, FileCases
<1>4. CASE mhi_dl_xfer_cb \/ mhi_ul_xfer_cb \/ UNCHANGED vars
  <2>1. UNCHANGED <<pc, mdev, uref, cref, uchan, ch, stale>>
    BY <1>4 DEF mhi_dl_xfer_cb, mhi_ul_xfer_cb, vars
  <2> QED
    BY <1>0, <1>s, <1>u, <2>1
<1> QED
  BY <1>1, <1>2, <1>3, <1>4 DEF Next

-----------------------------------------------------------------------------
(* Buffers                                                                 *)

\* BuffersAccounted without the types and without what is lost.
Accounted ==
  /\ live = dl + Len(ul) + Len(pend) + (IF cur = NoBuf THEN 0 ELSE 1) + lost
  /\ ~uchan => pend = <<>> /\ cur = NoBuf

\* Nothing happens to the buffers.
BufsAside == UNCHANGED <<dl, ul, pend, cur, live, lost, late, uchan>>

\* The first k of a ring's elements are completed.
LEMMA Completed ==
  ASSUME NEW S, NEW s \in Seq(S), NEW k \in 1..Len(s)
  PROVE  SubSeq(s, k + 1, Len(s)) \in Seq(S) /\ Len(SubSeq(s, k + 1, Len(s))) = Len(s) - k
OBVIOUS

\* Which actions touch buffers.
LEMMA BufsCases ==
  ASSUME NEW f \in Files, User(f) \/ Locks(f) \/ InCall(f)
  PROVE  \/ BufsAside \/ start_chan(f) \/ mhi_queue_inbound(f)
         \/ chan_release_unprepare(f) \/ chan_release_free(f) \/ write_queue(f) \/ read_take(f)
         \/ read_copy(f)
<1>1. CASE User(f)
  BY <1>1 DEF User, mhi_uci_open, mhi_uci_release, mhi_uci_write, mhi_uci_read, write_signal, read_signal,
     BufsAside
<1>2. CASE Locks(f)
  BY <1>2 DEF Locks, release_lock, write_enter, read_enter, BufsAside
<1>3. CASE start_chan_prepare(f) \/ dev_release_put(f) \/ write_wait(f) \/ write_check(f) \/ read_wait(f)
  BY <1>3 DEF start_chan_prepare, dev_release_put, write_wait, write_check, write_fails, read_wait, BufsAside
<1> QED
  BY <1>1, <1>2, <1>3 DEF InCall

\* Every step accounts for the buffers it allocates, moves and frees.
LEMMA AccountStep ==
  UciType /\ LockInv /\ ChannelInv /\ OwnerInv /\ RefsHeld /\ BufferInv /\ Accounted /\ [Next]_vars
    => Accounted'
<1> SUFFICES ASSUME UciType, LockInv, ChannelInv, OwnerInv, RefsHeld, BufferInv, Accounted, [Next]_vars
             PROVE  Accounted'
  OBVIOUS
<1> DEFINE u == Len(ul)
           p == Len(pend)
           c == IF cur = NoBuf THEN 0 ELSE 1
           Lens == 0..MaxLen
<1>0. dl \in Nat /\ lost \in Nat /\ u \in Nat /\ p \in Nat /\ c \in Nat /\ DlN \in Nat /\ live \in Int
      /\ live = dl + u + p + c + lost
  BY UciConstants DEF UciType, Accounted
<1>q. ul \in Seq({"CHAIN", "EOT"}) /\ pend \in Seq(Lens)
  BY DEF UciType
<1>o. ~uchan => pend = <<>> /\ cur = NoBuf
  BY DEF Accounted
<1>c. cur \in {NoBuf} \cup Lens /\ NoBuf \notin Lens /\ MaxLen \in Nat
  BY UciConstants DEF UciType, NoBuf
<1>i. \A f \in Files : Inside(f) => uchan
  BY Counts DEF RefsHeld, Insiders
<1>s. ASSUME live' = dl' + u' + p' + c' + lost', ~uchan' => pend' = <<>> /\ cur' = NoBuf
      PROVE  Accounted'
  BY <1>s DEF Accounted
<1>a. ASSUME BufsAside PROVE Accounted'
  BY <1>a DEF BufsAside, Accounted
<1>p. (UNCHANGED ul => u' = u) /\ (UNCHANGED pend => p' = p) /\ (UNCHANGED cur => c' = c)
  OBVIOUS
<1>e. (ul' = <<>> => u' = 0) /\ (pend' = <<>> => p' = 0) /\ (cur' = NoBuf => c' = 0) /\ (cur' # NoBuf => c' = 1)
      /\ (cur = NoBuf => c = 0) /\ (cur # NoBuf => c = 1) /\ (ul = <<>> => u = 0)
  OBVIOUS
<1>1. CASE mhi_uci_probe \/ RemoveDisable \/ RemoveWake \/ RemovePut \/ UNCHANGED vars
  BY <1>1, <1>a DEF mhi_uci_probe, RemoveDisable, RemoveWake, RemovePut, vars, BufsAside
<1>2. CASE DriverRemove
  <2>1. dl' = 0 /\ ul' = <<>> /\ live' = live - dl - u /\ UNCHANGED <<pend, cur, lost, uchan, stale>>
    BY <1>2 DEF DriverRemove, mhi_reset_chan
  <2> HIDE DEF u, p, c
  <2>2. live' = dl' + u' + p' + c' + lost'
    BY <1>0, <1>p, <1>e, <2>1
  <2> QED
    BY <1>o, <1>s, <2>1, <2>2
<1>3. ASSUME NEW f \in Files, start_chan(f) PROVE Accounted'
  BY <1>3 DEF start_chan, Accounted, UciType
<1>4. CASE RemoveDeinit
  <2>1. dl' = 0 /\ ul' = <<>> /\ lost' = lost + dl + u /\ UNCHANGED <<pend, cur, live, uchan>>
    BY <1>4 DEF RemoveDeinit
  <2> HIDE DEF u, p, c
  <2>2. live' = dl' + u' + p' + c' + lost'
    BY <1>0, <1>p, <1>e, <2>1
  <2> QED
    BY <1>o, <1>s, <2>1, <2>2
<1>5. ASSUME NEW f \in Files, mhi_queue_inbound(f) PROVE Accounted'
  <2>1. PICK m \in 0..(DlN - dl) : dl' = dl + m /\ live' = live + m
    BY <1>5 DEF mhi_queue_inbound
  <2>2. ch # "DISABLED"
    BY <1>5 DEF mhi_queue_inbound, ChannelInv, LockInv, UdevLocked, UciType
  <2>4. UNCHANGED <<pend, cur, ul, lost, uchan>>
    BY <1>5, <2>2 DEF mhi_queue_inbound, Queues
  <2> HIDE DEF u, p, c
  <2>3. live' = dl' + u' + p' + c' + lost'
    BY <1>0, <1>p, <2>1, <2>4
  <2> QED
    BY <1>o, <1>s, <2>3, <2>4
<1>6. ASSUME NEW f \in Files, chan_release_unprepare(f) PROVE Accounted'
  <2>1. UNCHANGED <<pend, cur, lost, uchan, stale>>
        /\ \/ dl' = 0 /\ ul' = <<>> /\ live' = live - dl - u
           \/ UNCHANGED <<dl, ul, live>>
    BY <1>6 DEF chan_release_unprepare, __mhi_unprepare_channel, mhi_reset_chan
  <2> HIDE DEF u, p, c
  <2>2. live' = dl' + u' + p' + c' + lost'
    BY <1>0, <1>p, <1>e, <2>1
  <2> QED
    BY <1>o, <1>s, <2>1, <2>2
<1>7. ASSUME NEW f \in Files, chan_release_free(f) PROVE Accounted'
  <2>1. live' = live - p - c /\ pend' = <<>> /\ cur' = NoBuf /\ UNCHANGED <<dl, ul, lost, stale>>
    BY <1>7 DEF chan_release_free, ReleaseFrees
  <2> HIDE DEF u, p, c
  <2>2. live' = dl' + u' + p' + c' + lost'
    BY <1>0, <1>p, <1>e, <2>1
  <2> QED
    BY <1>o, <1>s, <2>1, <2>2
<1>8. ASSUME NEW f \in Files, write_queue(f) PROVE Accounted'
  <2>1. UNCHANGED <<pend, cur, uchan, dl>>
        /\ \/ UNCHANGED <<ul, live, lost>>
           \/ ul' = Append(ul, WriteFlag(f)) /\ live' = live + 1 /\ UNCHANGED lost
           \/ UNCHANGED ul /\ live' = live + 1 /\ lost' = lost + 1
    BY <1>8 DEF write_queue, write_fails, Queues
  <2>2. WriteFlag(f) \in {"CHAIN", "EOT"}
    BY DEF WriteFlag
  <2>3. ul' = Append(ul, WriteFlag(f)) => u' = u + 1
    BY <1>q, <2>2
  <2> HIDE DEF u, p, c
  <2>4. live' = dl' + u' + p' + c' + lost'
    BY <1>0, <1>p, <2>1, <2>3
  <2> QED
    BY <1>o, <1>s, <2>1, <2>4
<1>9. ASSUME NEW f \in Files, read_take(f) PROVE Accounted'
  <2>1. UNCHANGED <<lost, late, uchan, dl, ul, live>>
        /\ \/ UNCHANGED <<cur, pend>>
           \/ cur = NoBuf /\ pend # <<>> /\ cur' = Head(pend) /\ pend' = Tail(pend)
    BY <1>9 DEF read_take
  <2>2. CASE UNCHANGED <<cur, pend>>
    BY <1>a, <2>1, <2>2 DEF BufsAside
  <2>3. CASE cur = NoBuf /\ pend # <<>> /\ cur' = Head(pend) /\ pend' = Tail(pend)
    <3>1. cur' # NoBuf /\ p' = p - 1
      <4> HIDE DEF Lens
      <4>1. Head(pend) \in Lens /\ Len(Tail(pend)) = Len(pend) - 1
        BY <1>q, <2>3
      <4> QED
        BY <1>c, <2>3, <4>1
    <3> HIDE DEF u, p, c
    <3>2. live' = dl' + u' + p' + c' + lost'
      BY <1>0, <1>p, <1>e, <2>1, <2>3, <3>1
    <3> QED
      BY <1>o, <1>s, <2>1, <2>3, <3>2
  <2> QED
    BY <2>1, <2>2, <2>3
<1>10. ASSUME NEW f \in Files, read_copy(f) PROVE Accounted'
  <2>1. UNCHANGED <<uchan, pend, ul>>
        /\ \/ (\E m \in 1..cur : cur' = m) /\ UNCHANGED <<dl, live, lost>>
           \/ cur' = NoBuf /\ dl' = dl + 1 /\ UNCHANGED <<live, lost>>
           \/ cur' = NoBuf /\ lost' = lost + 1 /\ UNCHANGED <<live, dl>>
           \/ cur' = NoBuf /\ live' = live - 1 /\ UNCHANGED <<dl, lost>>
    BY <1>10 DEF read_copy, read_recycle, Queues
  <2>2. cur # NoBuf /\ Inside(f) /\ cur \in 0..MaxLen
    BY <1>10, <1>c DEF read_copy, BufferInv, Inside, ReadPc
  <2>3. (\E m \in 1..cur : cur' = m) => cur' # NoBuf
    BY <1>c, <2>2 DEF NoBuf
  <2> HIDE DEF u, p, c
  <2>4. live' = dl' + u' + p' + c' + lost'
    BY <1>0, <1>p, <1>e, <2>1, <2>2, <2>3
  <2> QED
    BY <1>o, <1>i, <1>s, <2>1, <2>2, <2>4
<1>11. CASE mhi_dl_xfer_cb
  <2>1. PICK m \in Lens : pend' = Append(pend, m)
    BY <1>11 DEF mhi_dl_xfer_cb
  <2>2. p' = p + 1
    <3> HIDE DEF Lens
    <3> QED BY <1>q, <2>1
  <2>3. uchan /\ dl' = dl - 1 /\ UNCHANGED <<cur, ul, live, lost, uchan, stale>>
    BY <1>11 DEF mhi_dl_xfer_cb
  <2> HIDE DEF u, p, c
  <2>4. live' = dl' + u' + p' + c' + lost'
    BY <1>0, <1>p, <2>2, <2>3
  <2> QED
    BY <1>o, <1>s, <2>3, <2>4
<1>12. CASE mhi_ul_xfer_cb
  <2>1. PICK k \in 1..Len(ul) : ul' = SubSeq(ul, k + 1, Len(ul)) /\ live' = live - k
    BY <1>12 DEF mhi_ul_xfer_cb
  <2>2. u' = u - k /\ k \in Int
    BY <1>q, <2>1, Completed
  <2>3. UNCHANGED <<dl, pend, cur, lost, uchan, stale>>
    BY <1>12 DEF mhi_ul_xfer_cb
  <2> HIDE DEF u, p, c
  <2>4. live' = dl' + u' + p' + c' + lost'
    BY <1>0, <1>p, <2>1, <2>2, <2>3
  <2> QED
    BY <1>o, <1>s, <2>3, <2>4
<1> QED
  BY <1>a, <1>1, <1>2, <1>3, <1>4, <1>5, <1>6, <1>7, <1>8, <1>9, <1>10, <1>11, <1>12, BufsCases
  DEF Next, Removal

\* Every step keeps track of what was queued after the drain.
LEMMA LateStep ==
  UciType /\ LockInv /\ ChannelInv /\ BufferInv /\ LateInv /\ [Next]_vars => LateInv'
<1> SUFFICES ASSUME UciType, LockInv, ChannelInv, BufferInv, LateInv, [Next]_vars PROVE LateInv'
  OBVIOUS
<1> DEFINE u == Len(ul)
           Early == mdev \in {"none", "bound"}
           Leaving == mdev \in {"reset", "disabled", "woken", "put"}
<1>0. dl \in Nat /\ lost \in Nat /\ late \in Nat /\ u \in Nat /\ DlN \in Nat /\ ul \in Seq({"CHAIN", "EOT"})
  BY UciConstants DEF UciType
<1>1. /\ Early => late = 0 /\ lost = 0
      /\ Leaving => late = dl + u /\ lost = 0 /\ ch = "SUSPENDED"
      /\ mdev = "gone" => lost = late /\ ch # "SUSPENDED"
      /\ Early => ch # "SUSPENDED"
  BY DEF LateInv, ChannelInv
<1>s. ASSUME Early' => late' = 0 /\ lost' = 0, Leaving' => late' = dl' + u' /\ lost' = 0,
             mdev' = "gone" => lost' = late'
      PROVE  LateInv'
  BY <1>s DEF LateInv
<1>e. (ul' = <<>> => u' = 0) /\ (ul' = ul => u' = u)
  OBVIOUS
<1>2. CASE mhi_uci_probe \/ RemoveDisable \/ RemoveWake \/ RemovePut \/ UNCHANGED vars
  <2>1. UNCHANGED <<dl, ul, lost, late>> /\ (Early' => Early) /\ (Leaving' => Leaving)
        /\ (mdev' = "gone" => mdev = "gone")
    BY <1>2 DEF mhi_uci_probe, RemoveDisable, RemoveWake, RemovePut, vars
  <2> QED
    BY <1>1, <1>s, <2>1
<1>3. CASE DriverRemove
  <2>1. dl' = 0 /\ ul' = <<>> /\ UNCHANGED <<lost, late>> /\ Early /\ mdev' = "reset"
    BY <1>3 DEF DriverRemove, mhi_reset_chan
  <2> QED
    BY <1>0, <1>1, <1>s, <1>e, <2>1
<1>4. CASE RemoveDeinit
  <2>1. lost' = lost + dl + u /\ late' = late /\ Leaving /\ mdev' = "gone"
    BY <1>4 DEF RemoveDeinit
  <2> HIDE DEF u
  <2> QED
    BY <1>0, <1>1, <1>s, <2>1
<1>5. ASSUME NEW f \in Files, User(f) \/ Locks(f) \/ InCall(f) PROVE LateInv'
  <2>0. UNCHANGED mdev
    BY <1>5, OneFile
  <2>1. CASE BufsAside \/ start_chan(f) \/ chan_release_free(f) \/ read_take(f)
    <3>1. UNCHANGED <<dl, ul, lost, late>>
      BY <2>1 DEF BufsAside, start_chan, chan_release_free, read_take
    <3> QED
      BY <1>1, <1>s, <2>0, <3>1
  <2>2. CASE chan_release_unprepare(f)
    <3>1. UNCHANGED <<lost, late>> /\ (ch # "ENABLED" => UNCHANGED <<dl, ul>>)
      BY <2>2 DEF chan_release_unprepare, __mhi_unprepare_channel
    <3> QED
      BY <1>1, <1>s, <2>0, <3>1
  <2>q. ASSUME NEW n \in Nat, Queues(n), Early => ch = "ENABLED", Leaving => dl' + u' = dl + u + n
        PROVE  LateInv'
    <3> HIDE DEF u
    <3>1. CASE Early
      BY <1>1, <1>s, <2>0, <2>q, <3>1 DEF Queues
    <3>2. CASE Leaving
      <4>1. late' = late + n /\ lost' = lost
        BY <1>1, <2>q, <3>2 DEF Queues
      <4> QED
        BY <1>0, <1>1, <1>s, <2>0, <2>q, <3>2, <4>1
    <3>3. CASE mdev = "gone"
      <4>1. lost' = late'
        BY <1>0, <1>1, <2>q, <3>3 DEF Queues, UciType
      <4> QED
        BY <1>s, <2>0, <3>3, <4>1
    <3> QED
      BY <3>1, <3>2, <3>3 DEF UciType
  <2>3. CASE mhi_queue_inbound(f)
    <3>1. PICK m \in 0..(DlN - dl) : dl' = dl + m /\ Queues(m) /\ UNCHANGED ul
      BY <2>3 DEF mhi_queue_inbound
    <3>2. m \in Nat /\ dl' + u' = dl + u + m
      BY <1>0, <3>1
    <3>3. Early => ch = "ENABLED"
      BY <2>3 DEF mhi_queue_inbound, ChannelInv
    <3> QED
      BY <2>q, <3>1, <3>2, <3>3
  <2>4. CASE write_queue(f)
    <3>1. CASE write_fails(f)
      <4>1. UNCHANGED <<dl, ul, lost, late>>
        BY <2>4, <3>1 DEF write_queue, write_fails
      <4> QED
        BY <1>1, <1>s, <2>0, <4>1
    <3>2. CASE ~write_fails(f)
      <4>1. /\ Queues(1) /\ UNCHANGED dl /\ pc[f] = "w_queue"
            /\ ch # "DISABLED" => ul' = Append(ul, WriteFlag(f))
        BY <2>4, <3>2 DEF write_queue
      <4>2. WriteFlag(f) \in {"CHAIN", "EOT"}
        BY DEF WriteFlag
      <4>3. ul' = Append(ul, WriteFlag(f)) => u' = u + 1
        BY <1>0, <4>2
      <4>4. Early => ch = "ENABLED"
        BY <4>1 DEF ChannelInv, Inside, WritePc
      <4>5. Leaving => dl' + u' = dl + u + 1
        <5> HIDE DEF u
        <5> QED
          BY <1>0, <1>1, <4>1, <4>3
      <4> QED
        BY <2>q, <4>1, <4>4, <4>5
    <3> QED
      BY <3>1, <3>2
  <2>5. CASE read_copy(f)
    <3>1. CASE UNCHANGED <<dl, lost, late>>
      <4>1. UNCHANGED ul
        BY <2>5 DEF read_copy
      <4> QED
        BY <1>1, <1>s, <2>0, <3>1, <4>1
    <3>2. CASE ~UNCHANGED <<dl, lost, late>>
      <4>1. /\ Queues(1) /\ UNCHANGED ul /\ pc[f] = "r_copy"
            /\ ch # "DISABLED" => dl' = dl + 1
        BY <2>5, <3>2 DEF read_copy, read_recycle
      <4>2. Early => ch = "ENABLED"
        BY <4>1 DEF ChannelInv, Inside, ReadPc
      <4>3. Leaving => dl' + u' = dl + u + 1
        BY <1>0, <1>1, <4>1
      <4> QED
        BY <2>q, <4>1, <4>2, <4>3
    <3> QED
      BY <3>1, <3>2
  <2> QED
    BY <1>5, <2>1, <2>2, <2>3, <2>4, <2>5, BufsCases
<1>6. CASE mhi_dl_xfer_cb \/ mhi_ul_xfer_cb
  <2>1. ch = "ENABLED" /\ UNCHANGED <<mdev, lost, late>>
    BY <1>6 DEF mhi_dl_xfer_cb, mhi_ul_xfer_cb
  <2> QED
    BY <1>1, <1>s, <2>1
<1> QED
  BY <1>2, <1>3, <1>4, <1>5, <1>6 DEF Next, Removal

\* Every step keeps a stopped channel empty, and the buffer that is copied from.
LEMMA BufferStep ==
  UciType /\ LockInv /\ ChannelInv /\ BufferInv /\ [Next]_vars => BufferInv'
<1> SUFFICES ASSUME UciType, LockInv, ChannelInv, BufferInv, [Next]_vars PROVE BufferInv'
  OBVIOUS
<1> DEFINE Stopped == ch = "DISABLED"
           Empty   == dl = 0 /\ ul = <<>>
<1>0. (Stopped => Empty) /\ \A g \in Files : pc[g] = "r_copy" => cur # NoBuf
  BY DEF BufferInv
<1>s. ASSUME Stopped' => Empty', \A g \in Files : pc'[g] = "r_copy" => cur' # NoBuf PROVE BufferInv'
  BY <1>s DEF BufferInv
<1>b. \A f \in Files : pc[f] = "o_fill" => ~Stopped
  BY DEF ChannelInv
<1>1. CASE mhi_uci_probe \/ Removal
  <2>1. UNCHANGED <<pc, cur>>
    BY <1>1 DEF mhi_uci_probe, Removal, DriverRemove, RemoveDisable, RemoveWake, RemovePut, RemoveDeinit
  <2>2. Stopped' => Empty'
    BY <1>0, <1>1 DEF mhi_uci_probe, Removal, DriverRemove, mhi_reset_chan, RemoveDisable, RemoveWake,
       RemovePut, RemoveDeinit
  <2> QED
    BY <1>0, <1>s, <2>1, <2>2
<1>2. ASSUME NEW f \in Files, User(f) \/ Locks(f) \/ InCall(f) PROVE BufferInv'
  <2>0. UNCHANGED mdev /\ \A g \in Files \ {f} : pc'[g] = pc[g]
    BY <1>2, OneFile
  <2>1. Stopped' => Empty'
    <3>1. CASE BufsAside \/ start_chan(f) \/ chan_release_free(f) \/ read_take(f)
      <4>1. UNCHANGED <<dl, ul>>
        BY <3>1 DEF BufsAside, start_chan, chan_release_free, read_take
      <4>2. CASE UNCHANGED ch
        BY <1>0, <2>0, <4>1, <4>2
      <4>3. CASE ~UNCHANGED ch
        BY <1>0, <1>2, <2>0, <3>1, <4>1, <4>3 DEF User, mhi_uci_open, mhi_uci_release, mhi_uci_write,
           mhi_uci_read, write_signal, read_signal, Locks, start_chan, release_lock, write_enter,
           read_enter, InCall, start_chan_prepare, mhi_queue_inbound, chan_release_unprepare,
           __mhi_unprepare_channel, mhi_reset_chan, chan_release_free, dev_release_put, write_wait,
           write_check, write_queue, read_wait, read_take, read_copy
      <4> QED
        BY <4>2, <4>3
    <3>3. CASE mhi_queue_inbound(f)
      <4>1. pc[f] = "o_fill" /\ UNCHANGED ch
        BY <3>3 DEF mhi_queue_inbound
      <4> QED
        BY <1>b, <2>0, <4>1
    <3>4. CASE chan_release_unprepare(f)
      BY <1>0, <2>0, <3>4 DEF chan_release_unprepare, __mhi_unprepare_channel, mhi_reset_chan
    <3>5. CASE write_queue(f) \/ read_copy(f)
      BY <1>0, <3>5 DEF write_queue, write_fails, read_copy, read_recycle
    <3> QED
      BY <1>2, <3>1, <3>3, <3>4, <3>5, BufsCases
  <2>2. \A g \in Files : pc'[g] = "r_copy" => cur' # NoBuf
    <3>1. CASE read_take(f)
      <4>1. pc'[f] = "r_copy" => cur' # NoBuf
        <5>1. pend # <<>> => Head(pend) # NoBuf
          <6> DEFINE S == 0..MaxLen
          <6>1. pend \in Seq(S) /\ NoBuf \notin S
            BY UciConstants DEF UciType, NoBuf
          <6> HIDE DEF S
          <6> QED
            BY <6>1
        <5> QED
          BY <3>1, <5>1 DEF read_take, read_returns, UciType
      <4>2. \A g \in Files \ {f} : pc[g] # "r_copy"
        BY <3>1 DEF LockInv, Reading, read_take
      <4> QED
        BY <2>0, <4>1, <4>2
    <3>2. CASE read_copy(f)
      <4>1. pc'[f] # "r_copy"
        BY <3>2 DEF read_copy, read_returns, UciType
      <4>2. \A g \in Files \ {f} : pc[g] # "r_copy"
        BY <3>2 DEF LockInv, Reading, read_copy
      <4> QED
        BY <2>0, <4>1, <4>2
    <3>3. CASE chan_release_free(f)
      <4>1. \A g \in Files : pc[g] # "r_copy"
        BY <3>3, UciConstants DEF LockInv, Reading, chan_release_free
      <4>2. pc'[f] # "r_copy"
        BY <3>3 DEF chan_release_free, UciType
      <4> QED
        BY <2>0, <4>1, <4>2
    <3>4. CASE ~read_take(f) /\ ~read_copy(f) /\ ~chan_release_free(f)
      <4>1. UNCHANGED cur
        BY <1>2, <3>4 DEF User, mhi_uci_open, mhi_uci_release, mhi_uci_write,
           mhi_uci_read, write_signal, read_signal, Locks, start_chan, release_lock, write_enter,
           read_enter, InCall, start_chan_prepare, mhi_queue_inbound, chan_release_unprepare,
           dev_release_put, write_wait, write_check, write_queue, read_wait
      <4>2. pc'[f] # "r_copy"
        <5> USE <3>4 DEF UciType
        <5>1. CASE User(f)
          BY <5>1 DEF User, mhi_uci_open, mhi_uci_release, mhi_uci_write, mhi_uci_read, write_signal,
             read_signal, read_returns
        <5>2. CASE Locks(f)
          BY <5>2 DEF Locks, start_chan, release_lock, write_enter, read_enter, read_returns
        <5>3. CASE start_chan_prepare(f) \/ mhi_queue_inbound(f) \/ chan_release_unprepare(f) \/ dev_release_put(f)
          BY <5>3 DEF start_chan_prepare, mhi_queue_inbound, chan_release_unprepare, dev_release_put
        <5>4. CASE write_wait(f) \/ write_check(f) \/ write_queue(f)
          BY <5>4 DEF write_wait, write_check, write_queue, write_fails
        <5>5. CASE read_wait(f)
          BY <5>5 DEF read_wait, read_returns
        <5> QED
          BY <1>2, <5>1, <5>2, <5>3, <5>4, <5>5 DEF InCall
      <4> QED
        BY <1>0, <2>0, <4>1, <4>2
    <3> QED
      BY <3>1, <3>2, <3>3, <3>4
  <2> QED
    BY <1>s, <2>1, <2>2
<1>3. CASE mhi_dl_xfer_cb \/ mhi_ul_xfer_cb
  BY <1>0, <1>s, <1>3 DEF mhi_dl_xfer_cb, mhi_ul_xfer_cb
<1>4. CASE UNCHANGED vars
  BY <1>0, <1>s, <1>4 DEF vars
<1> QED
  BY <1>1, <1>2, <1>3, <1>4 DEF Next

-----------------------------------------------------------------------------
(* The writer and the ring                                                 *)

\* What a writer relies on.
MayWrite(f) ==
  /\ pc[f] \in WritePc => left[f] >= 1
  /\ pc[f] = "w_queue" \/ (pc[f] = "w_check" /\ enabled) => nr_avail[f] <= UlN - Len(ul)

\* A step that makes the ring no longer and leaves a writer alone leaves it what it relies on.
LEMMA RoomStays ==
  ASSUME UciType, NEW f \in Files, MayWrite(f), pc'[f] = pc[f], left'[f] = left[f],
         nr_avail'[f] = nr_avail[f], enabled' => enabled, Len(ul') \in Nat, Len(ul') <= Len(ul)
  PROVE  MayWrite(f)'
<1>1. nr_avail[f] \in Int /\ UlN \in Int /\ Len(ul) \in Int
  BY UciConstants DEF UciType
<1> QED
  BY <1>1 DEF MayWrite

\* Steps other than write_queue().
NoQueueing ==
  \/ mhi_uci_probe \/ Removal \/ mhi_dl_xfer_cb \/ mhi_ul_xfer_cb \/ UNCHANGED vars
  \/ \E f \in Files : (User(f) \/ Locks(f) \/ InCall(f)) /\ ~write_queue(f)

\* They do not make the ring longer.
LEMMA RingGrows ==
  ASSUME UciType, NoQueueing
  PROVE  /\ ul' \in Seq({"CHAIN", "EOT"}) /\ Len(ul') \in Nat /\ Len(ul') <= Len(ul)
         /\ ul' = ul \/ Len(ul') < Len(ul) \/ Len(ul') = 0
<1>0. ul \in Seq({"CHAIN", "EOT"}) /\ Len(ul) \in Nat
  BY DEF UciType
<1>1. CASE mhi_ul_xfer_cb
  <2>1. PICK k \in 1..Len(ul) : ul' = SubSeq(ul, k + 1, Len(ul))
    BY <1>1 DEF mhi_ul_xfer_cb
  <2>2. Len(ul') = Len(ul) - k /\ ul' \in Seq({"CHAIN", "EOT"})
    BY <1>0, <2>1, Completed
  <2> QED
    BY <1>0, <2>1, <2>2
<1>2. CASE ~mhi_ul_xfer_cb
  <2>1. ul' = ul \/ ul' = <<>>
    <3>1. CASE mhi_uci_probe \/ Removal \/ mhi_dl_xfer_cb \/ UNCHANGED vars
      BY <3>1 DEF mhi_uci_probe, Removal, DriverRemove, RemoveDisable, RemoveWake, RemovePut, RemoveDeinit,
         mhi_reset_chan, mhi_dl_xfer_cb, vars
    <3>2. ASSUME NEW f \in Files, User(f) \/ Locks(f) \/ InCall(f), ~write_queue(f) PROVE ul' = ul \/ ul' = <<>>
      BY <3>2, BufsCases DEF BufsAside, start_chan, start_chan_prepare, mhi_queue_inbound,
         chan_release_unprepare, __mhi_unprepare_channel, mhi_reset_chan, chan_release_free, read_take,
         read_copy
    <3> QED
      BY <1>2, <3>1, <3>2 DEF NoQueueing
  <2>2. CASE ul' = ul
    BY <1>0, <2>2
  <2>3. CASE ul' = <<>>
    <3>1. ul' \in Seq({"CHAIN", "EOT"}) /\ Len(ul') = 0
      BY <2>3
    <3> QED
      BY <1>0, <3>1
  <2> QED
    BY <2>1, <2>2, <2>3
<1> QED
  BY <1>1, <1>2

\* Every step leaves a writer the room it has seen.
LEMMA WriterStep ==
  UciType /\ LockInv /\ ChannelInv /\ WriterInv /\ [Next]_vars => WriterInv'
<1> SUFFICES ASSUME UciType, LockInv, ChannelInv, WriterInv, [Next]_vars PROVE WriterInv'
  OBVIOUS
<1>0. \A g \in Files : MayWrite(g)
  BY DEF WriterInv, MayWrite
<1>s. ASSUME \A g \in Files : MayWrite(g)' PROVE WriterInv'
  BY <1>s DEF WriterInv, MayWrite
<1>t. ul \in Seq({"CHAIN", "EOT"}) /\ Len(ul) \in Nat /\ UlN \in Nat
  BY UciConstants DEF UciType
<1>1. CASE mhi_uci_probe
  <2>1. UNCHANGED pc /\ \A g \in Files : pc[g] = "closed"
    BY <1>1 DEF mhi_uci_probe, ChannelInv
  <2>2. \A g \in Files : MayWrite(g)'
    BY <2>1 DEF MayWrite, WritePc
  <2> QED
    BY <1>s, <2>2
<1>2. CASE Removal \/ mhi_dl_xfer_cb \/ mhi_ul_xfer_cb \/ UNCHANGED vars
  <2>1. UNCHANGED <<pc, left, nr_avail>> /\ (enabled' => enabled)
    BY <1>2 DEF Removal, DriverRemove, RemoveDisable, RemoveWake, RemovePut, RemoveDeinit, mhi_dl_xfer_cb,
       mhi_ul_xfer_cb, vars
  <2>2. Len(ul') \in Nat /\ Len(ul') <= Len(ul)
    BY <1>2, RingGrows DEF NoQueueing
  <2>3. \A g \in Files : MayWrite(g)'
    BY <1>0, <2>1, <2>2, RoomStays
  <2> QED
    BY <1>s, <2>3
<1>3. ASSUME NEW f \in Files, User(f) \/ Locks(f) \/ InCall(f) PROVE WriterInv'
  <2>0. UNCHANGED enabled /\ \A g \in Files \ {f} : pc'[g] = pc[g]
    BY <1>3, OneFile
  <2>l. \A g \in Files \ {f} : left'[g] = left[g] /\ nr_avail'[g] = nr_avail[g]
    <3>1. CASE UNCHANGED <<left, nr_avail>>
      BY <3>1
    <3>2. CASE mhi_uci_write(f) \/ write_signal(f)
      BY <3>2 DEF mhi_uci_write, write_signal, UciType
    <3>3. CASE write_wait(f) \/ write_check(f) \/ write_queue(f)
      BY <3>3 DEF write_wait, write_check, write_queue, write_fails, UciType
    <3>4. CASE ~UNCHANGED <<left, nr_avail>>
      <4>1. mhi_uci_write(f) \/ write_signal(f) \/ write_wait(f) \/ write_check(f) \/ write_queue(f)
        BY <1>3, <3>4 DEF User, mhi_uci_open, mhi_uci_release,
           mhi_uci_read, read_signal, Locks, start_chan, release_lock, write_enter,
           read_enter, InCall, start_chan_prepare, mhi_queue_inbound, chan_release_unprepare,
           chan_release_free, dev_release_put, read_wait, read_take, read_copy
      <4> QED
        BY <3>2, <3>3, <4>1
    <3> QED
      BY <3>1, <3>4
  <2>1. CASE write_queue(f)
    <3>1. \A g \in Files \ {f} : pc'[g] \notin Writing /\ pc'[g] = pc[g] /\ left'[g] = left[g]
      BY <2>0, <2>1, <2>l DEF LockInv, Writing, write_queue
    <3>2. \A g \in Files \ {f} : MayWrite(g)'
      BY <1>0, <3>1 DEF MayWrite, Writing
    <3>3. left[f] >= 1 /\ left[f] \in Nat
      BY <1>0, <2>1 DEF MayWrite, write_queue, WritePc, UciType
    <3>4. MayWrite(f)'
      <4>1. CASE pc'[f] = "open"
        BY <4>1 DEF MayWrite, WritePc
      <4>2. CASE pc'[f] # "open"
        <5>1. pc'[f] = "w_loop" /\ left[f] # 1 /\ left'[f] = left[f] - 1
          BY <2>1, <4>2 DEF write_queue, write_fails, UciType
        <5>2. left'[f] >= 1
          BY <3>3, <5>1
        <5> QED
          BY <5>1, <5>2 DEF MayWrite
      <4> QED
        BY <4>1, <4>2
    <3> QED
      BY <1>s, <3>2, <3>4
  <2>2. CASE ~write_queue(f)
    <3>1. Len(ul') \in Nat /\ Len(ul') <= Len(ul)
      BY <1>3, <2>2, RingGrows DEF NoQueueing
    <3>2. \A g \in Files \ {f} : MayWrite(g)'
      BY <1>0, <2>0, <2>l, <3>1, RoomStays
    <3>3. MayWrite(f)'
      <4>1. CASE mhi_uci_write(f)
        <5>1. pc'[f] = "w_lock" /\ left'[f] >= 1
          BY <4>1, UciConstants DEF mhi_uci_write, UciType
        <5> QED
          BY <5>1 DEF MayWrite
      <4>2. CASE write_enter(f)
        <5>1. pc[f] = "w_lock" /\ pc'[f] = "w_loop" /\ UNCHANGED left
          BY <4>2 DEF write_enter, UciType
        <5> QED
          BY <1>0, <5>1 DEF MayWrite, WritePc
      <4>3. CASE write_wait(f)
        <5>1. /\ pc[f] \in WritePc /\ UNCHANGED <<ul, enabled>>
              /\ \/ pc'[f] = "open"
                 \/ pc'[f] = "w_wait" /\ UNCHANGED left
                 \/ pc'[f] = "w_check" /\ UNCHANGED left /\ (enabled => nr_avail'[f] = UlN - Len(ul))
          BY <4>3 DEF write_wait, write_fails, WritePc, get_free_desc_count, UciType
        <5> QED
          BY <1>0, <1>t, <5>1 DEF MayWrite, WritePc
      <4>4. CASE write_check(f)
        <5>1. /\ pc[f] = "w_check" /\ UNCHANGED <<ul, enabled>>
              /\ \/ pc'[f] = "open"
                 \/ pc'[f] = "w_queue" /\ enabled /\ UNCHANGED <<left, nr_avail>>
          BY <4>4 DEF write_check, write_fails, UciType
        <5> QED
          BY <1>0, <5>1 DEF MayWrite, WritePc
      <4>5. CASE pc'[f] \notin WritePc
        BY <4>5 DEF MayWrite, WritePc
      <4>6. CASE /\ ~mhi_uci_write(f) /\ ~write_enter(f) /\ ~write_wait(f) /\ ~write_check(f)
                 /\ pc'[f] \in WritePc
        <5> USE <4>6 DEF UciType, WritePc
        <5>1. CASE User(f)
          BY <5>1 DEF User, mhi_uci_open, mhi_uci_release, mhi_uci_read, write_signal, read_signal, read_returns
        <5>2. CASE Locks(f)
          BY <5>2 DEF Locks, start_chan, release_lock, read_enter, read_returns
        <5>3. CASE start_chan_prepare(f) \/ mhi_queue_inbound(f) \/ chan_release_unprepare(f)
                   \/ chan_release_free(f) \/ dev_release_put(f)
          BY <5>3 DEF start_chan_prepare, mhi_queue_inbound, chan_release_unprepare, chan_release_free,
             dev_release_put
        <5>4. CASE read_wait(f) \/ read_take(f) \/ read_copy(f)
          BY <5>4 DEF read_wait, read_take, read_copy, read_returns
        <5> QED
          BY <1>3, <2>2, <5>1, <5>2, <5>3, <5>4 DEF InCall
      <4> QED
        BY <4>1, <4>2, <4>3, <4>4, <4>5, <4>6
    <3> QED
      BY <1>s, <3>2, <3>3
  <2> QED
    BY <2>1, <2>2
<1> QED
  BY <1>1, <1>2, <1>3 DEF Next

\* Every step leaves a full ring with the end of a transfer in it.
LEMMA EndsStep ==
  UciType /\ WriterInv /\ FullRingEnds /\ [Next]_vars => FullRingEnds'
<1> SUFFICES ASSUME UciType, WriterInv, FullRingEnds, [Next]_vars PROVE FullRingEnds'
  OBVIOUS
<1>t. /\ ul \in Seq({"CHAIN", "EOT"}) /\ Len(ul) \in Nat /\ Len(ul) <= UlN /\ UlN \in Nat /\ UlN > 0
  BY UciConstants DEF UciType
<1>1. CASE NoQueueing
  <2>1. Len(ul') \in Nat /\ Len(ul') <= Len(ul) /\ (ul' = ul \/ Len(ul') < Len(ul) \/ Len(ul') = 0)
    BY <1>1, RingGrows
  <2>2. CASE ul' = ul
    BY <2>2 DEF FullRingEnds
  <2>3. CASE Len(ul') < Len(ul) \/ Len(ul') = 0
    <3>1. Len(ul') # UlN
      BY <1>t, <2>1, <2>3
    <3> QED
      BY <3>1 DEF FullRingEnds
  <2> QED
    BY <2>1, <2>2, <2>3
<1>2. ASSUME NEW f \in Files, write_queue(f) PROVE FullRingEnds'
  <2>1. CASE UNCHANGED ul
    BY <2>1 DEF FullRingEnds
  <2>2. CASE ~UNCHANGED ul
    <3>1. pc[f] = "w_queue" /\ ul' = Append(ul, WriteFlag(f))
      BY <1>2, <2>2 DEF write_queue, write_fails
    <3>2. nr_avail[f] <= UlN - Len(ul) /\ nr_avail[f] \in Nat
      BY <3>1, UciConstants DEF WriterInv, UciType
    <3>3. WriteFlag(f) \in {"CHAIN", "EOT"} /\ (nr_avail[f] <= 1 => WriteFlag(f) = "EOT")
      BY <3>2 DEF WriteFlag
    <3>4. Len(ul') = Len(ul) + 1 /\ ul'[Len(ul) + 1] = WriteFlag(f)
      BY <1>t, <3>1, <3>3
    <3>5. Len(ul') = UlN => ul'[UlN] = "EOT" /\ UlN \in 1..UlN
      <4> DEFINE n == Len(ul)
                 a == nr_avail[f]
                 w == WriteFlag(f)
                 m == Len(ul')
      <4>1. n \in Nat /\ UlN \in Nat /\ a \in Nat /\ a <= UlN - n /\ m = n + 1
            /\ (a <= 1 => w = "EOT") /\ ul'[n + 1] = w
        BY <1>t, <3>2, <3>3, <3>4
      <4> HIDE DEF n, a, w, m
      <4>2. m = UlN => UlN = n + 1 /\ a <= 1
        BY <4>1
      <4>3. m = UlN => ul'[UlN] = "EOT"
        BY <4>1, <4>2
      <4>4. UlN \in 1..UlN
        BY <1>t
      <4> QED
        BY <4>3, <4>4 DEF m
    <3> QED
      BY <3>5 DEF FullRingEnds
  <2> QED
    BY <2>1, <2>2
<1> QED
  BY <1>1, <1>2 DEF Next, NoQueueing

-----------------------------------------------------------------------------
(* Types                                                                   *)

\* Every step keeps the types of the device and of the threads.
LEMMA ThreadTypes ==
  UciType /\ LockInv /\ [Next]_vars
    => /\ mdev' \in {"none", "bound", "reset", "disabled", "woken", "put", "gone"}
       /\ idr' \in BOOLEAN /\ enabled' \in BOOLEAN
       /\ lock' \in Files \cup {"none", "remove"}
       /\ read_lock' \in Files \cup {"none"} /\ write_lock' \in Files \cup {"none"}
       /\ pc' \in [Files -> Pc]
<1> SUFFICES ASSUME UciType, LockInv, [Next]_vars
             PROVE  /\ mdev' \in {"none", "bound", "reset", "disabled", "woken", "put", "gone"}
                    /\ idr' \in BOOLEAN /\ enabled' \in BOOLEAN
                    /\ lock' \in Files \cup {"none", "remove"}
                    /\ read_lock' \in Files \cup {"none"} /\ write_lock' \in Files \cup {"none"}
                    /\ pc' \in [Files -> Pc]
  OBVIOUS
<1>1. CASE mhi_uci_probe \/ Removal \/ mhi_dl_xfer_cb \/ mhi_ul_xfer_cb \/ UNCHANGED vars
  BY <1>1 DEF mhi_uci_probe, Removal, DriverRemove, RemoveDisable, RemoveWake, RemovePut, RemoveDeinit,
     mhi_dl_xfer_cb, mhi_ul_xfer_cb, vars, UciType
<1>2. ASSUME NEW f \in Files, User(f) \/ Locks(f) \/ InCall(f)
      PROVE  /\ mdev' = mdev /\ idr' = idr /\ enabled' = enabled /\ pc' \in [Files -> Pc]
             /\ lock' \in Files \cup {"none", "remove"}
             /\ read_lock' \in Files \cup {"none"} /\ write_lock' \in Files \cup {"none"}
  <2>1. PICK l \in Pc : FileMoves(f, l)
    BY <1>2, FileSteps
  <2>2. UNCHANGED <<mdev, idr, enabled>> /\ pc' \in [Files -> Pc]
    BY <1>2, OneFile
  <2> QED
    BY <2>1, <2>2 DEF FileMoves, Handed, UciType
<1> QED
  BY <1>1, <1>2 DEF Next, UciType

\* Every step keeps the types of the channel and its buffers.
LEMMA RingTypes ==
  UciType /\ [Next]_vars
    => /\ uchan' \in BOOLEAN /\ stale' \in BOOLEAN /\ ch' \in {"DISABLED", "ENABLED", "SUSPENDED"}
       /\ dl' \in 0..DlN /\ lost' \in Nat /\ late' \in Nat /\ asleep' \subseteq Files
       /\ ul' \in Seq({"CHAIN", "EOT"}) /\ Len(ul') <= UlN
<1> DEFINE Good == /\ uchan' \in BOOLEAN /\ stale' \in BOOLEAN /\ ch' \in {"DISABLED", "ENABLED", "SUSPENDED"}
                   /\ dl' \in 0..DlN /\ lost' \in Nat /\ late' \in Nat /\ asleep' \subseteq Files
                   /\ ul' \in Seq({"CHAIN", "EOT"}) /\ Len(ul') <= UlN
           u == Len(ul)
<1> SUFFICES ASSUME UciType, [Next]_vars PROVE Good
  OBVIOUS
<1>0. /\ dl \in 0..DlN /\ DlN \in Nat /\ DlN > 0 /\ lost \in Nat /\ late \in Nat /\ u \in Nat /\ u <= UlN /\ UlN \in Nat /\ UlN > 0
      /\ ul \in Seq({"CHAIN", "EOT"}) /\ asleep \subseteq Files
      /\ uchan \in BOOLEAN /\ stale \in BOOLEAN /\ enabled \in BOOLEAN /\ ch \in {"DISABLED", "ENABLED", "SUSPENDED"}
  BY UciConstants DEF UciType
<1>u. ul' \in Seq({"CHAIN", "EOT"}) /\ Len(ul') <= UlN
  <2>1. CASE NoQueueing
    <3>1. ul' \in Seq({"CHAIN", "EOT"}) /\ Len(ul') \in Nat /\ Len(ul') <= Len(ul)
      BY <2>1, RingGrows
    <3> QED
      BY <1>0, <3>1
  <2>2. ASSUME NEW f \in Files, write_queue(f) PROVE ul' \in Seq({"CHAIN", "EOT"}) /\ Len(ul') <= UlN
    <3>1. CASE UNCHANGED ul
      BY <1>0, <3>1
    <3>2. CASE ~UNCHANGED ul
      <4>1. ul' = Append(ul, WriteFlag(f)) /\ Len(ul) < UlN /\ WriteFlag(f) \in {"CHAIN", "EOT"}
        BY <2>2, <3>2 DEF write_queue, write_fails, WriteFlag
      <4>2. ul' \in Seq({"CHAIN", "EOT"}) /\ Len(ul') = Len(ul) + 1
        BY <1>0, <4>1
      <4> QED
        BY <1>0, <4>1, <4>2
    <3> QED
      BY <3>1, <3>2
  <2> QED
    BY <2>1, <2>2 DEF Next, NoQueueing
<1>c. uchan' \in BOOLEAN /\ stale' \in BOOLEAN /\ ch' \in {"DISABLED", "ENABLED", "SUSPENDED"}
  <2>1. CASE mhi_uci_probe \/ Removal \/ mhi_dl_xfer_cb \/ mhi_ul_xfer_cb \/ UNCHANGED vars
    BY <1>0, <2>1 DEF mhi_uci_probe, Removal, DriverRemove, RemoveDisable, RemoveWake, RemovePut, RemoveDeinit,
       mhi_dl_xfer_cb, mhi_ul_xfer_cb, vars
  <2>2. ASSUME NEW f \in Files, User(f) \/ Locks(f) \/ InCall(f)
        PROVE  uchan' \in BOOLEAN /\ stale' \in BOOLEAN /\ ch' \in {"DISABLED", "ENABLED", "SUSPENDED"}
    BY <1>0, <2>2 DEF User, mhi_uci_open, mhi_uci_release, mhi_uci_write,
       mhi_uci_read, write_signal, read_signal, Locks, start_chan, release_lock, write_enter,
       read_enter, InCall, start_chan_prepare, mhi_queue_inbound, chan_release_unprepare, Calls,
       __mhi_unprepare_channel, chan_release_free, dev_release_put, write_wait,
       write_check, write_queue, read_wait, read_take, read_copy
  <2> QED
    BY <2>1, <2>2 DEF Next
<1>a. asleep' \subseteq Files
  <2>1. CASE mhi_uci_probe \/ Removal \/ mhi_dl_xfer_cb \/ mhi_ul_xfer_cb \/ UNCHANGED vars
    BY <1>0, <2>1 DEF mhi_uci_probe, Removal, DriverRemove, RemoveDisable, RemoveWake, RemoveWakes, wake_up,
       RemovePut, RemoveDeinit, mhi_dl_xfer_cb, mhi_ul_xfer_cb, vars
  <2>2. ASSUME NEW f \in Files, User(f) \/ Locks(f) \/ InCall(f) PROVE asleep' \subseteq Files
    BY <1>0, <2>2 DEF User, mhi_uci_open, mhi_uci_release, mhi_uci_write,
       mhi_uci_read, write_signal, read_signal, Locks, start_chan, release_lock, write_enter,
       read_enter, InCall, start_chan_prepare, mhi_queue_inbound, chan_release_unprepare,
       chan_release_free, wake_up, dev_release_put, write_wait, write_fails,
       write_check, write_queue, read_wait, read_take, read_copy
  <2> QED
    BY <2>1, <2>2 DEF Next
<1>d. dl' \in 0..DlN /\ lost' \in Nat /\ late' \in Nat
  <2>1. CASE mhi_uci_probe \/ Removal \/ mhi_dl_xfer_cb \/ mhi_ul_xfer_cb \/ UNCHANGED vars
    BY <1>0, <2>1 DEF mhi_uci_probe, Removal, DriverRemove, mhi_reset_chan, RemoveDisable, RemoveWake, RemovePut,
       RemoveDeinit, mhi_dl_xfer_cb, mhi_ul_xfer_cb, vars
  <2>2. ASSUME NEW f \in Files, User(f) \/ Locks(f) \/ InCall(f)
        PROVE dl' \in 0..DlN /\ lost' \in Nat /\ late' \in Nat
    <3>1. CASE BufsAside \/ start_chan(f) \/ chan_release_free(f) \/ write_queue(f) \/ read_take(f)
      BY <1>0, <3>1 DEF BufsAside, start_chan, chan_release_free, write_queue, write_fails, Queues, read_take
    <3>3. CASE mhi_queue_inbound(f)
      BY <1>0, <3>3 DEF mhi_queue_inbound, Queues
    <3>4. CASE chan_release_unprepare(f)
      BY <1>0, <3>4 DEF chan_release_unprepare, __mhi_unprepare_channel, mhi_reset_chan
    <3>5. CASE read_copy(f)
      BY <1>0, <3>5 DEF read_copy, read_recycle, Queues
    <3> QED
      BY <2>2, <3>1, <3>3, <3>4, <3>5, BufsCases
  <2> QED
    BY <2>1, <2>2 DEF Next
<1> QED
  BY <1>u, <1>c, <1>a, <1>d

\* Every step keeps the types of the list that read() serves and of what write() counts.
LEMMA TransferTypes ==
  UciType /\ WriterInv /\ [Next]_vars
    => /\ pend' \in Seq(0..MaxLen) /\ cur' \in {NoBuf} \cup 0..MaxLen
       /\ left' \in [Files -> 0..MaxChunks] /\ nr_avail' \in [Files -> 0..UlN]
<1> DEFINE Lens == 0..MaxLen
<1> SUFFICES ASSUME UciType, WriterInv, [Next]_vars
             PROVE  /\ pend' \in Seq(Lens) /\ cur' \in {NoBuf} \cup Lens
                    /\ left' \in [Files -> 0..MaxChunks] /\ nr_avail' \in [Files -> 0..UlN]
  OBVIOUS
<1>0. pend \in Seq(Lens) /\ cur \in {NoBuf} \cup Lens
  BY DEF UciType
<1>t. left \in [Files -> 0..MaxChunks] /\ nr_avail \in [Files -> 0..UlN]
  BY DEF UciType
<1>r. \A n \in 1..cur : n \in Lens
  BY UciConstants DEF UciType, NoBuf
<1>p. ASSUME UNCHANGED <<pend, cur>> \/ (pend' = <<>> /\ cur' = NoBuf)
             \/ (UNCHANGED cur /\ \E n \in Lens : pend' = Append(pend, n))
             \/ (UNCHANGED pend /\ cur' = NoBuf)
             \/ (UNCHANGED pend /\ cur' \in Lens)
             \/ (pend # <<>> /\ cur' = Head(pend) /\ pend' = Tail(pend))
      PROVE  pend' \in Seq(Lens) /\ cur' \in {NoBuf} \cup Lens
  <2> HIDE DEF Lens
  <2>1. pend # <<>> => Head(pend) \in Lens /\ Tail(pend) \in Seq(Lens)
    BY <1>0
  <2>2. \A n \in Lens : Append(pend, n) \in Seq(Lens)
    BY <1>0
  <2>3. <<>> \in Seq(Lens)
    OBVIOUS
  <2> QED
    BY <1>0, <1>p, <2>1, <2>2, <2>3
<1>1. CASE mhi_uci_probe \/ Removal \/ mhi_dl_xfer_cb \/ mhi_ul_xfer_cb \/ UNCHANGED vars
  <2>1. UNCHANGED <<left, nr_avail, cur>> /\ (UNCHANGED pend \/ \E n \in Lens : pend' = Append(pend, n))
    BY <1>1 DEF mhi_uci_probe, Removal, DriverRemove, RemoveDisable, RemoveWake, RemovePut,
       RemoveDeinit, mhi_dl_xfer_cb, mhi_ul_xfer_cb, vars
  <2> QED
    BY <1>t, <1>p, <2>1
<1>2. ASSUME NEW f \in Files, User(f) \/ Locks(f) \/ InCall(f)
      PROVE  /\ pend' \in Seq(Lens) /\ cur' \in {NoBuf} \cup Lens
             /\ left' \in [Files -> 0..MaxChunks] /\ nr_avail' \in [Files -> 0..UlN]
  <2>1. pend' \in Seq(Lens) /\ cur' \in {NoBuf} \cup Lens
    <3>1. CASE chan_release_free(f)
      BY <1>p, <3>1 DEF chan_release_free
    <3>2. CASE read_take(f)
      BY <1>p, <3>2 DEF read_take
    <3>3. CASE read_copy(f)
      BY <1>p, <1>r, <3>3 DEF read_copy, read_recycle
    <3>4. CASE ~chan_release_free(f) /\ ~read_take(f) /\ ~read_copy(f)
      <4>1. UNCHANGED <<pend, cur>>
        BY <1>2, <3>4, BufsCases DEF BufsAside, start_chan, start_chan_prepare, mhi_queue_inbound,
           chan_release_unprepare, write_queue
      <4> QED
        BY <1>p, <4>1
    <3> QED
      BY <3>1, <3>2, <3>3, <3>4
  <2>2. left' \in [Files -> 0..MaxChunks] /\ nr_avail' \in [Files -> 0..UlN]
    <3>c. MaxChunks \in Nat /\ UlN \in Nat /\ Len(ul) \in Nat /\ Len(ul) <= UlN
          /\ UlN - Len(ul) \in 0..UlN /\ 0 \in 0..UlN /\ 0 \in 0..MaxChunks
          /\ \A n \in 1..MaxChunks : n \in 0..MaxChunks
      BY UciConstants DEF UciType
    <3>1. CASE UNCHANGED <<left, nr_avail>>
      BY <1>t, <3>1
    <3>2. CASE mhi_uci_write(f) \/ write_signal(f)
      BY <1>t, <3>c, <3>2 DEF mhi_uci_write, write_signal
    <3>3. CASE write_wait(f) \/ write_check(f)
      BY <1>t, <3>c, <3>3 DEF write_wait, write_check, write_fails, get_free_desc_count
    <3>4. CASE write_queue(f)
      <4>1. CASE write_fails(f)
        BY <1>t, <3>c, <4>1 DEF write_fails
      <4>2. CASE ~write_fails(f)
        <5>1. left[f] >= 1 /\ left[f] \in 0..MaxChunks
          BY <1>t, <3>4 DEF write_queue, WriterInv, WritePc
        <5>2. left[f] - 1 \in 0..MaxChunks
          BY <3>c, <5>1
        <5>3. left' = [left EXCEPT ![f] = left[f] - 1]
          BY <1>t, <3>4, <4>2 DEF write_queue
        <5>4. nr_avail' = [nr_avail EXCEPT ![f] = IF left[f] = 1 THEN 0 ELSE nr_avail[f]]
          BY <1>t, <3>4, <4>2 DEF write_queue
        <5> QED
          BY <1>t, <3>c, <5>2, <5>3, <5>4
      <4> QED
        BY <4>1, <4>2
    <3>5. CASE ~UNCHANGED <<left, nr_avail>>
      <4>1. mhi_uci_write(f) \/ write_signal(f) \/ write_wait(f) \/ write_check(f) \/ write_queue(f)
        BY <1>2, <3>5 DEF User, mhi_uci_open, mhi_uci_release,
           mhi_uci_read, read_signal, Locks, start_chan, release_lock, write_enter,
           read_enter, InCall, start_chan_prepare, mhi_queue_inbound, chan_release_unprepare,
           chan_release_free, dev_release_put, read_wait, read_take, read_copy
      <4> QED
        BY <3>2, <3>3, <3>4, <4>1
    <3> QED
      BY <3>1, <3>5
  <2> QED
    BY <2>1, <2>2
<1> QED
  BY <1>1, <1>2 DEF Next

-----------------------------------------------------------------------------
(* The theorems                                                            *)

\* BuffersAccounted is the types, the account and what is lost.
LEMMA AccountParts ==
  /\ BuffersAccounted => TypeOK /\ Accounted
  /\ TypeOK /\ Accounted /\ LateInv => BuffersAccounted
BY DEF BuffersAccounted, Accounted, LateInv, TypeOK

\* References and buffers that are accounted for are counted by natural numbers.
LEMMA CountTypes == UciType /\ RefsHeld /\ Accounted /\ LateInv => BuffersAccounted
<1> SUFFICES ASSUME UciType, RefsHeld, Accounted, LateInv PROVE BuffersAccounted
  OBVIOUS
<1>1. uref \in Nat /\ cref \in Nat
  <2> DEFINE h == Cardinality(Holders)
             n == Cardinality(Insiders)
             b == IF mdev \in {"none", "put", "gone"} THEN 0 ELSE 1
  <2>1. h \in Nat /\ n \in Nat /\ b \in Nat /\ uref = h + b /\ cref = n
    BY Counts DEF RefsHeld, Holders, Insiders
  <2> HIDE DEF h, n, b
  <2> QED
    BY <2>1
<1>2. live \in Nat
  <2> DEFINE u == Len(ul)
             p == Len(pend)
             c == IF cur = NoBuf THEN 0 ELSE 1
  <2>1. dl \in Nat /\ lost \in Nat /\ u \in Nat /\ p \in Nat /\ c \in Nat /\ live = dl + u + p + c + lost
    BY UciConstants DEF UciType, Accounted
  <2> HIDE DEF u, p, c
  <2> QED
    BY <2>1
<1> QED
  BY <1>1, <1>2, TypeParts, AccountParts

\* The first state.
LEMMA InitUci == Init => UciInv
<1> SUFFICES ASSUME Init PROVE UciInv
  OBVIOUS
<1> USE DEF Init
<1>1. UciType
  <2>1. pend \in Seq(0..MaxLen) /\ ul \in Seq({"CHAIN", "EOT"}) /\ Len(ul) = 0
    OBVIOUS
  <2>2. DlN \in Nat /\ UlN \in Nat /\ MaxChunks \in Nat /\ 0 \in 0..DlN /\ 0 \in 0..UlN /\ 0 \in 0..MaxChunks
    BY UciConstants
  <2>3. cur \in {NoBuf} \cup 0..MaxLen /\ dl \in 0..DlN /\ Len(ul) <= UlN
    BY <2>1, <2>2
  <2>4. pc \in [Files -> Pc] /\ left \in [Files -> 0..MaxChunks] /\ nr_avail \in [Files -> 0..UlN]
    BY <2>2 DEF Pc
  <2>5. /\ mdev \in {"none", "bound", "reset", "disabled", "woken", "put", "gone"}
        /\ idr \in BOOLEAN /\ enabled \in BOOLEAN /\ uchan \in BOOLEAN /\ stale \in BOOLEAN
        /\ ch \in {"DISABLED", "ENABLED", "SUSPENDED"}
        /\ lock \in Files \cup {"none", "remove"} /\ lost \in Nat /\ late \in Nat /\ asleep \subseteq Files
        /\ read_lock \in Files \cup {"none"} /\ write_lock \in Files \cup {"none"}
    OBVIOUS
  <2> HIDE DEF Init
  <2> QED
    BY <2>1, <2>3, <2>4, <2>5 DEF UciType
<1>2. LockInv
  BY UciConstants DEF LockInv, UdevLocked, Reading, Writing
<1>3. ChannelInv
  BY DEF ChannelInv, Inside, ReadPc, WritePc
<1>4. OwnerInv /\ BufferInv /\ LateInv /\ WriterInv
  BY DEF OwnerInv, BufferInv, LateInv, WriterInv, UdevLocked, WritePc
<1>5. RefsHeld
  <2>1. \A f \in Files : pc[f] = "closed" /\ ~Inside(f)
    BY DEF Inside, ReadPc, WritePc
  <2>2. Cardinality(Holders) = 0 /\ Cardinality(Insiders) = 0
    BY <2>1, Counts
  <2> QED
    BY <2>2 DEF RefsHeld, Holders, Insiders
<1>6. Accounted
  BY DEF Accounted
<1>7. FullRingEnds
  BY UciConstants DEF FullRingEnds
<1> QED
  BY <1>1, <1>2, <1>3, <1>4, <1>5, <1>6, <1>7, CountTypes DEF UciInv

\* Every step keeps the invariant.
LEMMA NextUci == UciInv /\ [Next]_vars => UciInv'
<1> SUFFICES ASSUME UciInv, [Next]_vars PROVE UciInv'
  OBVIOUS
<1>0. /\ UciType /\ Accounted /\ LockInv /\ ChannelInv /\ OwnerInv /\ BufferInv /\ LateInv /\ WriterInv
      /\ RefsHeld /\ FullRingEnds
  BY TypeParts, AccountParts DEF UciInv
<1>1. LockInv' /\ ChannelInv' /\ OwnerInv' /\ RefsHeld'
  BY <1>0, LockStep, ChannelStep, OwnerStep, RefsStep
<1>2. Accounted' /\ BufferInv' /\ LateInv' /\ WriterInv' /\ FullRingEnds'
  BY <1>0, AccountStep, BufferStep, LateStep, WriterStep, EndsStep
<1>3. UciType'
  <2>1. /\ mdev' \in {"none", "bound", "reset", "disabled", "woken", "put", "gone"}
        /\ idr' \in BOOLEAN /\ enabled' \in BOOLEAN
        /\ lock' \in Files \cup {"none", "remove"}
        /\ read_lock' \in Files \cup {"none"} /\ write_lock' \in Files \cup {"none"}
        /\ pc' \in [Files -> Pc]
    BY <1>0, ThreadTypes
  <2>2. /\ uchan' \in BOOLEAN /\ stale' \in BOOLEAN /\ ch' \in {"DISABLED", "ENABLED", "SUSPENDED"}
        /\ dl' \in 0..DlN /\ lost' \in Nat /\ late' \in Nat /\ asleep' \subseteq Files
        /\ ul' \in Seq({"CHAIN", "EOT"}) /\ Len(ul') <= UlN
    BY <1>0, RingTypes
  <2>3. /\ pend' \in Seq(0..MaxLen) /\ cur' \in {NoBuf} \cup 0..MaxLen
        /\ left' \in [Files -> 0..MaxChunks] /\ nr_avail' \in [Files -> 0..UlN]
    BY <1>0, TransferTypes
  <2> QED
    BY <2>1, <2>2, <2>3 DEF UciType, NoBuf, Pc
<1>4. BuffersAccounted'
  BY <1>1, <1>2, <1>3, CountTypes, PTL
<1> QED
  BY <1>1, <1>2, <1>4 DEF UciInv

\* It holds in every state of every behaviour.
LEMMA UciInvariant == Spec => []UciInv
BY InitUci, NextUci, PTL DEF Spec

\* The counts of references are exactly the references held, for any number of files that
\* open, release, read and write while the device is removed: kref_get(), kref_put() and
\* kref_get_unless_zero() are called in pairs on every path, error paths included, and no
\* thread that is inside finds the channel object gone; nor does a transfer callback, unless an
\* open() has started the channel of a disabled device.
THEOREM UciRefsHeld == Spec => []RefsHeld
<1>1. UciInv => RefsHeld
  BY DEF UciInv
<1> QED
  BY <1>1, UciInvariant, PTL

\* Every buffer allocated and not freed is in one place: a ring, dl_pending or cur_buf; or the
\* removal has freed the ring with it, and then it was queued after the removal's drain: no buffer
\* queued before is lost, for rings of any length and any files in the middle of any call.
THEOREM UciBuffersAccounted == Spec => []BuffersAccounted
<1>1. UciInv => BuffersAccounted
  BY DEF UciInv
<1> QED
  BY <1>1, UciInvariant, PTL

\* write() never fills the uplink ring with elements that are all chained, however many
\* writers there are and whatever the device completes meanwhile: the room that write() saw
\* before it copied from user space cannot have shrunk, since only it adds to the ring.
THEOREM UciFullRingEnds == Spec => []FullRingEnds
<1>1. UciInv => FullRingEnds
  BY DEF UciInv
<1> QED
  BY <1>1, UciInvariant, PTL
=============================================================================
