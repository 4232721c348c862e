------------------------------- MODULE MhiUci -------------------------------
(***************************************************************************)
(* The character device of a channel pair (uci.c): open, read, write        *)
(* and release of several files against the transfer callbacks and against  *)
(* the removal of the device by mhi_driver_remove().  poll() only looks.    *)
(*                                                                         *)
(* Every file is used by one thread, with its own program counter.  The     *)
(* channel is what MhiChan shows it to be: a bounded queue whose buffers    *)
(* come back in order, all of them with -ENOTCONN when it is closed or its  *)
(* device removed.  Nothing but mhi_driver_remove() makes it refuse new     *)
(* ones: mhi_queue_buf() looks at the PM state, never at the channel's.     *)
(***************************************************************************)
EXTENDS Integers, Sequences, FiniteSets

CONSTANTS
  Files,      \* files, each used by one thread
  DlN, UlN,   \* buffers the downlink and the uplink ring take
  MaxLen,     \* bound: length of a downlink packet, in units
  MaxChunks   \* bound: mtu-sized pieces of one write

ASSUME UciConstants ==
  /\ DlN \in Nat \ {0} /\ UlN \in Nat \ {0}
  /\ MaxLen \in Nat /\ MaxChunks \in Nat \ {0}
  /\ IsFiniteSet(Files) /\ "none" \notin Files /\ "remove" \notin Files

VARIABLES
  mdev,                   \* the mhi device: progress of probe and removal
  idr, enabled,           \* the minor is in uci_idr; udev->enabled
  uref, lock,             \* udev: references, udev->lock
  uchan, cref,            \* udev->uchan exists; its references
  read_lock, write_lock,  \* the locks of uchan
  pend, cur,              \* uchan->dl_pending; bytes left of cur_buf, or NoBuf
  ch, dl, ul,             \* channel state; buffers in the two rings
  live, lost,             \* buffers allocated and not freed; those of them in a ring that is gone
  late,                   \* history: buffers queued after the removal has drained the channel
  pc, asleep,             \* of each file's thread
  left, nr_avail,         \* write(): pieces left, free elements last seen
  stale                   \* history: open() used the channel of a disabled device

dev   == <<mdev, idr, enabled>>
refs  == <<uref, uchan, cref>>
bufs  == <<pend, cur, dl, ul, live, lost, late>>
tx    == <<left, nr_avail>>
locks == <<lock, read_lock, write_lock>>
vars  == <<dev, refs, bufs, tx, locks, ch, pc, asleep, stale>>

NoBuf == -1

OpenPc  == {"o_lock", "o_prep", "o_fill"}
ClosePc == {"c_lock", "c_unprep", "c_free", "c_put"}
ReadPc  == {"r_lock", "r_wait", "r_take", "r_copy"}
WritePc == {"w_lock", "w_loop", "w_wait", "w_check", "w_queue"}
Pc      == {"closed", "open"} \cup OpenPc \cup ClosePc \cup ReadPc \cup WritePc

Init ==
  /\ mdev = "none" /\ idr = FALSE /\ enabled = FALSE
  /\ uref = 0 /\ uchan = FALSE /\ cref = 0
  /\ lock = "none" /\ read_lock = "none" /\ write_lock = "none"
  /\ pend = <<>> /\ cur = NoBuf /\ dl = 0 /\ ul = <<>>
  /\ live = 0 /\ lost = 0 /\ late = 0
  /\ left = [f \in Files |-> 0] /\ nr_avail = [f \in Files |-> 0]
  /\ ch = "DISABLED" /\ pc = [f \in Files |-> "closed"] /\ asleep = {} /\ stale = FALSE

Goto(f, l) == pc' = [pc EXCEPT ![f] = l]

\* open() uses the channel
Calls == stale' = (stale \/ ~enabled)

\* wake_up(): the sleepers on a wait queue look at their condition again
wake_up(where) == asleep \ {f \in Files : pc[f] \in where}

-----------------------------------------------------------------------------
(* The channel, as MhiChan shows it to its client.                         *)

\* every buffer of both rings comes back with -ENOTCONN; the callbacks free it
mhi_reset_chan ==
  dl' = 0 /\ ul' = <<>> /\ live' = live - dl - Len(ul)

__mhi_unprepare_channel ==
  IF ch = "ENABLED" THEN ch' = "DISABLED" /\ mhi_reset_chan
                    ELSE UNCHANGED <<ch, dl, ul, live>>

get_free_desc_count == UlN - Len(ul)

\* mhi_queue_buf() took n buffers.  It does not look at ch_state: after the drain they stay
\* in the ring, and once the ring is freed they are nowhere
Queues(n) ==
  /\ late' = IF ch = "ENABLED" THEN late ELSE late + n
  /\ lost' = IF ch = "DISABLED" THEN lost + n ELSE lost

-----------------------------------------------------------------------------
(* probe and removal.                                                      *)

mhi_uci_probe ==
  /\ mdev = "none"
  /\ mdev' = "bound" /\ idr' = TRUE /\ enabled' = TRUE /\ uref' = 1
  /\ UNCHANGED <<uchan, cref, bufs, tx, locks, ch, pc, asleep, stale>>

\* mhi_driver_remove() closes the channel to events and drains it ...
DriverRemove ==
  /\ mdev = "bound"
  /\ mdev' = "reset" /\ ch' = "SUSPENDED" /\ mhi_reset_chan
  /\ UNCHANGED <<idr, enabled, refs, pend, cur, lost, late, tx, locks, pc, asleep, stale>>

\* ... calls remove(), which disables the node under udev->lock,
RemoveDisable ==
  /\ mdev = "reset" /\ lock = "none"
  /\ mdev' = "disabled" /\ lock' = "remove" /\ enabled' = FALSE
  /\ UNCHANGED <<idr, refs, bufs, tx, read_lock, write_lock, ch, pc, asleep, stale>>

\* mutant: blocked calls are not told
RemoveWakeNobody == UNCHANGED asleep

RemoveWakes == asleep' = IF uchan THEN wake_up({"r_wait", "w_wait"}) ELSE asleep

RemoveWake ==
  /\ mdev = "disabled" /\ lock = "remove"
  /\ mdev' = "woken" /\ lock' = "none" /\ RemoveWakes
  /\ UNCHANGED <<idr, enabled, refs, bufs, tx, read_lock, write_lock, ch, pc, stale>>

\* frees the minor and drops its reference,
RemovePut ==
  /\ mdev = "woken"
  /\ mdev' = "put" /\ idr' = FALSE /\ uref' = uref - 1
  /\ UNCHANGED <<enabled, uchan, cref, bufs, tx, locks, ch, pc, asleep, stale>>

\* ... and frees the rings of the channel, with what is in them
RemoveDeinit ==
  /\ mdev = "put"
  /\ mdev' = "gone" /\ ch' = "DISABLED"
  /\ dl' = 0 /\ ul' = <<>> /\ lost' = lost + dl + Len(ul)
  /\ UNCHANGED <<idr, enabled, refs, pend, cur, live, late, tx, locks, pc, asleep, stale>>

-----------------------------------------------------------------------------
(* open()                                                                  *)

mhi_uci_open(f) ==
  /\ pc[f] = "closed" /\ idr
  /\ uref' = uref + 1 /\ Goto(f, "o_lock")
  /\ UNCHANGED <<dev, uchan, cref, bufs, tx, locks, ch, asleep, stale>>

\* mutant: a second file shares the channel object without a reference
kref_get_nothing == cref

kref_get_unless_zero == cref + 1

\* the first file of the device makes the channel object; a later one shares it
start_chan(f) ==
  /\ pc[f] = "o_lock" /\ lock = "none"
  /\ \/ /\ uchan /\ cref > 0
        /\ cref' = kref_get_unless_zero /\ Goto(f, "open") /\ UNCHANGED <<uchan, lock>>
     \/ /\ ~(uchan /\ cref > 0)
        /\ uchan' = TRUE /\ lock' = f /\ Goto(f, "o_prep") /\ UNCHANGED cref
     \/ /\ ~(uchan /\ cref > 0)                          \* kzalloc() failed
        /\ Goto(f, "c_put") /\ UNCHANGED <<uchan, cref, lock>>
  /\ UNCHANGED <<dev, uref, bufs, tx, read_lock, write_lock, ch, asleep, stale>>

\* mhi_prepare_for_transfer(): nothing keeps it from a device that is gone
start_chan_prepare(f) ==
  /\ pc[f] = "o_prep" /\ Calls
  /\ \/ ch = "DISABLED" /\ ch' = "ENABLED" /\ Goto(f, "o_fill")
     \/ UNCHANGED ch /\ Goto(f, "c_unprep")
  /\ UNCHANGED <<dev, refs, bufs, tx, locks, asleep>>

\* buffers until the ring is full, or until one cannot be had or queued
mhi_queue_inbound(f) ==
  /\ pc[f] = "o_fill" /\ Calls
  /\ \E n \in 0..(DlN - dl) :
       /\ dl' = dl + n /\ live' = live + n /\ Queues(n)
       /\ \/ n = DlN - dl /\ n > 0
             /\ cref' = 1 /\ lock' = "none" /\ Goto(f, "open")
          \/ (n < DlN - dl \/ n = 0) /\ Goto(f, "c_unprep") /\ UNCHANGED <<cref, lock>>
  /\ UNCHANGED <<dev, uref, uchan, pend, cur, ul, tx, read_lock, write_lock, ch, asleep>>

-----------------------------------------------------------------------------
(* release(), and the end of an open() that failed                         *)

mhi_uci_release(f) ==
  /\ pc[f] = "open" /\ Goto(f, "c_lock")
  /\ UNCHANGED <<dev, refs, bufs, tx, locks, ch, asleep, stale>>

release_lock(f) ==
  /\ pc[f] = "c_lock" /\ lock = "none"
  /\ cref' = cref - 1
  /\ IF cref = 1 THEN lock' = f /\ Goto(f, "c_unprep")
                 ELSE UNCHANGED lock /\ Goto(f, "c_put")
  /\ UNCHANGED <<dev, uref, uchan, bufs, tx, read_lock, write_lock, ch, asleep, stale>>

chan_release_unprepare(f) ==
  /\ pc[f] = "c_unprep" /\ Goto(f, "c_free")
  /\ IF enabled THEN __mhi_unprepare_channel ELSE UNCHANGED <<ch, dl, ul, live>>
  /\ UNCHANGED <<dev, refs, pend, cur, lost, late, tx, locks, asleep, stale>>

\* mutant: a half-read buffer is forgotten
ReleaseFreesPending == live - Len(pend)

ReleaseFrees == live - Len(pend) - (IF cur = NoBuf THEN 0 ELSE 1)

\* mutant: the error path of open() keeps udev->lock
KeepsUdevLock == lock

UnlocksUdev == "none"

chan_release_free(f) ==
  /\ pc[f] = "c_free" /\ read_lock = "none"
  /\ live' = ReleaseFrees /\ pend' = <<>> /\ cur' = NoBuf
  /\ asleep' = wake_up({"r_wait", "w_wait"})
  /\ uchan' = FALSE /\ lock' = UnlocksUdev /\ Goto(f, "c_put")
  /\ UNCHANGED <<dev, uref, cref, dl, ul, lost, late, tx, read_lock, write_lock, ch, stale>>

dev_release_put(f) ==
  /\ pc[f] = "c_put" /\ uref' = uref - 1 /\ Goto(f, "closed")
  /\ UNCHANGED <<dev, uchan, cref, bufs, tx, locks, ch, asleep, stale>>

-----------------------------------------------------------------------------
(* write()                                                                 *)

mhi_uci_write(f) ==
  /\ pc[f] = "open" /\ Goto(f, "w_lock")
  /\ \E n \in 1..MaxChunks : left' = [left EXCEPT ![f] = n]
  /\ UNCHANGED <<dev, refs, bufs, nr_avail, locks, ch, asleep, stale>>

write_enter(f) ==
  /\ pc[f] = "w_lock" /\ write_lock = "none"
  /\ write_lock' = f /\ Goto(f, "w_loop")
  /\ UNCHANGED <<dev, refs, bufs, tx, lock, read_lock, ch, asleep, stale>>

\* err_mtx_unlock: -EAGAIN, -ERESTARTSYS, -ENODEV, -ENOMEM, -EFAULT or the queue's error
write_fails(f) ==
  /\ write_lock' = "none" /\ Goto(f, "open") /\ left' = [left EXCEPT ![f] = 0]
  /\ nr_avail' = [nr_avail EXCEPT ![f] = 0] /\ UNCHANGED <<ul, live, lost, late, asleep>>

\* wait_event_interruptible(ul_wq): also the O_NONBLOCK test in front of it
write_wait(f) ==
  /\ pc[f] = "w_loop" \/ (pc[f] = "w_wait" /\ f \notin asleep)
  /\ \/ /\ ~enabled \/ get_free_desc_count > 0
        /\ nr_avail' = [nr_avail EXCEPT ![f] = IF enabled THEN get_free_desc_count ELSE @]
        /\ Goto(f, "w_check") /\ UNCHANGED <<write_lock, left, ul, live, lost, late, asleep>>
     \/ /\ enabled /\ get_free_desc_count = 0
        /\ Goto(f, "w_wait") /\ asleep' = asleep \cup {f}
        /\ nr_avail' = [nr_avail EXCEPT ![f] = 0]
        /\ UNCHANGED <<write_lock, left, ul, live, lost, late>>
     \/ pc[f] = "w_loop" /\ enabled /\ get_free_desc_count = 0 /\ write_fails(f)
  /\ UNCHANGED <<dev, refs, pend, cur, dl, lock, read_lock, ch, stale>>

write_signal(f) ==
  /\ pc[f] = "w_wait" /\ asleep' = asleep \ {f}
  /\ write_lock' = "none" /\ Goto(f, "open")
  /\ left' = [left EXCEPT ![f] = 0] /\ nr_avail' = [nr_avail EXCEPT ![f] = 0]
  /\ UNCHANGED <<dev, refs, bufs, lock, read_lock, ch, stale>>

write_check(f) ==
  /\ pc[f] = "w_check"
  /\ \/ write_fails(f)                                   \* disabled, no memory, bad address
     \/ /\ enabled /\ Goto(f, "w_queue")
        /\ UNCHANGED <<write_lock, tx, ul, live, lost, late, asleep>>
  /\ UNCHANGED <<dev, refs, pend, cur, dl, lock, read_lock, ch, stale>>

\* mutant: the last free element may stay chained
WriteFlagLate(f) == IF nr_avail[f] > 0 /\ left[f] > 1 THEN "CHAIN" ELSE "EOT"

\* "if ring is full after this force EOT"
WriteFlag(f) == IF nr_avail[f] > 1 /\ left[f] > 1 THEN "CHAIN" ELSE "EOT"

write_queue(f) ==
  /\ pc[f] = "w_queue"
  /\ \/ write_fails(f)                                   \* mhi_queue_buf() failed
     \/ /\ Len(ul) < UlN
        /\ ul' = IF ch = "DISABLED" THEN ul ELSE Append(ul, WriteFlag(f))
        /\ live' = live + 1 /\ Queues(1)
        /\ left' = [left EXCEPT ![f] = @ - 1]
        /\ nr_avail' = [nr_avail EXCEPT ![f] = IF left[f] = 1 THEN 0 ELSE @]
        /\ IF left[f] = 1 THEN write_lock' = "none" /\ Goto(f, "open")
                          ELSE UNCHANGED write_lock /\ Goto(f, "w_loop")
        /\ UNCHANGED asleep
  /\ UNCHANGED <<dev, refs, pend, cur, dl, lock, read_lock, ch, stale>>

-----------------------------------------------------------------------------
(* read()                                                                  *)

mhi_uci_read(f) ==
  /\ pc[f] = "open" /\ Goto(f, "r_lock")
  /\ UNCHANGED <<dev, refs, bufs, tx, locks, ch, asleep, stale>>

read_returns(f) == read_lock' = "none" /\ Goto(f, "open")

read_enter(f) ==
  /\ pc[f] = "r_lock" /\ read_lock = "none"
  /\ \/ /\ cur # NoBuf \/ pend # <<>>
        /\ read_lock' = f /\ Goto(f, "r_take")
     \/ /\ cur = NoBuf /\ pend = <<>>
        /\ read_lock' = f /\ Goto(f, "r_wait")
     \/ cur = NoBuf /\ pend = <<>> /\ read_returns(f)    \* O_NONBLOCK: -EAGAIN
  /\ UNCHANGED <<dev, refs, bufs, tx, lock, write_lock, ch, asleep, stale>>

\* wait_event_interruptible(dl_wq), then -ENODEV or the list
read_wait(f) ==
  /\ pc[f] = "r_wait" /\ f \notin asleep
  /\ \/ /\ enabled /\ pend = <<>>
        /\ asleep' = asleep \cup {f} /\ UNCHANGED <<read_lock, pc>>
     \/ /\ ~enabled /\ read_returns(f) /\ UNCHANGED asleep
     \/ /\ enabled /\ pend # <<>>
        /\ Goto(f, "r_take") /\ UNCHANGED <<read_lock, asleep>>
  /\ UNCHANGED <<dev, refs, bufs, tx, lock, write_lock, ch, stale>>

read_signal(f) ==
  /\ pc[f] = "r_wait" /\ asleep' = asleep \ {f} /\ read_returns(f)
  /\ UNCHANGED <<dev, refs, bufs, tx, lock, write_lock, ch, stale>>

read_take(f) ==
  /\ pc[f] = "r_take"
  /\ IF cur = NoBuf /\ pend = <<>>
     THEN read_returns(f) /\ UNCHANGED <<cur, pend>>     \* -EIO
     ELSE /\ Goto(f, "r_copy") /\ UNCHANGED read_lock
          /\ IF cur # NoBuf THEN UNCHANGED <<cur, pend>>
                             ELSE cur' = Head(pend) /\ pend' = Tail(pend)
  /\ UNCHANGED <<dev, refs, dl, ul, live, lost, late, tx, lock, write_lock, ch, asleep, stale>>

\* a buffer that has been read goes back to the ring, or is freed if it cannot
read_recycle ==
  /\ cur' = NoBuf
  /\ \/ dl < DlN /\ dl' = (IF ch = "DISABLED" THEN dl ELSE dl + 1) /\ Queues(1) /\ UNCHANGED live
     \/ live' = live - 1 /\ UNCHANGED <<dl, lost, late>>

read_copy(f) ==
  /\ pc[f] = "r_copy" /\ read_returns(f)
  /\ \/ /\ \E n \in 1..cur : cur' = n                    \* -EFAULT, or a partial read
        /\ UNCHANGED <<dl, live, lost, late>>
     \/ read_recycle
  /\ UNCHANGED <<dev, refs, pend, ul, tx, lock, write_lock, ch, asleep, stale>>

-----------------------------------------------------------------------------
(* The transfer callbacks, called by the event ring's tasklet.  They follow  *)
(* udev->uchan without a test: behaviours end where it is gone.             *)

mhi_dl_xfer_cb ==
  /\ ch = "ENABLED" /\ uchan /\ dl > 0
  /\ dl' = dl - 1
  /\ \E n \in 0..MaxLen : pend' = Append(pend, n)
  /\ asleep' = wake_up({"r_wait"})
  /\ UNCHANGED <<dev, refs, cur, ul, live, lost, late, tx, locks, ch, pc, stale>>

\* the device completes a transfer: the elements up to one that ends it
mhi_ul_xfer_cb ==
  /\ ch = "ENABLED" /\ uchan
  /\ \E k \in 1..Len(ul) :
       /\ ul[k] = "EOT" /\ \A i \in 1..(k - 1) : ul[i] = "CHAIN"
       /\ ul' = SubSeq(ul, k + 1, Len(ul)) /\ live' = live - k
  /\ asleep' = wake_up({"w_wait"})
  /\ UNCHANGED <<dev, refs, pend, cur, dl, lost, late, tx, locks, ch, pc, stale>>

-----------------------------------------------------------------------------
Removal == DriverRemove \/ RemoveDisable \/ RemoveWake \/ RemovePut \/ RemoveDeinit

\* what a thread inside the driver does next
InCall(f) ==
  \/ start_chan_prepare(f) \/ mhi_queue_inbound(f)
  \/ chan_release_unprepare(f) \/ chan_release_free(f) \/ dev_release_put(f)
  \/ write_wait(f) \/ write_check(f) \/ write_queue(f)
  \/ read_wait(f) \/ read_take(f) \/ read_copy(f)

\* the mutexes
Locks(f) == start_chan(f) \/ release_lock(f) \/ write_enter(f) \/ read_enter(f)

\* what the program that has the file open asks for
User(f) ==
  \/ mhi_uci_open(f) \/ mhi_uci_release(f)
  \/ mhi_uci_write(f) \/ mhi_uci_read(f)
  \/ write_signal(f) \/ read_signal(f)

Next ==
  \/ mhi_uci_probe \/ Removal
  \/ \E f \in Files : User(f) \/ Locks(f) \/ InCall(f)
  \/ mhi_dl_xfer_cb \/ mhi_ul_xfer_cb

Spec == Init /\ [][Next]_vars

\* A removal once begun and a thread inside the driver go on; mutexes are handed
\* over in turn.  Nothing is asked of the device or of user space.
FairSpec ==
  /\ Spec
  /\ SF_vars(RemoveDisable)
  /\ WF_vars(RemoveWake \/ RemovePut \/ RemoveDeinit)
  /\ \A f \in Files : WF_vars(InCall(f)) /\ SF_vars(Locks(f))

-----------------------------------------------------------------------------
(* Properties                                                              *)

\* Every variable has its type: reference counts and buffer counts never go below zero.
TypeOK ==
  /\ mdev \in {"none", "bound", "reset", "disabled", "woken", "put", "gone"}
  /\ idr \in BOOLEAN /\ enabled \in BOOLEAN /\ uchan \in BOOLEAN
  /\ uref \in Nat /\ cref \in Nat /\ dl \in 0..DlN /\ live \in Nat
  /\ lost \in Nat /\ late \in Nat
  /\ lock \in Files \cup {"none", "remove"}
  /\ read_lock \in Files \cup {"none"} /\ write_lock \in Files \cup {"none"}
  /\ pend \in Seq(0..MaxLen) /\ cur \in {NoBuf} \cup 0..MaxLen
  /\ ch \in {"DISABLED", "ENABLED", "SUSPENDED"}
  /\ ul \in Seq({"CHAIN", "EOT"}) /\ Len(ul) <= UlN
  /\ pc \in [Files -> Pc] /\ asleep \subseteq Files
  /\ left \in [Files -> 0..MaxChunks] /\ nr_avail \in [Files -> 0..UlN]
  /\ stale \in BOOLEAN

Inside(f)  == pc[f] \in {"open", "c_lock"} \cup ReadPc \cup WritePc
HasUdev(f) == pc[f] # "closed"

\* The two reference counts are exactly the references held: udev's by the driver
\* binding and by every file from its lookup to its last put, uchan's by the files
\* that are open.  So no thread is left with a channel object that another one's
\* release() or the removal has freed (kref_get(), kref_put(), kref_get_unless_zero()).
\* A transfer callback, which has no reference, finds the channel object too, as long as no
\* open() started the channel of a disabled device: release() stops the channel before it
\* frees the object, or the removal has.
RefsHeld ==
  /\ uref = Cardinality({f \in Files : HasUdev(f)})
              + (IF mdev \in {"none", "put", "gone"} THEN 0 ELSE 1)
  /\ cref = Cardinality({f \in Files : Inside(f)})
  /\ cref > 0 => uchan
  /\ ch = "ENABLED" /\ ~stale => uchan

\* Every count is in its range, and every buffer allocated and not freed is in a ring, on
\* dl_pending or in cur_buf, or it went with a ring that mhi_driver_remove() freed: read(),
\* release() with data unread, write() and the drain of a removal in the middle of either
\* lose none.  mhi_queue_buf() does not look at ch_state, so what a call that was under way
\* queues after the drain is lost when the rings are freed (mhi_deinit_chan_ctxt()): exactly
\* those buffers, none queued before and none before the rings are gone.
BuffersAccounted ==
  /\ TypeOK
  /\ live = dl + Len(ul) + Len(pend) + (IF cur = NoBuf THEN 0 ELSE 1) + lost
  /\ ~uchan => pend = <<>> /\ cur = NoBuf
  /\ lost = IF mdev = "gone" THEN late ELSE 0

\* "if ring is full after this force EOT": a full uplink ring always holds the end of a
\* transfer, so that the device can complete it and the writer that waits for room is woken.
FullRingEnds == Len(ul) = UlN => \E i \in 1..UlN : ul[i] = "EOT"

\* The removal ends, whatever the files' threads are doing when it asks for udev->lock.
RemoveEnds == mdev = "reset" ~> mdev = "gone"

Blocked(f) == pc[f] \in {"r_wait", "w_wait"}
MayGo(f)   == ~enabled \/ (pc[f] = "r_wait" /\ pend # <<>>) \/ (pc[f] = "w_wait" /\ Len(ul) < UlN)

\* "return error for any blocked read or write": once the node is disabled a blocked call
\* returns; and no wake-up is lost before: a reader with data in the list and a writer with
\* room in the ring do not sleep for ever.
BlockedCallsReturn == \A f \in Files : (Blocked(f) /\ MayGo(f)) ~> ~Blocked(f)

\* "delete the node to prevent new opens": no open() has started the channel of a device that
\* the removal has disabled.
NoOpenAfterRemove == ~enabled => ch # "ENABLED"
=============================================================================
