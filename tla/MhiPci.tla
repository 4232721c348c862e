------------------------------- MODULE MhiPci -------------------------------
(***************************************************************************)
(* The PCI controller driver (pci_generic.c): probe with its error paths,    *)
(* remove, and the recovery work that MHI_CB_FATAL_ERROR schedules.  The     *)
(* work item and s_mhi_cntrl are one for all devices, and remove() does not  *)
(* wait for the work.                                                       *)
(*                                                                         *)
(* A thread is the device's own (probe, remove) or the work; what it calls   *)
(* in the core is reduced to what it takes and gives back: the controller,   *)
(* its registration, the device context (pre_init when prepare() owns it),   *)
(* the interrupts, and the PM state.  Calls the core cannot survive          *)
(* are recorded in fault, and behaviours end there.                         *)
(***************************************************************************)
EXTENDS Integers, FiniteSets

CONSTANT Devs     \* PCI devices the driver is bound to

ASSUME PciConstants == "work" \notin Devs /\ "none" \notin Devs

VARIABLES
  pc,                  \* of each device's thread and of the work
  held,                \* of each device: what has been taken and not given back
  pm_mutex,            \* of each controller: its holder
  s_mhi_cntrl, queued, \* the global pointer; the work is pending
  mhi_cntrl,           \* the work's copy of the pointer
  fault,               \* history: calls that met a state they do not expect
  fatal,               \* history: devices whose MHI_CB_FATAL_ERROR waits for the work
  over,                \* history: devices that lost s_mhi_cntrl while waiting
  met,                 \* history: devices whose probe or remove met the work
  refused              \* history: devices the work could not power up again

vars == <<pc, held, pm_mutex, s_mhi_cntrl, queued, mhi_cntrl, fault, fatal, over, met, refused>>

Threads == Devs \cup {"work"}
Res     == {"cntrl", "reg", "pre_init", "ctxt", "irqs", "up"}
Pcs     == {"none", "gone", "idle", "claim", "reg", "prep", "up_irq", "up_por", "up_end", "bound",
            "dn_flush", "dn_irq", "unprep", "unreg", "free"}

Init ==
  /\ pc = [t \in Threads |-> IF t = "work" THEN "idle" ELSE "none"] /\ held = [d \in Devs |-> {}]
  /\ pm_mutex = [d \in Devs |-> "none"]
  /\ s_mhi_cntrl = "none" /\ queued = FALSE /\ mhi_cntrl = "none"
  /\ fault = {} /\ fatal = {} /\ over = {} /\ met = {} /\ refused = {}

Dev(t) == IF t = "work" THEN mhi_cntrl ELSE t

\* t goes on to l, its device then holds h, and f went wrong
Step(t, l, h, f) ==
  /\ pc' = [pc EXCEPT ![t] = l] /\ held' = [held EXCEPT ![Dev(t)] = h]
  /\ fault' = {Dev(t)} \X (f \cup (IF "cntrl" \in held[Dev(t)] THEN {} ELSE {"freed"}))
  /\ UNCHANGED <<s_mhi_cntrl, queued, mhi_cntrl, fatal, over>>

Needs(t, r) == IF r \in held[Dev(t)] THEN {} ELSE {r}
Wants(t, r) == IF r \in held[Dev(t)] THEN {"twice"} ELSE {}

Unlocked(t) == pm_mutex[Dev(t)] = "none"
Keeps       == UNCHANGED <<pm_mutex, refused>>

-----------------------------------------------------------------------------
(* The core's side of a controller                                         *)

\* the context is initialised under pm_mutex, which the step takes and gives back
mhi_prepare_for_power_up(t) ==
  /\ pc[t] = "prep" /\ Unlocked(t) /\ UNCHANGED pm_mutex
  /\ \/ /\ Step(t, "up_irq", held[Dev(t)] \cup {"ctxt", "pre_init"}, Wants(t, "ctxt"))
        /\ UNCHANGED refused
     \/ /\ Step(t, IF t = "work" THEN "idle" ELSE "unreg", held[Dev(t)], {})
        /\ refused' = IF t = "work" THEN refused \cup {Dev(t)} ELSE refused

\* mutant: an error path returns without mutex_unlock()
StillLocked(t) == t

Released(t) == "none"

\* mutant: the context is freed whoever owns it
WithoutCtxtEver(h) == h \ {"ctxt"}

\* what error_setup_irq leaves: the context is freed unless prepare() owns it
WithoutCtxt(h) == IF "pre_init" \in h THEN h ELSE h \ {"ctxt"}

UpFails(t, h) ==
  /\ Step(t, IF t = "work" THEN "idle" ELSE "unprep", WithoutCtxt(h), {})
  /\ pm_mutex' = [pm_mutex EXCEPT ![Dev(t)] = Released(t)]
  /\ refused' = IF t = "work" THEN refused \cup {Dev(t)} ELSE refused

\* mhi_init_irq_setup()
power_up_irq(t) ==
  /\ pc[t] = "up_irq" /\ Unlocked(t)
  /\ \/ /\ Step(t, "up_por", (held[Dev(t)] \ {"up"}) \cup {"ctxt", "irqs"}, Wants(t, "irqs"))
        /\ pm_mutex' = [pm_mutex EXCEPT ![Dev(t)] = t] /\ UNCHANGED refused
     \/ UpFails(t, held[Dev(t)] \ {"up"})

\* pm_state becomes POR: interrupts are now looked at
power_up_por(t) ==
  /\ pc[t] = "up_por" /\ Keeps
  /\ Step(t, "up_end", held[Dev(t)] \cup {"up"}, {})

\* mutant: the interrupts stay requested
UpFailsFree(t) == held[Dev(t)]

UpFailsFrees(t) == held[Dev(t)] \ {"irqs"}

\* the execution environment and the reset decide; the worker does the rest
power_up_end(t) ==
  /\ pc[t] = "up_end"
  /\ \/ /\ Step(t, IF t = "work" THEN "idle" ELSE "bound", held[Dev(t)], {})
        /\ pm_mutex' = [pm_mutex EXCEPT ![Dev(t)] = "none"] /\ UNCHANGED refused
     \/ UpFails(t, UpFailsFrees(t))

\* the DISABLE transition takes pm_mutex in the worker; flush_work() waits for it
power_down_flush(t) ==
  /\ pc[t] = "dn_flush" /\ Unlocked(t) /\ Keeps
  /\ Step(t, "dn_irq", held[Dev(t)] \ {"up"}, {})

power_down_free(t) ==
  /\ pc[t] = "dn_irq" /\ Keeps
  /\ Step(t, "unprep", WithoutCtxt(held[Dev(t)] \ {"irqs"}),
          Needs(t, "irqs") \cup (IF "pre_init" \in held[Dev(t)] THEN {} ELSE Needs(t, "ctxt")))

mhi_unprepare_after_power_down(t) ==
  /\ pc[t] = "unprep" /\ Keeps
  /\ Step(t, IF t = "work" THEN "prep" ELSE "unreg", held[Dev(t)] \ {"ctxt", "pre_init"}, Needs(t, "ctxt"))

-----------------------------------------------------------------------------
(* probe and remove of a device; one that is plugged in again is another one *)

mhi_pci_probe(d) ==
  /\ pc[d] = "none" /\ pc' = [pc EXCEPT ![d] = "claim"]
  /\ held' = [held EXCEPT ![d] = {"cntrl"}]
  /\ Keeps /\ UNCHANGED <<s_mhi_cntrl, queued, mhi_cntrl, fault, fatal, over>>

\* mhi_pci_claim() and mhi_pci_get_irqs(): everything they take is managed
probe_claim(d) ==
  /\ pc[d] = "claim" /\ Keeps
  /\ \E l \in {"reg", "free"} : Step(d, l, held[d], {})

probe_register(d) ==
  /\ pc[d] = "reg" /\ Keeps
  /\ \/ Step(d, "prep", held[d] \cup {"reg"}, {})
     \/ Step(d, "free", held[d], {})

mhi_pci_remove(d) ==
  /\ pc[d] = "bound" /\ Keeps /\ Step(d, "dn_flush", held[d], {})

mhi_unregister_controller(d) ==
  /\ pc[d] = "unreg" /\ Keeps /\ Step(d, "free", held[d] \ {"reg"}, {})

\* the PM state is part of what is freed
mhi_free_controller(d) ==
  /\ pc[d] = "free" /\ Keeps /\ Step(d, "gone", held[d] \ {"cntrl", "up"}, {})

-----------------------------------------------------------------------------
(* recovery                                                                *)

\* called by the interrupt thread, which free_irq() waits for
mhi_pci_status_cb(d) ==
  /\ {"irqs", "up"} \subseteq held[d]
  /\ s_mhi_cntrl' = d /\ queued' = TRUE
  /\ fatal' = fatal \cup {d} /\ over' = (over \cup (fatal \ {d})) \ {d}
  /\ Keeps /\ UNCHANGED <<pc, held, mhi_cntrl, fault>>

mhi_pci_status_cb_work_func ==
  /\ pc["work"] = "idle" /\ queued
  /\ queued' = FALSE /\ mhi_cntrl' = s_mhi_cntrl
  /\ pc' = [pc EXCEPT !["work"] = "dn_flush"]
  /\ fatal' = fatal \ {s_mhi_cntrl} /\ over' = over \ {s_mhi_cntrl}
  /\ Keeps /\ UNCHANGED <<held, s_mhi_cntrl, fault>>

-----------------------------------------------------------------------------
Call(t) ==
  \/ mhi_prepare_for_power_up(t) \/ power_up_irq(t) \/ power_up_por(t) \/ power_up_end(t)
  \/ power_down_flush(t) \/ power_down_free(t) \/ mhi_unprepare_after_power_down(t)

Pci(d) ==
  \/ probe_claim(d) \/ probe_register(d)
  \/ mhi_unregister_controller(d) \/ mhi_free_controller(d)

\* probe or remove of d runs and the work is about d or about to be; at the end of
\* mhi_async_power_up() probe holds pm_mutex, and a work that came early only waits for it
Meets(d) ==
  /\ pc[d] \notin {"none", "up_end", "bound"}
  /\ (queued /\ s_mhi_cntrl = d) \/ (pc["work"] # "idle" /\ mhi_cntrl = d)

Goes ==
  \/ \E t \in Threads : Call(t)
  \/ \E d \in Devs : mhi_pci_probe(d) \/ Pci(d) \/ mhi_pci_remove(d) \/ mhi_pci_status_cb(d)
  \/ mhi_pci_status_cb_work_func

\* history variables follow every step; nothing happens after a fault
Does(A) == fault = {} /\ A /\ met' = met \cup {d \in Devs : Meets(d)'}

Next == Does(Goes)

Spec == Init /\ [][Next]_vars

\* Threads in the driver go on; nothing is asked of the device or of who probes and removes.
FairSpec ==
  /\ Spec
  /\ \A t \in Threads : WF_vars(Does(Call(t)))
  /\ \A d \in Devs : WF_vars(Does(Pci(d)))
  /\ WF_vars(Does(mhi_pci_status_cb_work_func))

-----------------------------------------------------------------------------
(* Properties                                                              *)

\* Every variable has its type.
TypeOK ==
  /\ pc \in [Threads -> Pcs] /\ held \in [Devs -> SUBSET Res]
  /\ pm_mutex \in [Devs -> Threads \cup {"none"}]
  /\ s_mhi_cntrl \in Devs \cup {"none"} /\ mhi_cntrl \in Devs \cup {"none"} /\ queued \in BOOLEAN
  /\ fault \subseteq Devs \X (Res \cup {"freed", "twice"})
  /\ pc["work"] # "idle" => mhi_cntrl \in Devs
  /\ fatal \subseteq Devs /\ over \subseteq fatal /\ met \subseteq Devs /\ refused \subseteq Devs

\* The state is well formed; every power-down, unprepare and free meets what an earlier
\* call took, and nothing is taken twice, in any number of recoveries.  A controller is used after it was freed, or taken
\* twice, only if its probe or remove met the work; interrupts or a context that are not
\* there are freed only then or after a recovery that could not power the device up again.
CallsBalanced ==
  /\ TypeOK
  /\ \A d \in Devs :
       /\ <<d, "freed">> \in fault \/ <<d, "twice">> \in fault => d \in met
       /\ <<d, "irqs">> \in fault \/ <<d, "ctxt">> \in fault => d \in met \cup refused

\* A probe that failed at any step and a remove leave nothing behind, unless they met the work.
NothingHeld == \A d \in Devs : pc[d] = "gone" /\ fault = {} => held[d] = {} \/ d \in met

\* What a controller holds that is bound and not being recovered, whatever errors and
\* recoveries, of this and of other devices, came before.  It holds all that probe left it
\* with if no recovery was refused.  A recovery that was refused is only logged:
\* the device stays bound, without interrupts, so that no further error can start a
\* recovery and the next power-down frees what is not there; it has lost its context when
\* mhi_prepare_for_power_up() refused, and kept it when mhi_async_power_up() did.
RecoveryRestores ==
  \A d \in Devs :
    pc[d] = "bound" /\ fault = {} /\ (pc["work"] = "idle" \/ mhi_cntrl # d) =>
      IF d \in refused
        THEN held[d] \ {"up"} \in {{"cntrl", "reg"}, {"cntrl", "reg", "pre_init", "ctxt"}}
        ELSE held[d] = Res

\* A fatal error leads to a recovery of that device, unless another device's error took the
\* pointer in the meantime; and a recovery ends, powered up, refused or in a fault, even when
\* it has to wait for a probe that holds pm_mutex.
RecoveryEnds ==
  /\ \A d \in Devs : d \in fatal ~> d \notin fatal \/ d \in over \/ fault # {}
  /\ pc["work"] = "dn_flush" ~> pc["work"] = "idle" \/ fault # {}
=============================================================================
