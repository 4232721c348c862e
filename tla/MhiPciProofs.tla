---------------------------- MODULE MhiPciProofs ----------------------------
(***************************************************************************)
(* What probe, remove and the recovery work hold of a controller, for any   *)
(* number of devices and of recoveries.                                     *)
(***************************************************************************)
EXTENDS MhiPci, TLAPS

\* the work recovers d; it is about to
Works(d) == pc["work"] # "idle" /\ mhi_cntrl = d
Due(d)   == queued /\ s_mhi_cntrl = d

\* probe has not left the critical section of mhi_async_power_up()
Early == {"none", "claim", "reg", "prep", "up_irq", "up_por"}

\* where the one thread stands that is using d's controller
Phase(d) == IF Works(d) /\ pc[d] # "up_end" THEN pc["work"] ELSE pc[d]

Prepared == {"cntrl", "reg", "pre_init", "ctxt"}

\* what a controller whose thread stands at p holds; the PM state may be set or not where a
\* power-up that failed leads
HeldAt(p, h) ==
  /\ p = "none" => h = {}
  /\ p \in {"claim", "reg"} => h = {"cntrl"}
  /\ p \in {"prep", "unreg"} => h \ {"up"} = {"cntrl", "reg"}
  /\ p \in {"up_irq", "unprep"} => h \ {"up"} = Prepared
  /\ p = "up_por" => h = Prepared \cup {"irqs"}
  /\ p = "dn_irq" => h = Prepared \cup {"irqs"}
  /\ p \in {"up_end", "bound", "dn_flush"} => h = Res
  /\ p = "free" => h \ {"up"} = {"cntrl"}
  /\ p = "gone" => h = {}

\* what a refused recovery leaves
Left(h) == h \ {"up"} \in {{"cntrl", "reg"}, Prepared}

\* a device whose power-up is not under way is unknown to the work; one whose probe is about
\* to end makes the work wait for pm_mutex; and until remove() nothing has met
Fresh(d) ==
  /\ pc[d] \in Early => ~Works(d) /\ ~Due(d)
  /\ pc[d] \in {"up_por", "up_end"} => pm_mutex[d] = d
  /\ pc[d] = "up_end" /\ Works(d) => pc["work"] = "dn_flush"
  /\ pc[d] \in Early \cup {"up_end"} => d \notin refused
  /\ pc[d] \in Early \cup {"up_end", "bound"} => d \notin met

\* the history variable met says what it is meant to
Apart(d) == d \notin met => ~Meets(d)

Holds(d) == d \notin met \cup refused => HeldAt(Phase(d), held[d])

\* a recovery that failed leaves a controller without interrupts, which the next
\* power-down finds out
Crippled(d) ==
  d \in refused /\ d \notin met =>
    /\ Left(held[d])
    /\ Phase(d) \in {"bound", "dn_flush", "dn_irq"}

Good(d) == Fresh(d) /\ Apart(d) /\ Holds(d) /\ Crippled(d)

PciInv ==
  /\ CallsBalanced
  /\ queued => s_mhi_cntrl \in Devs
  /\ fault = {} => \A d \in Devs : Good(d)

-----------------------------------------------------------------------------
(* Types                                                                   *)

PciType == TypeOK /\ (queued => s_mhi_cntrl \in Devs)

\* The types hold initially.
LEMMA InitType == Init => PciType
BY PciConstants DEF Init, PciType, TypeOK, Threads, Pcs

\* The thread that makes a call does so for a device.
LEMMA DevType ==
  ASSUME TypeOK, NEW t \in Threads, pc[t] # "idle"
  PROVE  Dev(t) \in Devs
BY DEF TypeOK, Threads, Dev

\* A Step of a thread to another place keeps the types.
LEMMA StepType ==
  ASSUME PciType, NEW t \in Threads, Dev(t) \in Devs, NEW l \in Pcs,
         NEW h \in SUBSET Res, NEW f \in SUBSET (Res \cup {"twice"}),
         Step(t, l, h, f), l = "idle" => t = "work",
         pm_mutex' \in [Devs -> Threads \cup {"none"}], refused' \subseteq Devs,
         met' \subseteq Devs
  PROVE  PciType'
<1>1. pc' \in [Threads -> Pcs] /\ held' \in [Devs -> SUBSET Res]
  BY DEF PciType, TypeOK, Step
<1>2. fault' \subseteq Devs \X (Res \cup {"freed", "twice"})
  BY DEF Step
<1>3. UNCHANGED <<s_mhi_cntrl, queued, mhi_cntrl, fatal, over>>
  BY DEF Step
<1>4. pc'["work"] # "idle" => mhi_cntrl \in Devs
  <2>1. CASE t = "work"
    BY <2>1 DEF Dev
  <2>2. CASE t # "work"
    BY <2>2 DEF PciType, TypeOK, Step, Threads
  <2> QED BY <2>1, <2>2
<1> QED BY <1>1, <1>2, <1>3, <1>4 DEF PciType, TypeOK

-----------------------------------------------------------------------------
(* A Step of one thread                                                    *)

\* history variables of a step of the system
Watched == met' = met \cup {d \in Devs : Meets(d)'}

\* Before a Step of t, unless probe or remove and the work have met, t is the one thread
\* that uses the controller.
LEMMA OneThread ==
  ASSUME PciInv, fault = {}, Watched, NEW t \in Threads, NEW d \in Devs, d = Dev(t),
         pc[t] \notin {"idle", "none"}, pc[t] = "dn_flush" => Unlocked(t),
         NEW l, l # "none", l = "bound" => pc[t] = "up_end", l = "up_end" => pc[t] = "up_por",
         l = "idle" => t = "work",
         NEW h, NEW f, Step(t, l, h, f), d \notin met'
  PROVE  /\ d \notin met
         /\ Phase(d) = pc[t] /\ pc'[d] # "none"
         /\ \/ Phase(d)' = IF l = "idle" THEN "bound" ELSE l
            \/ l = "bound" /\ Phase(d)' = "dn_flush"
<1>1. d \in Devs /\ d # "work" /\ d \notin met
  BY DevType, PciConstants DEF PciInv, CallsBalanced, Watched
<1>2. Good(d) /\ ~Meets(d) /\ ~Meets(d)'
  BY <1>1 DEF PciInv, Good, Apart, Watched
<1>3. UNCHANGED <<s_mhi_cntrl, queued, mhi_cntrl>> /\ pc \in [Threads -> Pcs]
      /\ pc' = [pc EXCEPT ![t] = l]
  BY DEF PciInv, CallsBalanced, TypeOK, Step
<1>4. CASE t = "work"
  <2>1. Works(d) /\ d = mhi_cntrl
    BY <1>4 DEF Works, Dev
  <2>2. pc[d] = "bound"
    <3>1. pc[d] # "up_end"
      BY <1>1, <1>2, <1>4, <2>1, PciConstants DEF Good, Fresh, Unlocked, Dev, Works
    <3> QED BY <1>2, <2>1, <3>1 DEF Good, Fresh, Meets, Works, Early
  <2>3. pc'["work"] = l /\ pc'[d] = pc[d]
    BY <1>1, <1>3, <1>4 DEF Threads
  <2> QED BY <1>1, <1>3, <1>4, <2>1, <2>2, <2>3 DEF Phase, Works
<1>5. CASE t # "work"
  <2>1. d = t /\ pc'[d] = l /\ pc'["work"] = pc["work"]
    BY <1>3, <1>5 DEF Dev, Threads
  <2>2. CASE l = "bound"
    <3>1. pc[d] = "up_end" /\ (Works(d)' => pc'["work"] = "dn_flush")
      BY <1>2, <1>3, <2>1, <2>2 DEF Good, Fresh, Works
    <3> QED BY <1>1, <1>5, <2>1, <2>2, <3>1 DEF Phase
  <2>3. CASE l # "bound"
    <3>1. ~Works(d)' /\ (Works(d) => pc[d] = "up_end")
      <4>1. CASE l = "up_end"
        BY <1>2, <1>3, <2>1, <4>1 DEF Good, Fresh, Works, Early
      <4>2. CASE l # "up_end"
        BY <1>2, <1>3, <2>1, <2>3, <4>2 DEF Works, Meets
      <4> QED BY <4>1, <4>2
    <3> QED BY <1>1, <1>5, <2>1, <2>3, <3>1 DEF Phase
  <2> QED BY <2>2, <2>3
<1> QED BY <1>4, <1>5

\* A Step leaves the controllers of the other devices alone.
LEMMA OtherDevices ==
  ASSUME PciInv, fault = {}, Watched, NEW t \in Threads, NEW d \in Devs, d = Dev(t), pc[t] \notin {"idle", "none"},
         NEW l, NEW h, NEW f, Step(t, l, h, f),
         refused' \in {refused, refused \cup {d}},
         NEW e \in Devs, e # d, pm_mutex'[e] = pm_mutex[e]
  PROVE  Good(e)'
<1>1. Good(e) /\ e # "work"
  BY DevType, PciConstants DEF PciInv, CallsBalanced
<1>2. /\ UNCHANGED <<s_mhi_cntrl, queued, mhi_cntrl>>
      /\ pc' = [pc EXCEPT ![t] = l] /\ held' = [held EXCEPT ![d] = h]
      /\ pc \in [Threads -> Pcs] /\ held \in [Devs -> SUBSET Res]
  BY DEF PciInv, CallsBalanced, TypeOK, Step
<1>3. t # e /\ pc'[e] = pc[e] /\ held'[e] = held[e]
  BY <1>1, <1>2 DEF Dev, Threads
<1>4. /\ Works(e)' = Works(e) /\ Due(e)' = Due(e) /\ Phase(e)' = Phase(e)
      /\ Works(e) => pc'["work"] = pc["work"]
  <2>1. CASE t = "work"
    BY <1>2, <1>3, <2>1 DEF Works, Due, Phase, Dev
  <2>2. CASE t # "work"
    BY <1>2, <1>3, <2>2 DEF Works, Due, Phase, Threads
  <2> QED BY <2>1, <2>2
<1>5. Meets(e)' = Meets(e)
  BY <1>3, <1>4 DEF Meets, Works, Due
<1>6. e \in met' <=> e \in met
  BY <1>1, <1>5 DEF Watched, Good, Apart
<1>7. e \in refused' <=> e \in refused
  OBVIOUS
<1> QED BY <1>1, <1>3, <1>4, <1>5, <1>6, <1>7 DEF Good, Fresh, Apart, Holds, Crippled

\* a Step of t, on d, that goes on to l; it finds what it needs and leaves what l asks for
Moves(t, d, l, h, f) ==
  /\ Step(t, l, h, f) /\ l \in Pcs \ {"none"} /\ h \in SUBSET Res
  /\ f \in SUBSET (Res \cup {"twice"})
  /\ pc[t] = "dn_flush" => Unlocked(t)
  /\ l = "bound" => pc[t] = "up_end"
  /\ l = "up_end" => pc[t] = "up_por"
  /\ l = "idle" => t = "work"
  /\ t # "work" => /\ l \in Early => pc[t] \in Early
                   /\ l \in {"up_por", "up_end"} => pm_mutex'[d] = d
                   /\ refused' = refused
  /\ refused' \in {refused, refused \cup {d}} /\ pm_mutex' \in [Devs -> Threads \cup {"none"}]
  /\ \A e \in Devs \ {d} : pm_mutex'[e] = pm_mutex[e]

After(l) == IF l = "idle" THEN "bound" ELSE l

Fits(d, l, h, f) ==
  d \notin met' =>
    /\ "cntrl" \in held[d] /\ "twice" \notin f
    /\ d \notin refused' => "irqs" \notin f /\ "ctxt" \notin f /\ HeldAt(After(l), h)
    /\ d \in refused' /\ f = {} => Left(h) /\ After(l) \in {"bound", "dn_flush", "dn_irq"}

\* Such a Step keeps the invariant.
LEMMA StepKeeps ==
  ASSUME PciInv, fault = {}, Watched, NEW t \in Threads, NEW d \in Devs, d = Dev(t),
         pc[t] \notin {"idle", "none"}, NEW l, NEW h, NEW f,
         Moves(t, d, l, h, f), Fits(d, l, h, f)
  PROVE  PciInv'
<1> USE DEF Moves
<1>1. PciType
  BY DEF PciInv, CallsBalanced, PciType
<1>2. PciType'
  <2>1. refused' \subseteq Devs /\ met' \subseteq Devs
    BY <1>1 DEF PciType, TypeOK, Watched
  <2> QED BY <1>1, <2>1, StepType
<1>3. fault' = {d} \X (f \cup (IF "cntrl" \in held[d] THEN {} ELSE {"freed"}))
      /\ held'[d] = h
  BY <1>1 DEF Step, PciType, TypeOK
<1>4. CallsBalanced'
  <2>1. ASSUME NEW e \in Devs, NEW r, <<e, r>> \in fault'
        PROVE  e = d /\ (r \in f \/ (r = "freed" /\ "cntrl" \notin held[d]))
    BY <1>3, <2>1
  <2>2. ASSUME NEW e \in Devs, <<e, "freed">> \in fault' \/ <<e, "twice">> \in fault'
        PROVE  e \in met'
    BY <2>1, <2>2 DEF Fits, Res
  <2>3. ASSUME NEW e \in Devs, <<e, "irqs">> \in fault' \/ <<e, "ctxt">> \in fault'
        PROVE  e \in met' \cup refused'
    BY <2>1, <2>3 DEF Fits
  <2> QED BY <1>2, <2>2, <2>3 DEF CallsBalanced, PciType
<1>5. ASSUME fault' = {} PROVE Good(d)'
  <2>1. f = {}
    <3>1. ASSUME NEW r \in f PROVE <<d, r>> \in fault'
      BY <1>3
    <3> QED BY <1>5, <3>1
  <2>2. Fresh(d)'
    <3>1. Fresh(d) /\ d # "work"
      BY PciConstants DEF PciInv, Good
    <3>2. CASE t = "work"
      <4>1. Works(d) /\ pc'[d] = pc[d]
        BY <1>1, <3>1, <3>2 DEF Works, Dev, Step, PciType, TypeOK, Threads
      <4>2. pc[d] \notin Early \cup {"up_end"}
        BY <3>1, <3>2, <4>1, PciConstants DEF Fresh, Unlocked, Works, Dev
      <4>3. pc[d] = "bound" => d \notin met /\ ~Meets(d)'
        BY <3>1, <4>1 DEF Fresh, Meets
      <4> QED BY <4>1, <4>2, <4>3 DEF Fresh, Watched, Early
    <3>3. CASE t # "work"
      <4>1. pc[d] = pc[t] /\ pc'[d] = l /\ pc'["work"] = pc["work"] /\ d = t
            /\ UNCHANGED <<mhi_cntrl, s_mhi_cntrl, queued>> /\ refused' = refused
        BY <1>1, <3>1, <3>3 DEF Dev, Step, PciType, TypeOK, Threads
      <4>2. Works(d)' = Works(d) /\ Due(d)' = Due(d)
        BY <4>1 DEF Works, Due
      <4>3. l \in Early \cup {"up_end", "bound"} => d \notin met /\ ~Meets(d)'
        BY <3>1, <4>1, <4>2 DEF Fresh, Meets, Works, Due, Early
      <4>4. l \in Early => ~Works(d)' /\ ~Due(d)'
        BY <3>1, <4>1, <4>2 DEF Fresh
      <4>5. l = "up_end" => ~Works(d)'
        BY <3>1, <4>1, <4>2 DEF Fresh, Early
      <4>6. l \in Early \cup {"up_end"} => d \notin refused'
        BY <3>1, <3>3, <4>1 DEF Fresh, Early
      <4>7. l \in {"up_por", "up_end"} => pm_mutex'[d] = d
        BY <3>3
      <4> QED BY <4>1, <4>3, <4>4, <4>5, <4>6, <4>7 DEF Fresh, Watched
    <3> QED BY <3>2, <3>3
  <2>3. CASE d \in met'
    BY <2>2, <2>3 DEF Good, Apart, Holds, Crippled
  <2>4. CASE d \notin met'
    <3>1. pc'[d] # "none" /\ (Phase(d)' = After(l) \/ (l = "bound" /\ Phase(d)' = "dn_flush"))
      BY <2>4, OneThread DEF After
    <3>2. ~Meets(d)'
      BY <1>1, <2>4 DEF Watched
    <3>3. Holds(d)'
      BY <1>3, <2>4, <3>1 DEF Holds, Fits, HeldAt, After
    <3>4. Crippled(d)'
      BY <1>3, <2>1, <2>4, <3>1 DEF Crippled, Fits
    <3> QED BY <2>2, <3>2, <3>3, <3>4 DEF Good, Apart
  <2> QED BY <2>3, <2>4
<1>6. ASSUME fault' = {}, NEW e \in Devs PROVE Good(e)'
  BY <1>5, <1>6, OtherDevices
<1> QED BY <1>2, <1>4, <1>6 DEF PciInv, PciType

\* What a Step finds.
LEMMA StepFinds ==
  ASSUME PciInv, fault = {}, Watched, NEW t \in Threads, NEW d \in Devs, d = Dev(t),
         pc[t] \notin {"idle", "none"}, pc[t] = "dn_flush" => Unlocked(t),
         NEW l, l # "none", l = "bound" => pc[t] = "up_end", l = "up_end" => pc[t] = "up_por",
         l = "idle" => t = "work",
         NEW h, NEW f, Step(t, l, h, f), d \notin met'
  PROVE  /\ d \notin refused => HeldAt(pc[t], held[d])
         /\ d \in refused => /\ Left(held[d])
                             /\ pc[t] \in {"bound", "dn_flush", "dn_irq"}
<1>1. d \notin met /\ Phase(d) = pc[t]
  BY OneThread
<1> QED BY <1>1 DEF PciInv, Good, Holds, Crippled

-----------------------------------------------------------------------------
(* The actions                                                             *)

\* The type facts the steps below use.
LEMMA Typed ==
  ASSUME PciInv
  PROVE  /\ pc \in [Threads -> Pcs] /\ held \in [Devs -> SUBSET Res]
         /\ pm_mutex \in [Devs -> Threads \cup {"none"}]
BY DEF PciInv, CallsBalanced, TypeOK

\* mhi_prepare_for_power_up(), whether it succeeds or not.
LEMMA PrepareKeeps ==
  ASSUME PciInv, fault = {}, Watched, NEW t \in Threads, mhi_prepare_for_power_up(t)
  PROVE  PciInv'
<1>1. pc[t] = "prep" /\ pm_mutex' \in [Devs -> Threads \cup {"none"}] /\ UNCHANGED pm_mutex
  BY Typed DEF mhi_prepare_for_power_up
<1>2. PICK d \in Devs : d = Dev(t)
  BY <1>1, DevType DEF PciInv, CallsBalanced
<1>3. held[d] \subseteq Res
  BY Typed
<1>4. CASE /\ Step(t, "up_irq", held[d] \cup {"ctxt", "pre_init"}, Wants(t, "ctxt"))
           /\ UNCHANGED refused
  <2> DEFINE h == held[d] \cup {"ctxt", "pre_init"}
  <2>1. d \notin met' => d \notin refused /\ held[d] \ {"up"} = {"cntrl", "reg"}
    BY <1>1, <1>2, <1>4, StepFinds DEF HeldAt
  <2>2. d \notin met' => Wants(t, "ctxt") = {} /\ HeldAt("up_irq", h) /\ "cntrl" \in held[d]
    BY <1>2, <2>1 DEF HeldAt, Wants, Prepared
  <2>3. Wants(t, "ctxt") \subseteq {"twice"} /\ h \in SUBSET Res
    BY <1>3 DEF Wants, Res
  <2>4. Moves(t, d, "up_irq", h, Wants(t, "ctxt")) /\ Fits(d, "up_irq", h, Wants(t, "ctxt"))
    BY <1>1, <1>4, <2>1, <2>2, <2>3 DEF Moves, Fits, After, Pcs, Early
  <2> QED BY <1>1, <1>2, <2>4, StepKeeps
<1>5. CASE /\ Step(t, IF t = "work" THEN "idle" ELSE "unreg", held[d], {})
           /\ refused' = IF t = "work" THEN refused \cup {d} ELSE refused
  <2> DEFINE l == IF t = "work" THEN "idle" ELSE "unreg"
  <2>1. d \notin met' => d \notin refused /\ held[d] \ {"up"} = {"cntrl", "reg"}
    BY <1>1, <1>2, <1>5, StepFinds DEF HeldAt
  <2>2. d \notin met' =>
          /\ "cntrl" \in held[d]
          /\ d \notin refused' => HeldAt(After(l), held[d])
          /\ d \in refused' => Left(held[d]) /\ After(l) = "bound"
    BY <1>5, <2>1 DEF HeldAt, After, Left
  <2>3. Moves(t, d, l, held[d], {}) /\ Fits(d, l, held[d], {})
    BY <1>1, <1>3, <1>5, <2>2 DEF Moves, Fits, After, Pcs, Early
  <2> QED BY <1>1, <1>2, <2>3, StepKeeps
<1> QED BY <1>2, <1>4, <1>5 DEF mhi_prepare_for_power_up

\* The error path of mhi_async_power_up() from both of its places.
LEMMA UpFailsKeeps ==
  ASSUME PciInv, fault = {}, Watched, NEW t \in Threads, NEW d \in Devs, d = Dev(t),
         pc[t] \in {"up_irq", "up_end"}, NEW h \in SUBSET Res, UpFails(t, h),
         d \notin met' /\ d \notin refused => h \ {"up"} = Prepared
  PROVE  PciInv'
<1> DEFINE l == IF t = "work" THEN "idle" ELSE "unprep"
<1>1. /\ Step(t, l, WithoutCtxt(h), {}) /\ WithoutCtxt(h) \in SUBSET Res
      /\ refused' = IF t = "work" THEN refused \cup {d} ELSE refused
      /\ pm_mutex' \in [Devs -> Threads \cup {"none"}]
      /\ \A e \in Devs \ {d} : pm_mutex'[e] = pm_mutex[e]
  BY Typed DEF UpFails, WithoutCtxt, Released
<1>2. d \notin met' => d \notin refused /\ HeldAt(pc[t], held[d])
  BY <1>1, StepFinds
<1>3. d \notin met' => "cntrl" \in held[d] /\ WithoutCtxt(h) = h /\ h \ {"up"} = Prepared
  BY <1>2 DEF HeldAt, Prepared, WithoutCtxt, Res
<1>4. d \notin met' =>
        /\ d \notin refused' => HeldAt(After(l), h)
        /\ d \in refused' => Left(h) /\ After(l) = "bound"
  BY <1>1, <1>2, <1>3 DEF HeldAt, Left, After
<1>5. Moves(t, d, l, WithoutCtxt(h), {}) /\ Fits(d, l, WithoutCtxt(h), {})
  BY <1>1, <1>3, <1>4 DEF Moves, Fits, After, Pcs, Early
<1> QED BY <1>5, StepKeeps

\* mhi_init_irq_setup() in mhi_async_power_up().
LEMMA UpIrqKeeps ==
  ASSUME PciInv, fault = {}, Watched, NEW t \in Threads, power_up_irq(t)
  PROVE  PciInv'
<1>1. pc[t] = "up_irq"
  BY DEF power_up_irq
<1>2. PICK d \in Devs : d = Dev(t)
  BY <1>1, DevType DEF PciInv, CallsBalanced
<1>3. held[d] \subseteq Res
  BY Typed
<1>4. CASE /\ Step(t, "up_por", (held[d] \ {"up"}) \cup {"ctxt", "irqs"}, Wants(t, "irqs"))
           /\ pm_mutex' = [pm_mutex EXCEPT ![d] = t] /\ UNCHANGED refused
  <2> DEFINE h == (held[d] \ {"up"}) \cup {"ctxt", "irqs"}
  <2>1. d \notin met' => d \notin refused /\ held[d] \ {"up"} = Prepared
    BY <1>1, <1>2, <1>4, StepFinds DEF HeldAt
  <2>2. d \notin met' => Wants(t, "irqs") = {} /\ HeldAt("up_por", h) /\ "cntrl" \in held[d]
    BY <1>2, <2>1 DEF HeldAt, Wants, Prepared
  <2>3. /\ Wants(t, "irqs") \subseteq {"twice"} /\ h \in SUBSET Res
        /\ pm_mutex' \in [Devs -> Threads \cup {"none"}]
        /\ t # "work" => pm_mutex'[d] = d
        /\ \A e \in Devs \ {d} : pm_mutex'[e] = pm_mutex[e]
    BY <1>2, <1>3, <1>4, Typed DEF Wants, Res, Dev
  <2>4. Moves(t, d, "up_por", h, Wants(t, "irqs")) /\ Fits(d, "up_por", h, Wants(t, "irqs"))
    BY <1>1, <1>4, <2>1, <2>2, <2>3 DEF Moves, Fits, After, Pcs, Early
  <2> QED BY <1>1, <1>2, <2>4, StepKeeps
<1>5. CASE UpFails(t, held[d] \ {"up"})
  <2>1. d \notin met' /\ d \notin refused => held[d] \ {"up"} = Prepared
    <3>1. Step(t, IF t = "work" THEN "idle" ELSE "unprep", WithoutCtxt(held[d] \ {"up"}), {})
      BY <1>5 DEF UpFails
    <3> QED BY <1>1, <1>2, <3>1, StepFinds DEF HeldAt
  <2> QED BY <1>1, <1>2, <1>3, <1>5, <2>1, UpFailsKeeps
<1> QED BY <1>2, <1>4, <1>5 DEF power_up_irq

\* pm_state becomes POR.
LEMMA UpPorKeeps ==
  ASSUME PciInv, fault = {}, Watched, NEW t \in Threads, power_up_por(t)
  PROVE  PciInv'
<1>1. pc[t] = "up_por"
  BY DEF power_up_por
<1>2. PICK d \in Devs : d = Dev(t)
  BY <1>1, DevType DEF PciInv, CallsBalanced
<1>3. Step(t, "up_end", held[d] \cup {"up"}, {}) /\ UNCHANGED <<pm_mutex, refused>>
  BY <1>2 DEF power_up_por, Keeps
<1>4. held[d] \cup {"up"} \in SUBSET Res
  BY Typed DEF Res
<1>5. d \notin met' => d \notin refused /\ held[d] = Prepared \cup {"irqs"}
  BY <1>1, <1>2, <1>3, StepFinds DEF HeldAt
<1>6. d \notin met' => HeldAt("up_end", held[d] \cup {"up"}) /\ "cntrl" \in held[d]
  BY <1>5 DEF HeldAt, Prepared, Res
<1>7. t # "work" => pm_mutex'[d] = d
  BY <1>1, <1>2, <1>3 DEF Dev, PciInv, Good, Fresh
<1>8. Moves(t, d, "up_end", held[d] \cup {"up"}, {}) /\ Fits(d, "up_end", held[d] \cup {"up"}, {})
  BY <1>1, <1>3, <1>4, <1>5, <1>6, <1>7, Typed DEF Moves, Fits, After, Pcs, Early
<1> QED BY <1>1, <1>2, <1>8, StepKeeps

\* The end of mhi_async_power_up().
LEMMA UpEndKeeps ==
  ASSUME PciInv, fault = {}, Watched, NEW t \in Threads, power_up_end(t)
  PROVE  PciInv'
<1>1. pc[t] = "up_end"
  BY DEF power_up_end
<1>2. PICK d \in Devs : d = Dev(t)
  BY <1>1, DevType DEF PciInv, CallsBalanced
<1>3. held[d] \subseteq Res
  BY Typed
<1>4. CASE /\ Step(t, IF t = "work" THEN "idle" ELSE "bound", held[d], {})
           /\ pm_mutex' = [pm_mutex EXCEPT ![d] = "none"] /\ UNCHANGED refused
  <2>1. d \notin met' => d \notin refused /\ held[d] = Res
    BY <1>1, <1>2, <1>4, StepFinds DEF HeldAt
  <2>2. d \notin met' => HeldAt("bound", held[d]) /\ "cntrl" \in held[d]
    BY <2>1 DEF HeldAt, Res
  <2>3. pm_mutex' \in [Devs -> Threads \cup {"none"}]
    BY <1>4, Typed
  <2> DEFINE l == IF t = "work" THEN "idle" ELSE "bound"
  <2>4. Moves(t, d, l, held[d], {}) /\ Fits(d, l, held[d], {})
    BY <1>1, <1>3, <1>4, <2>1, <2>2, <2>3 DEF Moves, Fits, After, Pcs, Early
  <2> QED BY <1>1, <1>2, <2>4, StepKeeps
<1>5. CASE UpFails(t, UpFailsFrees(t))
  <2>1. UpFailsFrees(t) = held[d] \ {"irqs"}
    BY <1>2 DEF UpFailsFrees
  <2>2. d \notin met' /\ d \notin refused => UpFailsFrees(t) \ {"up"} = Prepared
    <3>1. Step(t, IF t = "work" THEN "idle" ELSE "unprep", WithoutCtxt(UpFailsFrees(t)), {})
      BY <1>5 DEF UpFails
    <3>2. d \notin met' /\ d \notin refused => held[d] = Res
      BY <1>1, <1>2, <3>1, StepFinds DEF HeldAt
    <3> QED BY <2>1, <3>2 DEF Res, Prepared
  <2> QED BY <1>1, <1>2, <1>3, <1>5, <2>1, <2>2, UpFailsKeeps
<1> QED BY <1>2, <1>4, <1>5 DEF power_up_end

\* mhi_power_down() up to the end of flush_work().
LEMMA DownFlushKeeps ==
  ASSUME PciInv, fault = {}, Watched, NEW t \in Threads, power_down_flush(t)
  PROVE  PciInv'
<1>1. pc[t] = "dn_flush" /\ Unlocked(t)
  BY DEF power_down_flush
<1>2. PICK d \in Devs : d = Dev(t)
  BY <1>1, DevType DEF PciInv, CallsBalanced
<1>3. Step(t, "dn_irq", held[d] \ {"up"}, {}) /\ UNCHANGED <<pm_mutex, refused>>
  BY <1>2 DEF power_down_flush, Keeps
<1>4. held[d] \ {"up"} \in SUBSET Res
  BY Typed
<1>5. d \notin met' => /\ d \notin refused => held[d] = Res
                       /\ d \in refused => Left(held[d])
  BY <1>1, <1>2, <1>3, StepFinds DEF HeldAt
<1>6. d \notin met' =>
        /\ "cntrl" \in held[d] /\ "cntrl" \in held[d] \ {"up"}
        /\ d \notin refused => HeldAt("dn_irq", held[d] \ {"up"})
        /\ d \in refused => Left(held[d] \ {"up"})
  BY <1>5 DEF HeldAt, Prepared, Res, Left
<1>7. Moves(t, d, "dn_irq", held[d] \ {"up"}, {}) /\ Fits(d, "dn_irq", held[d] \ {"up"}, {})
  BY <1>1, <1>3, <1>4, <1>6, Typed DEF Moves, Fits, After, Pcs, Early
<1> QED BY <1>1, <1>2, <1>7, StepKeeps

\* mhi_power_down() frees the interrupts; of a controller whose recovery failed, those that
\* are gone.
LEMMA DownFreeKeeps ==
  ASSUME PciInv, fault = {}, Watched, NEW t \in Threads, power_down_free(t)
  PROVE  PciInv'
<1>1. pc[t] = "dn_irq"
  BY DEF power_down_free
<1>2. PICK d \in Devs : d = Dev(t)
  BY <1>1, DevType DEF PciInv, CallsBalanced
<1> DEFINE h == WithoutCtxt(held[d] \ {"irqs"})
           f == Needs(t, "irqs") \cup (IF "pre_init" \in held[d] THEN {} ELSE Needs(t, "ctxt"))
<1>3. Step(t, "unprep", h, f) /\ UNCHANGED <<pm_mutex, refused>>
  BY <1>2 DEF power_down_free, Keeps
<1>4. h \in SUBSET Res /\ f \subseteq {"irqs", "ctxt"}
  BY Typed DEF WithoutCtxt, Needs
<1>5. d \notin met' => /\ d \notin refused => held[d] = Prepared \cup {"irqs"}
                       /\ d \in refused => Left(held[d])
  BY <1>1, <1>2, <1>3, StepFinds DEF HeldAt
<1>6. d \notin met' => "cntrl" \in held[d]
  BY <1>5 DEF Prepared, Left
<1>7. d \notin met' /\ d \notin refused => f = {} /\ HeldAt("unprep", h)
  BY <1>2, <1>5 DEF Needs, WithoutCtxt, HeldAt, Prepared
<1>8. d \notin met' /\ d \in refused => f # {}
  BY <1>2, <1>5 DEF Needs, Left, Prepared
<1>9. f \in SUBSET (Res \cup {"twice"}) /\ "twice" \notin f
  BY <1>4 DEF Res
<1> HIDE DEF h, f
<1>10. Moves(t, d, "unprep", h, f) /\ Fits(d, "unprep", h, f)
  BY <1>1, <1>3, <1>4, <1>6, <1>7, <1>8, <1>9, Typed DEF Moves, Fits, After, Pcs, Early
<1> QED BY <1>1, <1>2, <1>10, StepKeeps

\* mhi_unprepare_after_power_down().
LEMMA UnprepareKeeps ==
  ASSUME PciInv, fault = {}, Watched, NEW t \in Threads, mhi_unprepare_after_power_down(t)
  PROVE  PciInv'
<1>1. pc[t] = "unprep"
  BY DEF mhi_unprepare_after_power_down
<1>2. PICK d \in Devs : d = Dev(t)
  BY <1>1, DevType DEF PciInv, CallsBalanced
<1> DEFINE l == IF t = "work" THEN "prep" ELSE "unreg"
           h == held[d] \ {"ctxt", "pre_init"}
<1>3. Step(t, l, h, Needs(t, "ctxt")) /\ UNCHANGED <<pm_mutex, refused>>
  BY <1>2 DEF mhi_unprepare_after_power_down, Keeps
<1>4. h \in SUBSET Res /\ Needs(t, "ctxt") \subseteq {"ctxt"}
  BY Typed DEF Needs
<1>5. d \notin met' => d \notin refused /\ held[d] \ {"up"} = Prepared
  BY <1>1, <1>2, <1>3, StepFinds DEF HeldAt
<1>6. d \notin met' => "cntrl" \in held[d] /\ Needs(t, "ctxt") = {} /\ HeldAt(l, h)
  BY <1>2, <1>5 DEF Needs, HeldAt, Prepared
<1>7. Needs(t, "ctxt") \in SUBSET (Res \cup {"twice"}) /\ "twice" \notin Needs(t, "ctxt")
  BY <1>4 DEF Res
<1>8. Moves(t, d, l, h, Needs(t, "ctxt")) /\ Fits(d, l, h, Needs(t, "ctxt"))
  BY <1>1, <1>3, <1>4, <1>5, <1>6, <1>7, Typed DEF Moves, Fits, After, Pcs, Early
<1> QED BY <1>1, <1>2, <1>8, StepKeeps

\* A device's own thread is in Threads and is about its device.
LEMMA OwnThread == ASSUME NEW d \in Devs PROVE d \in Threads /\ d # "work" /\ d = Dev(d)
BY PciConstants DEF Threads, Dev

\* The steps of probe() and remove() that take or give back one thing.
LEMMA PciKeeps ==
  ASSUME PciInv, fault = {}, Watched, NEW d \in Devs, Pci(d) \/ mhi_pci_remove(d)
  PROVE  PciInv'
<1> USE OwnThread
<1>1. held[d] \subseteq Res
  BY Typed
<1>2. CASE probe_claim(d)
  <2>1. PICK l \in {"reg", "free"} : Step(d, l, held[d], {})
    BY <1>2 DEF probe_claim
  <2>2. pc[d] = "claim" /\ UNCHANGED <<pm_mutex, refused>>
    BY <1>2 DEF probe_claim, Keeps
  <2>3. d \notin met' => d \notin refused /\ held[d] = {"cntrl"}
    BY <2>1, <2>2, StepFinds DEF HeldAt
  <2>4. Moves(d, d, l, held[d], {}) /\ Fits(d, l, held[d], {})
    BY <1>1, <2>1, <2>2, <2>3, Typed DEF Moves, Fits, After, Pcs, Early, HeldAt
  <2> QED BY <2>2, <2>4, StepKeeps
<1>3. CASE probe_register(d)
  <2>1. pc[d] = "reg" /\ UNCHANGED <<pm_mutex, refused>>
    BY <1>3 DEF probe_register, Keeps
  <2>2. CASE Step(d, "prep", held[d] \cup {"reg"}, {})
    <3>1. d \notin met' => d \notin refused /\ held[d] = {"cntrl"}
      BY <2>1, <2>2, StepFinds DEF HeldAt
    <3>2. Moves(d, d, "prep", held[d] \cup {"reg"}, {}) /\ Fits(d, "prep", held[d] \cup {"reg"}, {})
      BY <1>1, <2>1, <2>2, <3>1, Typed DEF Moves, Fits, After, Pcs, Early, HeldAt, Res
    <3> QED BY <2>1, <3>2, StepKeeps
  <2>3. CASE Step(d, "free", held[d], {})
    <3>1. d \notin met' => d \notin refused /\ held[d] = {"cntrl"}
      BY <2>1, <2>3, StepFinds DEF HeldAt
    <3>2. Moves(d, d, "free", held[d], {}) /\ Fits(d, "free", held[d], {})
      BY <1>1, <2>1, <2>3, <3>1, Typed DEF Moves, Fits, After, Pcs, Early, HeldAt
    <3> QED BY <2>1, <3>2, StepKeeps
  <2> QED BY <1>3, <2>2, <2>3 DEF probe_register
<1>4. CASE mhi_unregister_controller(d)
  <2>1. pc[d] = "unreg" /\ UNCHANGED <<pm_mutex, refused>> /\ Step(d, "free", held[d] \ {"reg"}, {})
    BY <1>4 DEF mhi_unregister_controller, Keeps
  <2>2. d \notin met' => d \notin refused /\ held[d] \ {"up"} = {"cntrl", "reg"}
    BY <2>1, StepFinds DEF HeldAt
  <2>3. Moves(d, d, "free", held[d] \ {"reg"}, {}) /\ Fits(d, "free", held[d] \ {"reg"}, {})
    BY <1>1, <2>1, <2>2, Typed DEF Moves, Fits, After, Pcs, Early, HeldAt
  <2> QED BY <2>1, <2>3, StepKeeps
<1>5. CASE mhi_free_controller(d)
  <2> DEFINE h == held[d] \ {"cntrl", "up"}
  <2>1. pc[d] = "free" /\ UNCHANGED <<pm_mutex, refused>> /\ Step(d, "gone", h, {})
    BY <1>5 DEF mhi_free_controller, Keeps
  <2>2. d \notin met' => d \notin refused /\ held[d] \ {"up"} = {"cntrl"}
    BY <2>1, StepFinds DEF HeldAt
  <2>3. Moves(d, d, "gone", h, {}) /\ Fits(d, "gone", h, {})
    BY <1>1, <2>1, <2>2, Typed DEF Moves, Fits, After, Pcs, Early, HeldAt
  <2> QED BY <2>1, <2>3, StepKeeps
<1>6. CASE mhi_pci_remove(d)
  <2>1. pc[d] = "bound" /\ UNCHANGED <<pm_mutex, refused>> /\ Step(d, "dn_flush", held[d], {})
    BY <1>6 DEF mhi_pci_remove, Keeps
  <2>2. d \notin met' => /\ d \notin refused => held[d] = Res
                         /\ d \in refused => Left(held[d])
    BY <2>1, StepFinds DEF HeldAt
  <2>3. d \notin met' => "cntrl" \in held[d] /\ (d \notin refused => HeldAt("dn_flush", held[d]))
    BY <2>2 DEF Res, HeldAt, Left, Prepared
  <2>4. Moves(d, d, "dn_flush", held[d], {}) /\ Fits(d, "dn_flush", held[d], {})
    BY <1>1, <2>1, <2>2, <2>3, Typed DEF Moves, Fits, After, Pcs, Early
  <2> QED BY <2>1, <2>4, StepKeeps
<1> QED BY <1>2, <1>3, <1>4, <1>5, <1>6 DEF Pci

\* A new device.
LEMMA ProbeKeeps ==
  ASSUME PciInv, fault = {}, Watched, NEW d \in Devs, mhi_pci_probe(d)
  PROVE  PciInv'
<1>1. /\ pc' = [pc EXCEPT ![d] = "claim"] /\ held' = [held EXCEPT ![d] = {"cntrl"}] /\ pc[d] = "none"
      /\ UNCHANGED <<pm_mutex, s_mhi_cntrl, queued, mhi_cntrl, fault, fatal, over, refused>>
  BY DEF mhi_pci_probe, Keeps
<1>2. PciType /\ "work" \notin Devs
  BY PciConstants DEF PciInv, CallsBalanced, PciType
<1>3. PciType'
  BY <1>1, <1>2 DEF PciType, TypeOK, Watched, Pcs, Res, Threads
<1>4. pc'["work"] = pc["work"] /\ pc'[d] = "claim" /\ held'[d] = {"cntrl"}
  BY <1>1, <1>2 DEF PciType, TypeOK, Threads
<1>5. ~Works(d) /\ ~Due(d) /\ d \notin met \cup refused
  BY <1>1 DEF PciInv, Good, Fresh, Early
<1>6. Good(d)'
  <2>1. ~Works(d)' /\ ~Due(d)' /\ ~Meets(d)' /\ Phase(d)' = "claim"
    BY <1>1, <1>4, <1>5 DEF Works, Due, Meets, Phase
  <2> QED BY <1>1, <1>4, <1>5, <2>1 DEF Good, Fresh, Apart, Holds, Crippled, HeldAt, Watched
<1>7. ASSUME NEW e \in Devs, e # d PROVE Good(e)'
  <2>1. pc'[e] = pc[e] /\ held'[e] = held[e] /\ Good(e)
    BY <1>1, <1>2, <1>7 DEF PciType, TypeOK, Threads, PciInv
  <2>2. Works(e)' = Works(e) /\ Due(e)' = Due(e) /\ Meets(e)' = Meets(e) /\ Phase(e)' = Phase(e)
    BY <1>1, <1>4, <2>1 DEF Works, Due, Meets, Phase
  <2>3. e \in met' <=> e \in met
    BY <2>1, <2>2 DEF Watched, Good, Apart
  <2> QED BY <1>1, <2>1, <2>2, <2>3 DEF Good, Fresh, Apart, Holds, Crippled
<1> QED BY <1>1, <1>3, <1>6, <1>7 DEF PciInv, CallsBalanced, PciType

\* Steps that leave the controllers alone and only change who the work is for.
LEMMA PointerKeeps ==
  ASSUME PciInv, fault = {}, Watched, PciType',
         UNCHANGED <<held, fault, refused, pm_mutex>>,
         \A d \in Devs : pc'[d] = pc[d],
         \A d \in Devs : d \notin met' => Phase(d)' = Phase(d)
                                            \/ (Phase(d) = "bound" /\ Phase(d)' = "dn_flush"),
         \A d \in Devs : pc[d] \in Early => ~Works(d)' /\ ~Due(d)',
         \A d \in Devs : Works(d)' => pc'["work"] = "dn_flush" \/ pc[d] # "up_end"
  PROVE  PciInv'
<1>1. ASSUME NEW d \in Devs PROVE Good(d)'
  <2>1. Good(d) /\ pc'[d] = pc[d]
    BY DEF PciInv
  <2>2. Apart(d)'
    BY DEF Apart, Watched
  <2>3. Fresh(d)'
    <3>1. pc[d] \in Early \cup {"up_end", "bound"} => ~Meets(d)' /\ d \notin met
      BY <2>1 DEF Meets, Good, Fresh, Works, Due
    <3> QED BY <2>1, <3>1 DEF Good, Fresh, Watched
  <2>4. Holds(d)' /\ Crippled(d)'
    <3>1. d \in met => d \in met'
      BY DEF Watched
    <3> QED BY <2>1, <3>1 DEF Good, Holds, Crippled, HeldAt
  <2> QED BY <2>2, <2>3, <2>4 DEF Good
<1> QED BY <1>1 DEF PciInv, CallsBalanced, PciType

\* MHI_CB_FATAL_ERROR of a device.
LEMMA StatusKeeps ==
  ASSUME PciInv, fault = {}, Watched, NEW d \in Devs, mhi_pci_status_cb(d)
  PROVE  PciInv'
<1>1. /\ UNCHANGED <<pc, held, mhi_cntrl, fault, pm_mutex, refused>>
      /\ s_mhi_cntrl' = d /\ queued' = TRUE
      /\ fatal' = fatal \cup {d} /\ over' = (over \cup (fatal \ {d})) \ {d}
  BY DEF mhi_pci_status_cb, Keeps
<1>2. PciType /\ PciType'
  BY <1>1 DEF PciInv, CallsBalanced, PciType, TypeOK, Watched
<1>3. pc[d] \notin Early
  <2>1. {"irqs", "up"} \subseteq held[d] /\ Good(d)
    BY DEF mhi_pci_status_cb, PciInv
  <2>2. pc[d] \in Early => HeldAt(pc[d], held[d])
    BY <2>1 DEF Good, Fresh, Holds, Phase
  <2> QED BY <2>1, <2>2 DEF Early, HeldAt, Prepared
<1>7. \A e \in Devs : Works(e)' => pc'["work"] = "dn_flush" \/ pc[e] # "up_end"
  BY <1>1 DEF PciInv, Good, Fresh, Works
<1>4. \A e \in Devs : pc[e] \in Early => ~Works(e)' /\ ~Due(e)'
  BY <1>1, <1>3 DEF PciInv, Good, Fresh, Works, Due
<1>5. \A e \in Devs : Phase(e)' = Phase(e)
  BY <1>1 DEF Phase, Works
<1>6. UNCHANGED <<held, fault, refused, pm_mutex>> /\ \A e \in Devs : pc'[e] = pc[e]
  BY <1>1
<1> QED BY <1>7, <1>2, <1>4, <1>5, <1>6, PointerKeeps

\* The recovery work starts.
LEMMA WorkKeeps ==
  ASSUME PciInv, fault = {}, Watched, mhi_pci_status_cb_work_func
  PROVE  PciInv'
<1>1. /\ pc["work"] = "idle" /\ queued /\ pc' = [pc EXCEPT !["work"] = "dn_flush"]
      /\ queued' = FALSE /\ mhi_cntrl' = s_mhi_cntrl
      /\ fatal' = fatal \ {s_mhi_cntrl} /\ over' = over \ {s_mhi_cntrl}
      /\ UNCHANGED <<held, s_mhi_cntrl, fault, pm_mutex, refused>>
  BY DEF mhi_pci_status_cb_work_func, Keeps
<1>2. PciType /\ "work" \notin Devs /\ s_mhi_cntrl \in Devs
  BY <1>1, PciConstants DEF PciInv, CallsBalanced, PciType
<1>3. PciType'
  BY <1>1, <1>2 DEF PciType, TypeOK, Watched, Pcs, Threads
<1>4. pc'["work"] = "dn_flush" /\ \A e \in Devs : pc'[e] = pc[e]
  BY <1>1, <1>2 DEF PciType, TypeOK, Threads
<1>5. ASSUME NEW e \in Devs
      PROVE  /\ pc[e] \in Early => ~Works(e)' /\ ~Due(e)'
             /\ e \notin met' => Phase(e)' = Phase(e)
                                    \/ (Phase(e) = "bound" /\ Phase(e)' = "dn_flush")
  <2>1. CASE e = s_mhi_cntrl
    <3>1. /\ Due(e) /\ ~Works(e) /\ Works(e)' /\ Phase(e) = pc[e]
          /\ Phase(e)' = IF pc[e] = "up_end" THEN "up_end" ELSE "dn_flush"
      BY <1>1, <1>4, <2>1 DEF Due, Works, Phase
    <3>2. pc[e] \notin Early
      BY <3>1 DEF PciInv, Good, Fresh
    <3>3. e \notin met' => pc[e] \in {"up_end", "bound"}
      BY <1>4, <3>1, <3>2 DEF Watched, Meets, Works, Early
    <3> QED BY <3>1, <3>2, <3>3
  <2>2. CASE e # s_mhi_cntrl
    <3>1. ~Works(e)' /\ ~Due(e)' /\ ~Works(e)
      BY <1>1, <2>2 DEF Works, Due
    <3>2. Phase(e)' = pc'[e] /\ Phase(e) = pc[e]
      BY <3>1 DEF Phase
    <3> QED BY <1>4, <3>1, <3>2
  <2> QED BY <2>1, <2>2
<1> QED BY <1>1, <1>3, <1>4, <1>5, PointerKeeps

-----------------------------------------------------------------------------
(* The invariant and what it says                                          *)

\* The invariant holds initially.
LEMMA PciInit == Init => PciInv
<1> SUFFICES ASSUME Init PROVE PciInv
  OBVIOUS
<1>1. PciType
  BY InitType
<1>2. ASSUME NEW d \in Devs PROVE Good(d)
  <2>1. pc[d] = "none" /\ pc["work"] = "idle" /\ held[d] = {} /\ d # "work"
    BY PciConstants DEF Init, Threads
  <2>2. ~Works(d) /\ ~Due(d) /\ ~Meets(d) /\ Phase(d) = "none"
    BY <2>1 DEF Init, Works, Due, Meets, Phase
  <2> QED BY <2>1, <2>2 DEF Init, Good, Fresh, Apart, Holds, Crippled, HeldAt
<1> QED BY <1>1, <1>2 DEF PciInv, PciType, CallsBalanced, Init

\* Every step keeps it.
LEMMA PciStep == PciInv /\ [Next]_vars => PciInv'
<1> SUFFICES ASSUME PciInv, [Next]_vars PROVE PciInv'
  OBVIOUS
<1>1. CASE Next
  <2>1. fault = {} /\ Watched /\ Goes
    BY <1>1 DEF Next, Does, Watched
  <2>2. ASSUME NEW t \in Threads, Call(t) PROVE PciInv'
    BY <2>1, <2>2, PrepareKeeps, UpIrqKeeps, UpPorKeeps, UpEndKeeps, DownFlushKeeps,
       DownFreeKeeps, UnprepareKeeps DEF Call
  <2>3. ASSUME NEW d \in Devs,
               mhi_pci_probe(d) \/ Pci(d) \/ mhi_pci_remove(d) \/ mhi_pci_status_cb(d)
        PROVE  PciInv'
    BY <2>1, <2>3, ProbeKeeps, PciKeeps, StatusKeeps
  <2>4. CASE mhi_pci_status_cb_work_func
    BY <2>1, <2>4, WorkKeeps
  <2> QED BY <2>1, <2>2, <2>3, <2>4 DEF Goes
<1>2. CASE UNCHANGED vars
  <2>1. \A d \in Devs : Good(d)' = Good(d)
    BY <1>2 DEF vars, Good, Fresh, Apart, Holds, Crippled, Phase, Works, Due, Meets
  <2> QED BY <1>2, <2>1 DEF vars, PciInv, CallsBalanced, TypeOK
<1> QED BY <1>1, <1>2

\* The invariant holds throughout.
LEMMA PciAlways == Spec => []PciInv
BY PciInit, PciStep, PTL DEF Spec

\* For any number of devices and of recoveries, every power-down, unprepare and free meets
\* what an earlier call took and nothing is taken twice, unless probe or remove met the work
\* or a recovery could not power the device up.
THEOREM PciCallsBalance == Spec => []CallsBalanced
<1>1. PciInv => CallsBalanced
  BY DEF PciInv
<1> QED BY <1>1, PciAlways, PTL

\* A probe that failed at any of its steps and a remove leave nothing behind, for any
\* number of devices, unless they met the work.
THEOREM PciNothingHeld == Spec => []NothingHeld
<1>1. PciInv => NothingHeld
  <2> SUFFICES ASSUME PciInv, NEW d \in Devs, pc[d] = "gone", fault = {}, d \notin met
               PROVE  held[d] = {}
    BY DEF NothingHeld
  <2>1. Good(d)
    BY DEF PciInv
  <2>2. Phase(d) = "gone"
    BY <2>1 DEF Good, Apart, Meets, Phase, Works
  <2> QED BY <2>1, <2>2 DEF Good, Holds, Crippled, HeldAt
<1> QED BY <1>1, PciAlways, PTL

\* Whatever errors and recoveries of however many devices came before, a controller that is
\* bound and not being recovered holds all that probe left it with, or, after a recovery that
\* was refused and only logged, exactly what the refusing call left: no interrupts, and the
\* context with its owner or without.
THEOREM PciRecoveryRestores == Spec => []RecoveryRestores
<1>1. PciInv => RecoveryRestores
  <2> SUFFICES ASSUME PciInv, NEW d \in Devs, pc[d] = "bound", fault = {},
                      pc["work"] = "idle" \/ mhi_cntrl # d
               PROVE  IF d \in refused
                        THEN held[d] \ {"up"} \in {{"cntrl", "reg"}, {"cntrl", "reg", "pre_init", "ctxt"}}
                        ELSE held[d] = Res
    BY DEF RecoveryRestores
  <2>1. Good(d) /\ Phase(d) = "bound" /\ d \notin met
    BY DEF PciInv, Phase, Works, Good, Fresh
  <2> QED BY <2>1 DEF Good, Holds, Crippled, HeldAt, Left, Prepared
<1> QED BY <1>1, PciAlways, PTL
=============================================================================
